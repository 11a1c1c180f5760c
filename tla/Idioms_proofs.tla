---------------------------- MODULE Idioms_proofs -----------------------------
(*****************************************************************************)
(* Proofs about the instructions that compute, for words of any width and    *)
(* for any programs.                                                         *)
(*                                                                           *)
(* Invariant holds whatever the program is.  For each idiom a predicate      *)
(* named ...State says what the registers hold after each of its             *)
(* instructions, in terms of what they held at the start; each step of the   *)
(* program preserves it, and at the end it implies the property.             *)
(*****************************************************************************)
EXTENDS Idioms, Words_proofs

-------------------------------------------------------------------------------
(* Sizes and operands.                                                       *)

LEMMA ByteFacts ==
  /\ Width \in Nat /\ Width >= 4
  /\ ByteBits \in Nat /\ ByteBits >= 1 /\ Width = 4 * ByteBits
  /\ Modulus \in Nat /\ Modulus >= 16 /\ Modulus % 16 = 0 /\ Modulus % 8 = 0
  /\ Word = 0 .. Modulus - 1 /\ 0 .. 15 \subseteq Word
<1>1. Width \in Nat /\ Width >= 4 /\ ByteBits \in Nat /\ ByteBits >= 1 /\ Width = 4 * ByteBits
  BY WidthAssumption, ByteAssumption DEF ByteBits
<1>2. Width - 4 \in Nat /\ Width - 3 \in Nat /\ Width - 2 \in Nat /\ Width - 1 \in Nat
  BY <1>1
<1>3. (Width - 4) + 1 = Width - 3 /\ (Width - 3) + 1 = Width - 2 /\ (Width - 2) + 1 = Width - 1
      /\ (Width - 1) + 1 = Width
  BY <1>1
<1>4. /\ bitPositions[Width - 3] = 2 * bitPositions[Width - 4]
      /\ bitPositions[Width - 2] = 2 * bitPositions[Width - 3]
      /\ bitPositions[Width - 1] = 2 * bitPositions[Width - 2]
      /\ Modulus = 2 * bitPositions[Width - 1]
      /\ bitPositions[Width - 4] \in Nat /\ bitPositions[Width - 4] > 0
  BY <1>2, <1>3, PowerNext, PowerPositive DEF Modulus
<1>5. Modulus \in Nat /\ Modulus >= 16 /\ Modulus % 16 = 0 /\ Modulus % 8 = 0
  BY <1>4
<1> QED
  BY <1>1, <1>5 DEF Word, AllOnes

LEMMA OperandIsWord ==
  ASSUME r \in [Registers -> Word], NEW index \in Operands
  PROVE  getOperand(index) \in Word
<1>1. CASE index \in Registers
  BY <1>1 DEF getOperand
<1>2. CASE index \notin Registers
  <2>1. AllOnes \in Int
    BY WordFacts
  <2> QED
    BY <1>2, <2>1 DEF getOperand, Operands, NumRegisters, Registers, Word
<1> QED
  BY <1>1, <1>2

LEMMA OperandsAreWords ==
  ASSUME r \in [Registers -> Word], NEW i \in Instruction
  PROVE  Src1(i) \in Word /\ Src2(i) \in Word /\ getOperand(i.dest) \in Word
BY OperandIsWord DEF Src1, Src2, Instruction

LEMMA LongOperandIsNumber ==
  ASSUME r \in [Registers -> Word], NEW index \in Operands
  PROVE  getLongOperand(index) \in Nat
<1>1. CASE index \in Registers
  <2>1. First(index, 2) \in Registers /\ First(index, 2) + 1 \in Registers
    BY <1>1 DEF Registers, NumRegisters, First
  <2> DEFINE low == r[First(index, 2)]
             high == r[First(index, 2) + 1]
  <2>2. low \in Nat /\ high \in Nat /\ Modulus \in Nat
    BY <2>1, WordFacts
  <2>3. getLongOperand(index) = low + Modulus * high
    BY <1>1 DEF getLongOperand
  <2> QED
    BY <2>2, <2>3
<1>2. CASE index \notin Registers
  BY <1>2 DEF getLongOperand, Operands, Registers, NumRegisters
<1> QED
  BY <1>1, <1>2

-------------------------------------------------------------------------------
(* Results.                                                                  *)

LEMMA IntegerIsNumber == ASSUME NEW a \in Word PROVE Integer(a) \in Int
BY WordFacts DEF Integer

LEMMA AsIsNumber == ASSUME NEW a \in Word, NEW type PROVE As(type, a) \in Int
BY WordFacts, IntegerIsNumber DEF As

LEMMA BitwiseWord ==
  ASSUME NEW a \in Word, NEW b \in Word
  PROVE  And(a, b) \in Word /\ Or(a, b) \in Word /\ Xor(a, b) \in Word /\ Complement(a) \in Word
<1>1. a \in Int /\ b \in Int
  BY WordFacts
<1> QED
  BY <1>1, BitwiseBits, ComplementIsWord

LEMMA LogicalResult ==
  ASSUME NEW op \in LogicalOps, NEW a \in Word, NEW b \in Word
  PROVE  logicalOp(op, a, b) \in Word
<1>1. Complement(a) \in Word /\ Complement(b) \in Word
  BY BitwiseWord
<1> QED
  BY <1>1, BitwiseWord DEF logicalOp, LogicalOps

LEMMA QuotientIsNumber ==
  ASSUME NEW n \in Int, NEW d \in Int, d # 0
  PROVE  Quotient(n, d) \in Int /\ Rest(n, d) \in Int
<1>1. Magnitude(n) \in Int /\ Magnitude(d) \in Nat /\ Magnitude(d) > 0
  BY DEF Magnitude
<1>2. Magnitude(n) \div Magnitude(d) \in Int
  BY <1>1, Divided
<1>3. Quotient(n, d) \in Int
  BY <1>2 DEF Quotient
<1> QED
  BY <1>3 DEF Rest

LEMMA IntegerZero == ASSUME NEW a \in Word PROVE Integer(a) = 0 <=> a = 0
BY WordFacts DEF Integer, Negative, Word, AllOnes

LEMMA ShiftIsNumber ==
  ASSUME NEW a \in Int, NEW n \in Nat
  PROVE  a * bitPositions[n] \in Int /\ a \div bitPositions[n] \in Int
BY PowerPositive, Divided

LEMMA RotatedIsWord ==
  ASSUME NEW a \in Word, NEW n \in Word
  PROVE  rotate(a, n) \in Word
<1>1. n \in Nat /\ a \in Int /\ (-n) % Width \in Nat
  BY WordFacts
<1>2. Wrap(a * bitPositions[n]) \in Word /\ a \div bitPositions[(-n) % Width] \in Word
  BY <1>1, ShiftIsNumber, WrapIsWord, QuotientBits
<1> QED
  BY <1>2, BitwiseWord DEF rotate

LEMMA ArithmeticResult ==
  ASSUME NEW op \in ArithmeticOps, NEW type, NEW a \in Word, NEW b \in Word
  PROVE  arithmeticOp(op, type, a, b) \subseteq Word
<1> DEFINE x == As(type, a)
           y == As(type, b)
<1>1. x \in Int /\ y \in Int /\ b \in Nat /\ a \in Int
  BY AsIsNumber, WordFacts
<1> HIDE DEF x, y
<1>2. /\ op = "Add" => arithmeticOp(op, type, a, b) = {Wrap(x + y)}
      /\ op = "Subtract" => arithmeticOp(op, type, a, b) = {Wrap(x - y)}
      /\ op = "Multiply" => arithmeticOp(op, type, a, b) = {Wrap(x * y)}
  BY DEF arithmeticOp, x, y
<1>3. x + y \in Int /\ x - y \in Int /\ x * y \in Int
  BY <1>1
<1>4. op \in {"Add", "Subtract", "Multiply"} => arithmeticOp(op, type, a, b) \subseteq Word
  BY <1>2, <1>3, WrapIsWord
<1>5. CASE op = "Divide"
  BY <1>1, <1>5, QuotientIsNumber, WrapIsWord DEF arithmeticOp, x, y
<1>6. CASE op = "Remainder"
  BY <1>1, <1>6, QuotientIsNumber, WrapIsWord DEF arithmeticOp, x, y
<1>7. CASE op = "Rotate"
  BY <1>7, RotatedIsWord DEF arithmeticOp
<1>8. CASE op = "ShiftLeft"
  BY <1>1, <1>8, ShiftIsNumber, WrapIsWord DEF arithmeticOp
<1>9. CASE op = "ShiftRight"
  BY <1>1, <1>9, ShiftIsNumber, WrapIsWord DEF arithmeticOp, x
<1> QED
  BY <1>4, <1>5, <1>6, <1>7, <1>8, <1>9 DEF ArithmeticOps

LEMMA ShiftedIsWord ==
  ASSUME NEW op, NEW a \in Word, NEW n \in Word
  PROVE  shxo(op, a, n) \in Word
<1>1. n \in Nat /\ a \in Int /\ 0 \in Word
  BY WordFacts DEF Word
<1>2. Wrap(a * bitPositions[n]) \in Word /\ a \div bitPositions[n] \in Word
  BY <1>1, ShiftIsNumber, WrapIsWord, QuotientBits
<1> QED
  BY <1>1, <1>2 DEF shxo

LEMMA BitPositionIsWord ==
  ASSUME NEW a \in Word
  PROVE  a % Width \in Positions /\ getBitPosition(a) \in Word
<1>1. a % Width \in Positions
  BY WordFacts DEF Positions
<1> QED
  BY <1>1, PowerBits DEF getBitPosition

LEMMA DividedShiftIsWord ==
  ASSUME NEW a \in Word, NEW n \in Word
  PROVE  shrdi(a, n) \subseteq Word
<1>1. CASE Negative(n)
  <2>1. shrdi(a, n) = Word
    BY <1>1 DEF shrdi
  <2> QED
    BY <2>1
<1>2. CASE ~Negative(n) /\ n >= Width
  <2>1. shrdi(a, n) = {0} /\ 0 \in Word
    BY <1>2, ByteFacts DEF shrdi
  <2> QED
    BY <2>1
<1>3. CASE ~Negative(n) /\ ~(n >= Width)
  <2>1. n \in Positions
    BY <1>3, WordFacts DEF Positions
  <2>2. bitPositions[n] \in Word /\ bitPositions[n] > 0
    BY <2>1, PowerBits, PowerPositive, WordFacts
  <2>3. Integer(a) \in Int /\ Integer(bitPositions[n]) \in Int /\ Integer(bitPositions[n]) # 0
    BY <2>2, IntegerIsNumber, IntegerZero
  <2>4. Quotient(Integer(a), Integer(bitPositions[n])) \in Int
    BY <2>3, QuotientIsNumber
  <2>5. shrdi(a, n) = {Wrap(Quotient(Integer(a), Integer(bitPositions[n])))}
    BY <1>3 DEF shrdi
  <2> QED
    BY <2>4, <2>5, WrapIsWord
<1> QED
  BY <1>1, <1>2, <1>3

LEMMA ExtractedIsWord ==
  ASSUME NEW a \in Word, NEW pos \in Word, NEW len \in Word
  PROVE  extract(a, pos, len) \subseteq Word
<1>1. pos \in Nat /\ len \in Nat /\ AllOnes \in Int
  BY WordFacts
<1>2. a \div bitPositions[pos] \in Word
  BY <1>1, QuotientBits
<1>3. Wrap(AllOnes * bitPositions[len]) \in Word
  BY <1>1, ShiftIsNumber, WrapIsWord
<1>4. And(a \div bitPositions[pos], Complement(Wrap(AllOnes * bitPositions[len]))) \in Word
  BY <1>2, <1>3, BitwiseWord
<1> QED
  BY <1>4 DEF extract

LEMMA ModifiedIsWord ==
  ASSUME NEW mask \in Word, NEW a \in Word, NEW b \in Word
  PROVE  modify(mask, a, b) \in Word
<1>1. And(a, mask) \in Word /\ And(b, Complement(mask)) \in Word
  BY BitwiseWord
<1> QED
  BY <1>1, BitwiseWord DEF modify

LEMMA BitChangesAreWords ==
  ASSUME NEW a \in Word, NEW pos \in Word
  PROVE  notbit(a, pos) \in Word /\ setbit(a, pos) \in Word /\ clrbit(a, pos) \in Word
         /\ alterbit(a, pos) \in Word
<1>1. getBitPosition(pos) \in Word /\ Complement(getBitPosition(pos)) \in Word
  BY BitPositionIsWord, BitwiseWord
<1> QED
  BY <1>1, BitwiseWord DEF notbit, setbit, clrbit, alterbit

\* An instruction with one result computes a word.
LEMMA ResultsAreWords ==
  ASSUME r \in [Registers -> Word], NEW i \in Instruction, i.op \in OneResult
  PROVE  Results(i) \subseteq Word
<1>1. Src1(i) \in Word /\ Src2(i) \in Word
  BY OperandsAreWords
<1>2. r[i.dest] \in Word
  BY DEF Instruction, OneResult, LogicalOps, ArithmeticOps
<1>3. CASE i.op \in LogicalOps
  <2>1. Results(i) = {logicalOp(i.op, Src2(i), Src1(i))}
    BY <1>3 DEF Results, LogicalOps, ArithmeticOps
  <2> QED
    BY <1>1, <1>3, <2>1, LogicalResult
<1>4. CASE i.op \in ArithmeticOps
  <2>1. Results(i) = arithmeticOp(i.op, i.type, Src2(i), Src1(i))
    BY <1>4 DEF Results, ArithmeticOps, LogicalOps
  <2> QED
    BY <1>1, <1>4, <2>1, ArithmeticResult
<1>5. CASE i.op \in {"shlo", "shro"}
  BY <1>1, <1>5, ShiftedIsWord DEF Results, ArithmeticOps, LogicalOps
<1>6. CASE i.op = "shrdi"
  <2>1. Results(i) = shrdi(Src2(i), Src1(i))
    BY <1>6 DEF Results, ArithmeticOps, LogicalOps
  <2> QED
    BY <1>1, <2>1, DividedShiftIsWord
<1>7. CASE i.op = "extract"
  <2>1. Results(i) = extract(r[i.dest], Src1(i), Src2(i))
    BY <1>7 DEF Results, ArithmeticOps, LogicalOps
  <2> QED
    BY <1>1, <1>2, <2>1, ExtractedIsWord
<1>8. CASE i.op = "modify"
  <2>1. Results(i) = {modify(Src1(i), Src2(i), r[i.dest])}
    BY <1>8 DEF Results, ArithmeticOps, LogicalOps
  <2> QED
    BY <1>1, <1>2, <2>1, ModifiedIsWord
<1>9. CASE i.op \in {"notbit", "setbit", "clrbit", "alterbit"}
  <2>1. Results(i) \subseteq {notbit(Src2(i), Src1(i)), setbit(Src2(i), Src1(i)),
                             clrbit(Src2(i), Src1(i)), alterbit(Src2(i), Src1(i))}
    BY <1>9 DEF Results, ArithmeticOps, LogicalOps
  <2> QED
    BY <1>1, <2>1, BitChangesAreWords
<1>10. CASE i.op = "mov"
  BY <1>1, <1>10 DEF Results, ArithmeticOps, LogicalOps
<1> QED
  BY <1>3, <1>4, <1>5, <1>6, <1>7, <1>8, <1>9, <1>10 DEF OneResult

-------------------------------------------------------------------------------
(* What each handler leaves in registers and controls.                       *)

\* The contents the handlers start from.
Contents ==
  r \in [Registers -> Word] /\ ac \in Word /\ tc \in Word /\ halted \in BOOLEAN

LEMMA FirstOfGroup ==
  ASSUME NEW index \in Registers
  PROVE  /\ First(index, 2) \in Registers /\ First(index, 2) + 1 \in Registers
         /\ First(index, 4) \in {0, 4}
BY DEF First, Registers, NumRegisters

LEMMA DestinationIsWord ==
  ASSUME r \in [Registers -> Word], NEW i, NEW value \in Int, setDestination(i, value)
  PROVE  r' \in [Registers -> Word]
<1>1. Wrap(value) \in Word
  BY WrapIsWord
<1> QED
  BY <1>1 DEF setDestination

LEMMA LongDestinationIsWord ==
  ASSUME r \in [Registers -> Word], NEW i, NEW low \in Word, NEW high \in Word,
         setLongDestination(i, low, high)
  PROVE  r' \in [Registers -> Word]
BY DEF setLongDestination

\* Writing the condition code keeps the other bits of the controls.
LEMMA ConditionCode ==
  ASSUME ac \in Word, NEW value \in 0 .. 7
  PROVE  /\ withConditionCode(value) \in Word
         /\ withConditionCode(value) \div 8 = ac \div 8
         /\ withConditionCode(value) % 8 = value
         /\ getConditionCode \in 0 .. 7
<1>1. PICK m \in Int : Modulus = 8 * m
  BY ByteFacts
<1>2. ac \in 0 .. Modulus - 1
  BY ByteFacts
<1>3. withConditionCode(value) = 8 * (ac \div 8) + value
  BY <1>2, ByteFacts DEF withConditionCode, getConditionCode
<1>4. ac \div 8 \in Int /\ 0 <= ac \div 8 /\ ac \div 8 <= m - 1
  BY <1>1, <1>2
<1> QED
  BY <1>1, <1>2, <1>3, <1>4, ByteFacts DEF getConditionCode

\* An instruction is executed by the handler of its operation.
LEMMA HandlerOf ==
  ASSUME NEW i, Execute(i)
  PROVE  \/ i.op \in OneResult /\ compute(i)
         \/ i.op \in {"movl", "movt", "movq"} /\ move(i)
         \/ i.op = "emul" /\ emul(i)
         \/ i.op = "ediv" /\ ediv(i)
         \/ i.op = "modi" /\ modi(i)
         \/ i.op = "bswap" /\ bswap(i)
         \/ i.op \in {"cmp", "cmpinc", "cmpdec"} /\ cmpx(i)
         \/ i.op = "concmp" /\ concmpGeneric(i)
         \/ i.op = "chkbit" /\ chkbit(i)
         \/ i.op \in {"scanbit", "spanbit"} /\ sxbit(i)
         \/ i.op = "scanbyte" /\ scanbyte(i)
         \/ i.op \in {"addc", "subc"} /\ withCarryOperationGeneric(i)
         \/ i.op = "modac" /\ modac(i)
         \/ i.op = "modtc" /\ modtc(i)
<1>1. compute(i) => i.op \in OneResult
  BY DEF compute
<1>2. move(i) => i.op \in {"movl", "movt", "movq"}
  BY DEF move
<1>3. (emul(i) => i.op = "emul") /\ (ediv(i) => i.op = "ediv")
  BY DEF emul, ediv
<1>4. (modi(i) => i.op = "modi") /\ (bswap(i) => i.op = "bswap")
  BY DEF modi, bswap
<1>5. (cmpx(i) => i.op \in {"cmp", "cmpinc", "cmpdec"}) /\ (concmpGeneric(i) => i.op = "concmp")
  BY DEF cmpx, concmpGeneric
<1>6. (chkbit(i) => i.op = "chkbit") /\ (sxbit(i) => i.op \in {"scanbit", "spanbit"})
  BY DEF chkbit, sxbit
<1>7. (scanbyte(i) => i.op = "scanbyte")
      /\ (withCarryOperationGeneric(i) => i.op \in {"addc", "subc"})
  BY DEF scanbyte, withCarryOperationGeneric
<1>8. (modac(i) => i.op = "modac") /\ (modtc(i) => i.op = "modtc")
  BY DEF modac, modtc
<1> QED
  BY <1>1, <1>2, <1>3, <1>4, <1>5, <1>6, <1>7, <1>8, Zenon DEF Execute

-------------------------------------------------------------------------------
(* Every handler leaves words in the registers and the controls.             *)

LEMMA ComputeWords ==
  ASSUME Contents, NEW i \in Instruction, compute(i)
  PROVE  Contents'
<1>1. PICK value \in Results(i) : setDestination(i, value)
  BY DEF compute
<1>2. i.op \in OneResult /\ r \in [Registers -> Word]
  BY DEF compute, Contents
<1>3. value \in Word
  BY <1>1, <1>2, ResultsAreWords
<1>4. value \in Int
  BY <1>3, WordFacts
<1>5. r' \in [Registers -> Word]
  BY <1>1, <1>2, <1>4, DestinationIsWord
<1> QED
  BY <1>5 DEF compute, Contents

LEMMA MoveWords ==
  ASSUME Contents, NEW i \in Instruction, move(i)
  PROVE  Contents'
<1> DEFINE n == CASE i.op = "movl" -> 2 [] i.op = "movt" -> 3 [] i.op = "movq" -> 4
           group == IF n = 2 THEN 2 ELSE 4
           to == First(i.dest, group)
           Part(k) == IF i.src1 \in Registers
                      THEN r[First(i.src1, group) + k]
                      ELSE IF k = 0 THEN i.src1 - NumRegisters ELSE 0
<1>1. r' = [j \in Registers |-> IF j \in to .. to + n - 1 THEN Part(j - to) ELSE r[j]]
  BY DEF move
<1>2. n \in 2 .. 4 /\ group \in {2, 4} /\ n <= group /\ i.dest \in Registers
  BY DEF move, Instruction
<1> HIDE DEF n, group
<1>3. to \in Registers
  BY <1>2 DEF First, Registers, NumRegisters
<1> HIDE DEF to
<1>4. ASSUME NEW j \in Registers, j \in to .. to + n - 1
      PROVE  Part(j - to) \in Word
  <2>1. j - to \in 0 .. n - 1
    BY <1>2, <1>3, <1>4 DEF Registers, NumRegisters
  <2>2. CASE i.src1 \in Registers
    <3>1. First(i.src1, group) \in {0, 2, 4, 6} /\ (group = 4 => First(i.src1, group) \in {0, 4})
      BY <1>2, <2>2 DEF First, Registers, NumRegisters
    <3>2. First(i.src1, group) + (j - to) \in Registers
      BY <1>2, <2>1, <3>1 DEF Registers, NumRegisters
    <3> QED
      BY <2>2, <3>2 DEF Contents
  <2>3. CASE i.src1 \notin Registers
    <3>1. i.src1 - NumRegisters \in Word /\ 0 \in Word
      BY <2>3, ByteFacts DEF Instruction, Operands, Registers, NumRegisters, Word, AllOnes
    <3> QED
      BY <2>3, <3>1
  <2> QED
    BY <2>2, <2>3
<1>5. r' \in [Registers -> Word]
  <2> HIDE DEF Part
  <2> QED
    BY <1>1, <1>4 DEF Contents
<1> QED
  BY <1>5 DEF move, Contents

\* The two words of a product.
LEMMA ProductWords ==
  ASSUME NEW a \in Word, NEW b \in Word
  PROVE  /\ (a * b) % Modulus \in Word /\ (a * b) \div Modulus \in Word
         /\ a * b = Modulus * ((a * b) \div Modulus) + ((a * b) % Modulus)
<1> DEFINE M == Modulus
           p == a * b
           q == p \div M
<1>1. M \in Nat /\ M > 0 /\ a \in 0 .. M - 1 /\ b \in 0 .. M - 1
  BY ByteFacts
<1>2. p \in Nat /\ p < M * M
  <2>1. a * b <= (M - 1) * (M - 1)
    <3> HIDE DEF M
    <3>1. a * b <= a * (M - 1)
      BY <1>1
    <3>2. a * (M - 1) <= (M - 1) * (M - 1)
      BY <1>1
    <3> QED
      BY <1>1, <3>1, <3>2
  <2>2. (M - 1) * (M - 1) < M * M
    BY <1>1
  <2> QED
    BY <1>1, <2>1, <2>2
<1> HIDE DEF M, p
<1>3. q \in Int /\ p % M \in 0 .. M - 1 /\ p = M * q + (p % M)
  BY <1>1, <1>2, Divided
<1> HIDE DEF q
<1>4. q >= 0 /\ q <= M - 1
  <2>1. SUFFICES ASSUME q < 0 \/ q >= M PROVE FALSE
    BY <1>1, <1>3
  <2>2. CASE q < 0
    <3>1. M * q + M <= M * 0
      BY <1>1, <1>3, <2>2, Multiples
    <3> QED
      BY <1>1, <1>2, <1>3, <3>1
  <2>3. CASE q >= M
    <3>1. M * q >= M * M
      <4>1. M < q => M * M + M <= M * q
        BY <1>1, <1>3, Multiples
      <4> QED
        BY <1>1, <1>3, <2>3, <4>1
    <3> QED
      BY <1>1, <1>2, <1>3, <3>1
  <2> QED
    BY <2>1, <2>2, <2>3
<1> QED
  BY <1>1, <1>3, <1>4, ByteFacts DEF M, p, q

LEMMA EmulWords ==
  ASSUME Contents, NEW i \in Instruction, emul(i)
  PROVE  Contents'
<1> DEFINE product == Src2(i) * Src1(i)
<1>1. Src1(i) \in Word /\ Src2(i) \in Word
  BY OperandsAreWords DEF Contents
<1>2. product % Modulus \in Word /\ product \div Modulus \in Word
  BY <1>1, ProductWords
<1>3. setLongDestination(i, product % Modulus, product \div Modulus)
  BY DEF emul
<1> HIDE DEF product
<1>4. r' \in [Registers -> Word]
  BY <1>2, <1>3, LongDestinationIsWord DEF Contents
<1> QED
  BY <1>4 DEF emul, Contents

LEMMA EdivWords ==
  ASSUME Contents, NEW i \in Instruction, ediv(i)
  PROVE  Contents'
<1>1. CASE Src1(i) = 0
  BY <1>1 DEF ediv, Contents
<1>2. CASE Src1(i) # 0
  <2> DEFINE n == getLongOperand(i.src2)
             d == Src1(i)
  <2>1. i.src2 \in Operands
    BY DEF Instruction
  <2>2. n \in Nat /\ d \in Word
    BY <2>1, LongOperandIsNumber, OperandsAreWords DEF Contents
  <2>3. setLongDestination(i, n % d, Wrap(n \div d)) /\ UNCHANGED <<ac, tc, halted>>
    BY <1>2 DEF ediv
  <2> HIDE DEF n, d
  <2>4. d \in Nat /\ d > 0 /\ d < Modulus /\ Modulus \in Nat
    <3>1. d # 0
      BY <1>2 DEF d
    <3> QED
      BY <2>2, <3>1, ByteFacts
  <2>5. n \div d \in Int /\ n % d \in 0 .. d - 1
    BY <2>2, <2>4, Divided
  <2>6. n % d \in Word /\ Wrap(n \div d) \in Word
    <3>1. n % d \in 0 .. Modulus - 1
      BY <2>4, <2>5
    <3> QED
      BY <2>5, <3>1, WrapIsWord, ByteFacts
  <2>7. r' \in [Registers -> Word]
    BY <2>3, <2>6, LongDestinationIsWord DEF Contents
  <2> QED
    BY <2>3, <2>7 DEF Contents
<1> QED
  BY <1>1, <1>2

LEMMA ModiWords ==
  ASSUME Contents, NEW i \in Instruction, modi(i)
  PROVE  Contents'
<1> DEFINE d == Integer(Src1(i))
           n == Integer(Src2(i))
<1>1. d \in Int /\ n \in Int
  BY OperandsAreWords, IntegerIsNumber DEF Contents
<1>2. CASE d = 0
  BY <1>2 DEF modi, Contents
<1>3. CASE d # 0
  <2>1. PICK negative : setDestination(i, IF negative /\ Rest(n, d) # 0
                                          THEN Rest(n, d) + d
                                          ELSE Rest(n, d))
    BY <1>3 DEF modi
  <2>2. UNCHANGED <<ac, tc, halted>>
    BY <1>3 DEF modi
  <2> HIDE DEF d, n
  <2>3. Rest(n, d) \in Int
    BY <1>1, <1>3, QuotientIsNumber
  <2>4. r' \in [Registers -> Word]
    BY <1>1, <2>1, <2>3, DestinationIsWord DEF Contents
  <2> QED
    BY <2>2, <2>4 DEF Contents
<1> QED
  BY <1>2, <1>3

-------------------------------------------------------------------------------
(* Bytes.                                                                    *)

ByteSize == bitPositions[ByteBits]
Byte == 0 .. ByteSize - 1

Joined(b0, b1, b2, b3) == b0 + ByteSize * (b1 + ByteSize * (b2 + ByteSize * b3))

LEMMA ByteSizes ==
  /\ ByteSize \in Nat /\ ByteSize > 0
  /\ bitPositions[ByteBits * 0] = 1 /\ bitPositions[ByteBits * 1] = ByteSize
  /\ bitPositions[ByteBits * 2] = ByteSize * ByteSize
  /\ bitPositions[ByteBits * 3] = ByteSize * (ByteSize * ByteSize)
  /\ Modulus = (ByteSize * ByteSize) * (ByteSize * ByteSize)
<1> DEFINE B == ByteBits
<1>1. B \in Nat /\ Width = 4 * B /\ 2 * B \in Nat /\ 3 * B \in Nat
  BY ByteFacts
<1>2. B * 0 = 0 /\ B * 1 = B /\ B * 2 = B + B /\ B * 3 = B + 2 * B /\ Width = 2 * B + 2 * B
      /\ 2 * B = B + B
  BY <1>1
<1> HIDE DEF B
<1>3. bitPositions[0] = 1 /\ bitPositions[B] \in Nat /\ bitPositions[B] > 0
  BY <1>1, Powers, PowerPositive
<1>4. /\ bitPositions[B + B] = bitPositions[B] * bitPositions[B]
      /\ bitPositions[B + 2 * B] = bitPositions[B] * bitPositions[2 * B]
      /\ bitPositions[2 * B + 2 * B] = bitPositions[2 * B] * bitPositions[2 * B]
  BY <1>1, PowerSum
<1> QED
  BY <1>1, <1>2, <1>3, <1>4 DEF ByteSize, B, Modulus

\* Four bytes put together are a word of these bytes.
LEMMA JoinedBytes ==
  ASSUME NEW b0 \in Byte, NEW b1 \in Byte, NEW b2 \in Byte, NEW b3 \in Byte
  PROVE  LET a == Joined(b0, b1, b2, b3)
         IN /\ a \in Word
            /\ byteOf(a, 0) = b0 /\ byteOf(a, 1) = b1 /\ byteOf(a, 2) = b2 /\ byteOf(a, 3) = b3
<1> DEFINE S == ByteSize
           a2 == b2 + S * b3
           a1 == b1 + S * a2
           a == b0 + S * a1
<1>1. S \in Nat /\ S > 0 /\ S * S \in Nat /\ S * S > 0 /\ Modulus = (S * S) * (S * S)
  BY ByteSizes
<1>2. b0 \in 0 .. S - 1 /\ b1 \in 0 .. S - 1 /\ b2 \in 0 .. S - 1 /\ b3 \in 0 .. S - 1
  BY DEF Byte
<1> HIDE DEF S
<1>3. a2 \in Nat /\ a2 \div S = b3 /\ a2 % S = b2
  <2>1. a2 \in Int /\ a2 = S * b3 + b2 /\ a2 \in Nat
    BY <1>1, <1>2
  <2> QED
    BY <1>1, <1>2, <2>1, UniqueQuotient
<1>4. b3 \div S = 0 /\ b3 % S = b3
  BY <1>1, <1>2
<1>5. a2 <= S * S - 1
  <2>1. S * b3 + S <= S * S
    BY <1>1, <1>2, Multiples
  <2> QED
    BY <1>1, <1>2, <2>1
<1> HIDE DEF a2
<1>6. a1 \in Nat /\ a1 \in Int /\ a1 \div S = a2 /\ a1 % S = b1
  <2>1. a1 \in Int /\ a1 = S * a2 + b1 /\ a1 \in Nat
    BY <1>1, <1>2, <1>3
  <2> QED
    BY <1>1, <1>2, <1>3, <2>1, UniqueQuotient
<1> HIDE DEF a1
<1>7. a \in Nat /\ a \in Int /\ a \div S = a1 /\ a % S = b0
  <2>1. a \in Int /\ a = S * a1 + b0 /\ a \in Nat
    BY <1>1, <1>2, <1>6
  <2> QED
    BY <1>1, <1>2, <1>6, <2>1, UniqueQuotient
<1> HIDE DEF a
<1>8. a \div (S * S) = a2
  BY <1>1, <1>6, <1>7, QuotientOfQuotient
<1>9. a \div (S * (S * S)) = b3
  <2>1. (a \div S) \div (S * S) = a \div (S * (S * S))
    BY <1>1, <1>7, QuotientOfQuotient
  <2>2. (a1 \div S) \div S = a1 \div (S * S)
    BY <1>1, <1>6, QuotientOfQuotient
  <2> QED
    BY <1>3, <1>6, <1>7, <2>1, <2>2
<1>10. a < Modulus
  <2>1. a1 <= S * (S * S) - 1
    <3>1. S * a2 + S <= S * (S * S)
      BY <1>1, <1>3, <1>5, Multiples
    <3>2. a1 = S * a2 + b1 /\ S * a2 \in Int
      BY <1>1, <1>2, <1>3 DEF a1
    <3> QED
      BY <1>1, <1>2, <1>6, <3>1, <3>2
  <2>2. S * a1 + S <= S * (S * (S * S))
    BY <1>1, <1>6, <2>1, Multiples
  <2>3. a = S * a1 + b0 /\ S * a1 \in Int
    BY <1>1, <1>2, <1>6 DEF a
  <2>4. S * (S * (S * S)) = (S * S) * (S * S)
    BY <1>1
  <2> QED
    BY <1>1, <1>2, <2>2, <2>3, <2>4
<1>11. a \in Word
  BY <1>7, <1>10, ByteFacts
<1>12. byteOf(a, 0) = b0 /\ byteOf(a, 1) = b1 /\ byteOf(a, 2) = b2 /\ byteOf(a, 3) = b3
  <2>1. a \div 1 = a
    BY <1>7
  <2> QED
    BY <1>3, <1>4, <1>6, <1>7, <1>8, <1>9, <2>1, ByteSizes DEF byteOf, S, ByteSize
<1>13. Joined(b0, b1, b2, b3) = a
  BY DEF Joined, S, a, a1, a2
<1> QED
  BY <1>11, <1>12, <1>13

\* A word is put together from its bytes.
LEMMA BytesOfWord ==
  ASSUME NEW a \in Word
  PROVE  /\ byteOf(a, 0) \in Byte /\ byteOf(a, 1) \in Byte
         /\ byteOf(a, 2) \in Byte /\ byteOf(a, 3) \in Byte
         /\ a = Joined(byteOf(a, 0), byteOf(a, 1), byteOf(a, 2), byteOf(a, 3))
<1> DEFINE S == ByteSize
           a1 == a \div S
           a2 == a1 \div S
           a3 == a2 \div S
<1>1. S \in Nat /\ S > 0 /\ S * S \in Nat /\ S * S > 0 /\ Modulus = (S * S) * (S * S)
      /\ S * (S * S) \in Nat
  BY ByteSizes
<1>2. a \in Nat /\ a \in Int /\ a < Modulus
  BY ByteFacts
<1> HIDE DEF S
<1>3. a1 \in Int /\ a % S \in 0 .. S - 1 /\ a = S * a1 + (a % S)
  BY <1>1, <1>2, Divided
<1>4. a2 \in Int /\ a1 % S \in 0 .. S - 1 /\ a1 = S * a2 + (a1 % S)
  BY <1>1, <1>3, Divided
<1>5. a3 \in Int /\ a2 % S \in 0 .. S - 1 /\ a2 = S * a3 + (a2 % S)
  BY <1>1, <1>4, Divided
<1>6. a \div (S * S) = a2
  BY <1>1, <1>2, QuotientOfQuotient
<1>7. a \div (S * (S * S)) = a3
  <2>1. (a \div S) \div (S * S) = a \div (S * (S * S))
    BY <1>1, <1>2, QuotientOfQuotient
  <2>2. (a1 \div S) \div S = a1 \div (S * S)
    BY <1>1, <1>3, QuotientOfQuotient
  <2> QED
    BY <2>1, <2>2
<1>8. a3 \in 0 .. S - 1
  <2> DEFINE P == S * (S * S)
  <2>1. P \in Nat /\ P > 0 /\ P * S = Modulus
    BY <1>1
  <2> HIDE DEF P
  <2>2. a \div P = a3 /\ a % P \in 0 .. P - 1 /\ a = P * (a \div P) + (a % P)
    <3>1. a % P \in 0 .. P - 1 /\ a = P * (a \div P) + (a % P)
      BY <1>2, <2>1, Divided
    <3> QED
      BY <1>7, <3>1 DEF P
  <2> HIDE DEF a3
  <2>3. a3 >= 0
    <3>1. SUFFICES ASSUME a3 < 0 PROVE FALSE
      BY <1>5
    <3>2. P * a3 + P <= P * 0
      BY <1>5, <2>1, <3>1, Multiples
    <3> QED
      BY <1>2, <1>5, <2>1, <2>2, <3>2
  <2>4. a3 < S
    <3>1. SUFFICES ASSUME a3 >= S PROVE FALSE
      BY <1>1, <1>5
    <3>2. P * a3 >= P * S
      <4>1. S < a3 => P * S + P <= P * a3
        BY <1>1, <1>5, <2>1, Multiples
      <4> QED
        BY <1>1, <1>5, <2>1, <3>1, <4>1
    <3>3. P * S \in Int /\ P * a3 \in Int
      BY <1>1, <1>5, <2>1
    <3> QED
      BY <1>2, <1>5, <2>1, <2>2, <3>2, <3>3
  <2> QED
    BY <1>1, <1>5, <2>3, <2>4
<1>9. a3 % S = a3
  BY <1>1, <1>8
<1>10. byteOf(a, 0) = a % S /\ byteOf(a, 1) = a1 % S /\ byteOf(a, 2) = a2 % S /\ byteOf(a, 3) = a3
  <2>1. a \div 1 = a
    BY <1>2
  <2> QED
    BY <1>6, <1>7, <1>9, <2>1, ByteSizes DEF byteOf, S, ByteSize
<1>11. a = (a % S) + S * ((a1 % S) + S * ((a2 % S) + S * a3))
  <2> HIDE DEF a1, a2, a3
  <2>1. a2 = (a2 % S) + S * a3
    BY <1>1, <1>5
  <2>2. a1 = (a1 % S) + S * a2
    BY <1>1, <1>4
  <2>3. a = (a % S) + S * a1
    BY <1>1, <1>2, <1>3
  <2> QED
    BY <2>1, <2>2, <2>3
<1> QED
  BY <1>3, <1>4, <1>5, <1>8, <1>10, <1>11 DEF Joined, Byte, S

\* Writing a byte of a word leaves its other bytes.
LEMMA ByteWritten ==
  ASSUME NEW a \in Word, NEW b \in Byte
  PROVE  /\ withByte(a, 0, b) = Joined(b, byteOf(a, 1), byteOf(a, 2), byteOf(a, 3))
         /\ withByte(a, 1, b) = Joined(byteOf(a, 0), b, byteOf(a, 2), byteOf(a, 3))
         /\ withByte(a, 2, b) = Joined(byteOf(a, 0), byteOf(a, 1), b, byteOf(a, 3))
         /\ withByte(a, 3, b) = Joined(byteOf(a, 0), byteOf(a, 1), byteOf(a, 2), b)
<1> DEFINE S == ByteSize
           b0 == byteOf(a, 0)
           b1 == byteOf(a, 1)
           b2 == byteOf(a, 2)
           b3 == byteOf(a, 3)
<1>1. S \in Nat /\ b0 \in Int /\ b1 \in Int /\ b2 \in Int /\ b3 \in Int /\ b \in Int
  BY BytesOfWord, ByteSizes DEF Byte
<1>2. /\ bitPositions[ByteBits * 0] = 1 /\ bitPositions[ByteBits * 1] = S
      /\ bitPositions[ByteBits * 2] = S * S /\ bitPositions[ByteBits * 3] = S * (S * S)
  BY ByteSizes
<1>3. a = b0 + S * (b1 + S * (b2 + S * b3))
  BY BytesOfWord DEF Joined
<1>4. /\ withByte(a, 0, b) = a + (b - b0) * bitPositions[ByteBits * 0]
      /\ withByte(a, 1, b) = a + (b - b1) * bitPositions[ByteBits * 1]
      /\ withByte(a, 2, b) = a + (b - b2) * bitPositions[ByteBits * 2]
      /\ withByte(a, 3, b) = a + (b - b3) * bitPositions[ByteBits * 3]
  BY DEF withByte
<1> HIDE DEF S, b0, b1, b2, b3
<1>5. withByte(a, 0, b) = b + S * (b1 + S * (b2 + S * b3))
  BY <1>1, <1>2, <1>3, <1>4
<1>6. withByte(a, 1, b) = b0 + S * (b + S * (b2 + S * b3))
  <2>1. withByte(a, 1, b) = (b0 + S * (b1 + S * (b2 + S * b3))) + (b - b1) * S
    BY <1>2, <1>3, <1>4
  <2> QED
    BY <1>1, <2>1
<1>7. withByte(a, 2, b) = b0 + S * (b1 + S * (b + S * b3))
  <2>1. withByte(a, 2, b) = (b0 + S * (b1 + S * (b2 + S * b3))) + (b - b2) * (S * S)
    BY <1>2, <1>3, <1>4
  <2> QED
    BY <1>1, <2>1
<1>8. withByte(a, 3, b) = b0 + S * (b1 + S * (b2 + S * b))
  <2>1. withByte(a, 3, b) = (b0 + S * (b1 + S * (b2 + S * b3))) + (b - b3) * (S * (S * S))
    BY <1>2, <1>3, <1>4
  <2> QED
    BY <1>1, <2>1
<1> QED
  BY <1>5, <1>6, <1>7, <1>8 DEF Joined, S, b0, b1, b2, b3

LEMMA WrittenBytes ==
  ASSUME NEW a \in Word, NEW b \in Byte, NEW k \in 0 .. 3
  PROVE  /\ withByte(a, k, b) \in Word
         /\ \A n \in 0 .. 3 : byteOf(withByte(a, k, b), n) = IF n = k THEN b ELSE byteOf(a, n)
<1>1. /\ byteOf(a, 0) \in Byte /\ byteOf(a, 1) \in Byte
      /\ byteOf(a, 2) \in Byte /\ byteOf(a, 3) \in Byte
  BY BytesOfWord
<1>2. CASE k = 0
  BY <1>1, <1>2, ByteWritten, JoinedBytes
<1>3. CASE k = 1
  BY <1>1, <1>3, ByteWritten, JoinedBytes
<1>4. CASE k = 2
  BY <1>1, <1>4, ByteWritten, JoinedBytes
<1>5. CASE k = 3
  BY <1>1, <1>5, ByteWritten, JoinedBytes
<1> QED
  BY <1>2, <1>3, <1>4, <1>5

\* Words with the same bytes are the same.
LEMMA EqualBytes ==
  ASSUME NEW a \in Word, NEW b \in Word, \A n \in 0 .. 3 : byteOf(a, n) = byteOf(b, n)
  PROVE  a = b
<1>1. /\ byteOf(a, 0) = byteOf(b, 0) /\ byteOf(a, 1) = byteOf(b, 1)
      /\ byteOf(a, 2) = byteOf(b, 2) /\ byteOf(a, 3) = byteOf(b, 3)
  OBVIOUS
<1>2. /\ a = Joined(byteOf(a, 0), byteOf(a, 1), byteOf(a, 2), byteOf(a, 3))
      /\ b = Joined(byteOf(b, 0), byteOf(b, 1), byteOf(b, 2), byteOf(b, 3))
  BY BytesOfWord
<1> QED
  BY <1>1, <1>2

\* One byte of bswap.
LEMMA ByteSwapped ==
  ASSUME NEW registers \in [Registers -> Word], NEW i \in Instruction, i.op = "bswap",
         NEW n \in 0 .. 3
  PROVE  /\ swapByte(registers, i, n) \in [Registers -> Word]
         /\ \A j \in Registers : j # i.src2 => swapByte(registers, i, n)[j] = registers[j]
         /\ \A k \in 0 .. 3 : byteOf(swapByte(registers, i, n)[i.src2], k) =
              IF k = 3 - n THEN byteOf(registers[i.src1], n) ELSE byteOf(registers[i.src2], k)
<1>1. i.src1 \in Registers /\ i.src2 \in Registers
  BY DEF Instruction
<1> DEFINE a == registers[i.src2]
           b == byteOf(registers[i.src1], n)
<1>2. a \in Word /\ registers[i.src1] \in Word /\ 3 - n \in 0 .. 3
  BY <1>1
<1>3. b \in Byte
  <2>1. n = 0 \/ n = 1 \/ n = 2 \/ n = 3
    OBVIOUS
  <2> QED
    BY <1>2, <2>1, BytesOfWord
<1>4. swapByte(registers, i, n) = [registers EXCEPT ![i.src2] = withByte(a, 3 - n, b)]
  BY DEF swapByte
<1> HIDE DEF a, b
<1>5. /\ withByte(a, 3 - n, b) \in Word
      /\ \A k \in 0 .. 3 : byteOf(withByte(a, 3 - n, b), k) = IF k = 3 - n THEN b ELSE byteOf(a, k)
  BY <1>2, <1>3, WrittenBytes
<1>6. swapByte(registers, i, n) \in [Registers -> Word]
  BY <1>1, <1>4, <1>5
<1>7. \A j \in Registers : j # i.src2 => swapByte(registers, i, n)[j] = registers[j]
  BY <1>4
<1>8. swapByte(registers, i, n)[i.src2] = withByte(a, 3 - n, b)
  BY <1>1, <1>4
<1> QED
  BY <1>5, <1>6, <1>7, <1>8 DEF a, b

LEMMA BswapWords ==
  ASSUME Contents, NEW i \in Instruction, bswap(i)
  PROVE  Contents'
<1>1. i.op = "bswap" /\ UNCHANGED <<ac, tc, halted>>
      /\ r' = swapByte(swapByte(swapByte(swapByte(r, i, 0), i, 1), i, 2), i, 3)
  BY DEF bswap
<1>2. swapByte(r, i, 0) \in [Registers -> Word]
  BY <1>1, ByteSwapped DEF Contents
<1>3. swapByte(swapByte(r, i, 0), i, 1) \in [Registers -> Word]
  BY <1>1, <1>2, ByteSwapped
<1>4. swapByte(swapByte(swapByte(r, i, 0), i, 1), i, 2) \in [Registers -> Word]
  BY <1>1, <1>3, ByteSwapped
<1>5. r' \in [Registers -> Word]
  BY <1>1, <1>4, ByteSwapped
<1> QED
  BY <1>1, <1>5 DEF Contents

-------------------------------------------------------------------------------
(* Handlers that set the condition code.                                     *)

LEMMA SetCode ==
  ASSUME ac \in Word, NEW value \in 0 .. 7, setConditionCode(value)
  PROVE  ac' \in Word /\ ac' \div 8 = ac \div 8 /\ ac' % 8 = value
BY ConditionCode DEF setConditionCode

\* A set of bit positions has a last one.
LEMMA LastPosition ==
  ASSUME NEW S \in SUBSET Positions, S # {}
  PROVE  /\ (CHOOSE n \in S : \A m \in S : m <= n) \in S
         /\ \A m \in S : m <= (CHOOSE n \in S : \A k \in S : k <= n)
<1> DEFINE Rests == {Width - n : n \in S}
<1>1. Width \in Nat /\ \A n \in S : n \in 0 .. Width - 1
  BY WordFacts DEF Positions
<1>2. Rests \in SUBSET Nat /\ Rests # {}
  BY <1>1
<1>3. PICK t \in Rests : \A s \in Rests : t <= s
  BY <1>2, LeastNumber
<1>4. PICK n \in S : t = Width - n
  BY <1>3
<1>5. \A m \in S : m <= n
  <2>1. SUFFICES ASSUME NEW m \in S PROVE m <= n
    OBVIOUS
  <2>2. Width - m \in Rests
    OBVIOUS
  <2>3. Width - n <= Width - m
    BY <1>3, <1>4, <2>2
  <2> QED
    BY <1>1, <2>3
<1> QED
  BY <1>5

LEMMA CompareWords ==
  ASSUME Contents, NEW i \in Instruction, cmpx(i)
  PROVE  Contents' /\ ac' \div 8 = ac \div 8
<1>1. setConditionCode(compareGeneric(As(i.type, Src1(i)), As(i.type, Src2(i))))
  BY DEF cmpx
<1>2. compareGeneric(As(i.type, Src1(i)), As(i.type, Src2(i))) \in 0 .. 7
  BY DEF compareGeneric
<1>3. ac' \in Word /\ ac' \div 8 = ac \div 8
  BY <1>1, <1>2, SetCode DEF Contents
<1>4. r' \in [Registers -> Word]
  <2>1. Src2(i) \in Word /\ Src2(i) + 1 \in Int /\ Src2(i) - 1 \in Int
    BY OperandsAreWords, WordFacts DEF Contents
  <2>2. r' = r \/ setDestination(i, Src2(i) + 1) \/ setDestination(i, Src2(i) - 1)
    BY DEF cmpx
  <2> QED
    BY <2>1, <2>2, DestinationIsWord DEF Contents
<1> QED
  BY <1>3, <1>4 DEF cmpx, Contents

LEMMA ConditionalCompareWords ==
  ASSUME Contents, NEW i \in Instruction, concmpGeneric(i)
  PROVE  Contents' /\ ac' \div 8 = ac \div 8
<1>1. ac' = ac \/ \E value \in {1, 2} : setConditionCode(value)
  BY DEF concmpGeneric
<1>2. ac' \in Word /\ ac' \div 8 = ac \div 8
  BY <1>1, SetCode DEF Contents
<1> QED
  BY <1>2 DEF concmpGeneric, Contents

LEMMA CheckBitWords ==
  ASSUME Contents, NEW i \in Instruction, chkbit(i)
  PROVE  Contents' /\ ac' \div 8 = ac \div 8
<1>1. \E value \in {0, 2} : setConditionCode(value)
  BY DEF chkbit
<1>2. ac' \in Word /\ ac' \div 8 = ac \div 8
  BY <1>1, SetCode DEF Contents
<1> QED
  BY <1>2 DEF chkbit, Contents

LEMMA ScanBitWords ==
  ASSUME Contents, NEW i \in Instruction, sxbit(i)
  PROVE  Contents' /\ ac' \div 8 = ac \div 8
<1> DEFINE wanted == IF i.op = "scanbit" THEN 1 ELSE 0
           found == {n \in Positions : Bit(Src1(i), n) = wanted}
           last == CHOOSE n \in found : \A m \in found : m <= n
<1>1. \/ setDestination(i, AllOnes) /\ setConditionCode(0)
      \/ found # {} /\ setDestination(i, last) /\ setConditionCode(2)
  BY DEF sxbit
<1>2. AllOnes \in Int /\ (found # {} => last \in Int)
  <2>1. found \in SUBSET Positions
    OBVIOUS
  <2> HIDE DEF found
  <2>2. found # {} => last \in found
    BY <2>1, LastPosition
  <2> HIDE DEF last
  <2>3. found # {} => last \in Nat
    BY <2>1, <2>2, WordFacts
  <2> QED
    BY <2>3, WordFacts DEF AllOnes
<1> HIDE DEF found, last
<1>3. r' \in [Registers -> Word]
  BY <1>1, <1>2, DestinationIsWord DEF Contents
<1>4. ac' \in Word /\ ac' \div 8 = ac \div 8
  BY <1>1, SetCode DEF Contents
<1> QED
  BY <1>3, <1>4 DEF sxbit, Contents

LEMMA ScanByteWords ==
  ASSUME Contents, NEW i \in Instruction, scanbyte(i)
  PROVE  Contents' /\ ac' \div 8 = ac \div 8
<1>1. \E value \in {0, 2} : setConditionCode(value)
  BY DEF scanbyte
<1>2. ac' \in Word /\ ac' \div 8 = ac \div 8
  BY <1>1, SetCode DEF Contents
<1> QED
  BY <1>2 DEF scanbyte, Contents

LEMMA CarryWords ==
  ASSUME Contents, NEW i \in Instruction, withCarryOperationGeneric(i)
  PROVE  Contents' /\ ac' \div 8 = ac \div 8
<1> DEFINE carry  == getConditionCode % 2
           result == IF i.op = "addc"
                     THEN Src2(i) + Src1(i) + carry
                     ELSE (Src2(i) - (Src1(i) - 1) + carry) % LongWord
           over   == /\ Negative(Src1(i)) = Negative(Src2(i))
                     /\ Negative(Src2(i)) # Negative(Wrap(result))
           code   == (IF over THEN 1 ELSE 0) + (IF result >= Modulus THEN 2 ELSE 0)
<1>1. setDestination(i, result) /\ setConditionCode(code) /\ UNCHANGED <<tc, halted>>
  BY DEF withCarryOperationGeneric
<1>2. code \in 0 .. 7
  <2> HIDE DEF over, result
  <2> QED
    OBVIOUS
<1>3. result \in Int
  <2>1. Src1(i) \in Int /\ Src2(i) \in Int /\ getConditionCode \in Int /\ ac \in Int
    BY OperandsAreWords, WordFacts DEF Contents, getConditionCode
  <2>2. carry \in Int
    BY <2>1
  <2>3. LongWord \in Nat /\ LongWord > 0
    BY ByteFacts DEF LongWord
  <2> HIDE DEF carry
  <2> DEFINE difference == Src2(i) - (Src1(i) - 1) + carry
  <2>4. difference \in Int
    BY <2>1, <2>2
  <2> HIDE DEF difference
  <2>5. difference % LongWord \in Int
    BY <2>3, <2>4, Divided
  <2> QED
    BY <2>1, <2>2, <2>5 DEF difference
<1> HIDE DEF result, code
<1>4. r' \in [Registers -> Word]
  BY <1>1, <1>3, DestinationIsWord DEF Contents
<1>5. ac' \in Word /\ ac' \div 8 = ac \div 8
  BY <1>1, <1>2, SetCode DEF Contents
<1> QED
  BY <1>1, <1>4, <1>5 DEF Contents

LEMMA ControlWords ==
  ASSUME Contents, NEW i \in Instruction, modac(i) \/ modtc(i)
  PROVE  Contents'
<1>1. i.op \in {"modac", "modtc"}
  BY DEF modac, modtc
<1>2. i.src1 \in Registers /\ i.dest \in Operands /\ i.src2 \in Operands
  BY <1>1 DEF Instruction
<1>3. getOperand(i.dest) \in Word /\ Src2(i) \in Word
  BY OperandsAreWords DEF Contents
<1>4. modify(getOperand(i.dest), Src2(i), ac) \in Word /\ modify(getOperand(i.dest), Src2(i), tc) \in Word
  BY <1>3, ModifiedIsWord DEF Contents
<1> QED
  BY <1>2, <1>4 DEF modac, modtc, Contents

\* Whatever is executed leaves words; the controls but for the condition code
\* are left to modac.
LEMMA ExecuteWords ==
  ASSUME Contents, NEW i \in Instruction, Execute(i)
  PROVE  Contents' /\ (i.op # "modac" => ac' \div 8 = ac \div 8)
<1>1. CASE compute(i)
  BY <1>1, ComputeWords DEF compute
<1>2. CASE move(i)
  BY <1>2, MoveWords DEF move
<1>3. CASE emul(i)
  BY <1>3, EmulWords DEF emul
<1>4. CASE ediv(i)
  BY <1>4, EdivWords DEF ediv
<1>5. CASE modi(i)
  BY <1>5, ModiWords DEF modi
<1>6. CASE bswap(i)
  BY <1>6, BswapWords DEF bswap
<1>7. CASE cmpx(i)
  BY <1>7, CompareWords
<1>8. CASE concmpGeneric(i)
  BY <1>8, ConditionalCompareWords
<1>9. CASE chkbit(i)
  BY <1>9, CheckBitWords
<1>10. CASE sxbit(i)
  BY <1>10, ScanBitWords
<1>11. CASE scanbyte(i)
  BY <1>11, ScanByteWords
<1>12. CASE withCarryOperationGeneric(i)
  BY <1>12, CarryWords
<1>13. CASE modac(i)
  BY <1>13, ControlWords DEF modac
<1>14. CASE modtc(i)
  BY <1>14, ControlWords DEF modtc
<1> QED
  BY <1>1, <1>2, <1>3, <1>4, <1>5, <1>6, <1>7, <1>8, <1>9, <1>10, <1>11, <1>12, <1>13, <1>14
     DEF Execute

-------------------------------------------------------------------------------
(* Running a program: what holds whatever the program is.                    *)

Started ==
  /\ program \in Programs
  /\ start.r \in [Registers -> Word] /\ start.ac \in program.acs /\ start.ac \in Word
  /\ pc = 1 => r = start.r /\ ac = start.ac /\ tc = start.ac /\ ~halted

IInv ==
  /\ Contents
  /\ pc \in 1 .. Len(program.code) + 1
  /\ Started
  /\ OtherControlsStay

LEMMA CodeOf ==
  ASSUME NEW p \in Programs
  PROVE  /\ p.code \in Seq(Instruction) /\ Len(p.code) \in Nat /\ DOMAIN p.code = 1 .. Len(p.code)
         /\ p.acs \subseteq Word /\ p.inputs \in 0 .. NumRegisters
BY ProgramAssumption

LEMMA InitInvariant == Init => IInv
<1> SUFFICES ASSUME Init PROVE IInv
  OBVIOUS
<1>1. program \in Programs /\ program.acs \subseteq Word /\ Len(program.code) \in Nat
  BY CodeOf DEF Init
<1>2. PICK inputs \in [0 .. program.inputs - 1 -> Word] :
        r = [n \in Registers |-> IF n \in DOMAIN inputs THEN inputs[n] ELSE 0]
  BY DEF Init
<1>3. 0 \in Word
  BY ByteFacts
<1>4. r \in [Registers -> Word]
  BY <1>2, <1>3
<1>5. ac \in Word /\ tc \in Word /\ halted \in BOOLEAN /\ pc = 1
  BY <1>1 DEF Init
<1>6. start.r = r /\ start.ac = ac /\ tc = ac /\ ac \in program.acs
  BY DEF Init
<1>7. ~halted
  BY DEF Init
<1> QED
  BY <1>1, <1>4, <1>5, <1>6, <1>7 DEF IInv, Contents, Started, OtherControlsStay

\* The instruction that a step executes.
LEMMA StepExecutes ==
  ASSUME IInv, Next
  PROVE  /\ ~halted /\ pc \in 1 .. Len(program.code) /\ pc \in DOMAIN program.code
         /\ program.code[pc] \in Instruction /\ Execute(program.code[pc])
         /\ pc' = pc + 1 /\ pc' \in 2 .. Len(program.code) + 1
         /\ program' = program /\ start' = start
<1>1. program \in Programs /\ pc \in 1 .. Len(program.code) + 1
  BY DEF IInv, Started
<1>2. program.code \in Seq(Instruction) /\ Len(program.code) \in Nat
  BY <1>1, CodeOf
<1>3. pc \in 1 .. Len(program.code)
  BY <1>1, <1>2 DEF Next
<1>4. DOMAIN program.code = 1 .. Len(program.code)
  BY <1>2
<1>5. program.code[pc] \in Instruction
  BY <1>2, <1>3
<1> QED
  BY <1>2, <1>3, <1>4, <1>5 DEF Next

LEMMA NextInvariant == IInv /\ [Next]_vars => IInv'
<1> SUFFICES ASSUME IInv, [Next]_vars PROVE IInv'
  OBVIOUS
<1>1. CASE UNCHANGED vars
  BY <1>1 DEF vars, IInv, Contents, Started, OtherControlsStay
<1>2. CASE Next
  <2> DEFINE i == program.code[pc]
  <2>1. /\ pc \in DOMAIN program.code /\ i \in Instruction /\ Execute(i)
        /\ pc' \in 2 .. Len(program.code) + 1 /\ program' = program /\ start' = start
    BY <1>2, StepExecutes
  <2>2. Contents' /\ (i.op # "modac" => ac' \div 8 = ac \div 8)
    BY <2>1, ExecuteWords DEF IInv
  <2>3. pc' \in 1 .. Len(program'.code) + 1 /\ pc' # 1
    BY <2>1
  <2>4. Started'
    BY <2>1, <2>3 DEF IInv, Started
  <2>5. OtherControlsStay'
    BY <2>1, <2>2 DEF IInv, OtherControlsStay
  <2> QED
    BY <2>2, <2>3, <2>4, <2>5 DEF IInv
<1> QED
  BY <1>1, <1>2 DEF Next

LEMMA Invariant == Spec => []IInv
BY InitInvariant, NextInvariant, PTL DEF Spec

\* The registers and the controls hold words, and the program counter stays in
\* the program, for every program (setDestinationFromSrcDest, Core.cc:44-63).
THEOREM TypeCorrect == Spec => []TypeOK
<1>1. IInv => TypeOK
  BY DEF IInv, Contents, TypeOK
<1> QED
  BY <1>1, Invariant, PTL

\* No handler but modac's changes more of the arithmetic controls than the
\* condition code, in whatever order the others run (setConditionCode,
\* Register.h:367-370).
THEOREM OtherControlsKept == Spec => []OtherControlsStay
<1>1. IInv => OtherControlsStay
  BY DEF IInv
<1> QED
  BY <1>1, Invariant, PTL

-------------------------------------------------------------------------------
(* One instruction of an idiom.                                              *)

LEMMA RegisterWords ==
  ASSUME IInv
  PROVE  /\ r \in [Registers -> Word] /\ start.r \in [Registers -> Word] /\ 0 .. 7 = Registers
         /\ \A n \in 0 .. 7 : r[n] \in Word /\ r[n] \in Int /\ start.r[n] \in Word /\ start.r[n] \in Int
         /\ ac \in Word /\ start.ac \in Word /\ ac \in Int /\ start.ac \in Int
<1>1. \A a \in Word : a \in Int
  BY WordFacts
<1>2. 0 .. 7 = Registers
  BY DEF Registers, NumRegisters
<1>3. r \in [Registers -> Word] /\ start.r \in [Registers -> Word] /\ ac \in Word /\ start.ac \in Word
  BY DEF IInv, Contents, Started
<1> QED
  BY <1>1, <1>2, <1>3

\* What an instruction with one known result does.
LEMMA Computed ==
  ASSUME IInv, NEW i \in Instruction, i.op \in OneResult, Execute(i),
         NEW v \in Word, Results(i) = {v}
  PROVE  /\ r' = [r EXCEPT ![i.dest] = v]
         /\ ac' = ac /\ tc' = tc /\ halted' = halted
<1>1. compute(i)
  BY HandlerOf DEF OneResult, LogicalOps, ArithmeticOps
<1>2. setDestination(i, v)
  BY <1>1 DEF compute
<1> QED
  BY <1>1, <1>2, WrapOfWord DEF setDestination, compute

\* Operands that are registers and literals.
LEMMA OperandValues ==
  /\ \A n \in Registers : getOperand(n) = r[n]
  /\ \A n \in Word : getOperand(Lit(n)) = n
<1>1. \A n \in Word : Lit(n) \notin Registers /\ Lit(n) - NumRegisters = n
  BY WordFacts DEF Lit, Registers, NumRegisters
<1> QED
  BY <1>1 DEF getOperand

\* A program at its end.
LEMMA DoneOne ==
  ASSUME NEW p, Len(p.code) = 2, Done({p})
  PROVE  program = p /\ pc = 3
<1>1. program = p /\ pc = Len(program.code) + 1
  BY DEF Done
<1> QED
  BY <1>1

LEMMA DoneAny ==
  ASSUME NEW programs, \A p \in programs : Len(p.code) = 2, Done(programs)
  PROVE  program \in programs /\ pc = 3
<1>1. program \in programs /\ pc = Len(program.code) + 1
  BY DEF Done
<1>2. Len(program.code) = 2
  BY <1>1, Zenon
<1> QED
  BY <1>1, <1>2

-------------------------------------------------------------------------------
(* Complements.                                                              *)

\* What an operation of a pair computes from registers 1 and 0.
Paired(op, a, b) == IF op = "mov" THEN b ELSE logicalOp(op, a, b)

LEMMA Opposites ==
  ASSUME NEW d \in Duals, NEW a \in Word, NEW b \in Word
  PROVE  /\ Paired(d[1], a, b) \in Word /\ Paired(d[2], a, b) = Complement(Paired(d[1], a, b))
         /\ {d[1], d[2]} \subseteq LogicalOps \union {"mov"}
<1> DEFINE na == Complement(a)
           nb == Complement(b)
<1>1. na \in Word /\ nb \in Word /\ a \in Int /\ b \in Int /\ na \in Int /\ nb \in Int
  BY BitwiseWord, WordFacts
<1>2. BitsOf(na) = Positions \ BitsOf(a) /\ BitsOf(nb) = Positions \ BitsOf(b)
  BY ComplementBits
<1>3. BitsOf(a) \subseteq Positions /\ BitsOf(b) \subseteq Positions
  BY DEF BitsOf
<1> HIDE DEF na, nb
<1>4. And(a, nb) \in Word /\ BitsOf(And(a, nb)) = BitsOf(a) \ BitsOf(b)
  <2>1. And(a, nb) \in Word /\ BitsOf(And(a, nb)) = BitsOf(a) \intersect BitsOf(nb)
    BY <1>1, BitwiseBits
  <2> QED
    BY <1>2, <1>3, <2>1
<1>5. And(na, b) \in Word /\ BitsOf(And(na, b)) = BitsOf(b) \ BitsOf(a)
  <2>1. And(na, b) \in Word /\ BitsOf(And(na, b)) = BitsOf(na) \intersect BitsOf(b)
    BY <1>1, BitwiseBits
  <2> QED
    BY <1>2, <1>3, <2>1
<1>6. Or(na, b) = Complement(And(a, nb))
  <2>1. Or(na, b) \in Word /\ BitsOf(Or(na, b)) = BitsOf(na) \union BitsOf(b)
    BY <1>1, BitwiseBits
  <2>2. Complement(And(a, nb)) \in Word /\ BitsOf(Complement(And(a, nb))) = Positions \ BitsOf(And(a, nb))
    BY <1>4, ComplementBits
  <2>3. BitsOf(Or(na, b)) = BitsOf(Complement(And(a, nb)))
    BY <1>2, <1>3, <1>4, <2>1, <2>2
  <2> QED
    BY <2>1, <2>2, <2>3, EqualBits
<1>7. Or(a, nb) = Complement(And(na, b))
  <2>1. Or(a, nb) \in Word /\ BitsOf(Or(a, nb)) = BitsOf(a) \union BitsOf(nb)
    BY <1>1, BitwiseBits
  <2>2. Complement(And(na, b)) \in Word /\ BitsOf(Complement(And(na, b))) = Positions \ BitsOf(And(na, b))
    BY <1>5, ComplementBits
  <2>3. BitsOf(Or(a, nb)) = BitsOf(Complement(And(na, b)))
    BY <1>2, <1>3, <1>5, <2>1, <2>2
  <2> QED
    BY <2>1, <2>2, <2>3, EqualBits
<1>8. And(a, b) \in Word /\ Or(a, b) \in Word /\ Xor(a, b) \in Word
  BY BitwiseWord
<1> QED
  BY <1>4, <1>5, <1>6, <1>7, <1>8 DEF Duals, Paired, logicalOp, LogicalOps, na, nb

PairState ==
  program \in Complements =>
    LET a  == start.r[1]
        b  == start.r[0]
        op == program.code[1].op
    IN /\ pc = 2 => r = [start.r EXCEPT ![2] = Paired(op, a, b)]
       /\ pc = 3 => r[3] = Complement(r[2]) /\ r[2] \in Word

\* An operation of a pair.
LEMMA PairComputed ==
  ASSUME IInv, NEW op \in LogicalOps \union {"mov"}, NEW dest \in {2, 3},
         I(op, 0, 1, dest) \in Instruction, Execute(I(op, 0, 1, dest)), Paired(op, r[1], r[0]) \in Word
  PROVE  r' = [r EXCEPT ![dest] = Paired(op, r[1], r[0])]
<1> DEFINE i == I(op, 0, 1, dest)
<1>1. i.op = op /\ i.src1 = 0 /\ i.src2 = 1 /\ i.dest = dest
  BY DEF I
<1>2. Src1(i) = r[0] /\ Src2(i) = r[1]
  BY <1>1, OperandValues DEF Src1, Src2, Registers, NumRegisters
<1> HIDE DEF i
<1>3. i.op \in OneResult
  BY <1>1 DEF OneResult
<1>4. Results(i) = {Paired(op, r[1], r[0])}
  <2>1. CASE op = "mov"
    BY <1>1, <1>2, <2>1 DEF Results, Paired, LogicalOps, ArithmeticOps
  <2>2. CASE op \in LogicalOps
    BY <1>1, <1>2, <2>2 DEF Results, Paired, LogicalOps, ArithmeticOps
  <2> QED
    BY <2>1, <2>2
<1> QED
  BY <1>1, <1>3, <1>4, Computed DEF i

LEMMA PairStep ==
  ASSUME IInv, [Next]_vars, PairState
  PROVE  PairState'
<1>1. CASE UNCHANGED vars
  BY <1>1 DEF vars, PairState
<1>2. CASE Next
  <2>1. SUFFICES ASSUME program \in Complements PROVE PairState'
    BY <1>2, StepExecutes DEF PairState
  <2>2. PICK d \in Duals : program = Program(2, {0}, <<I(d[1], 0, 1, 2), I(d[2], 0, 1, 3)>>)
    BY <2>1 DEF Complements
  <2>3. /\ program.code = <<I(d[1], 0, 1, 2), I(d[2], 0, 1, 3)>>
        /\ Len(program.code) = 2
        /\ program.code[1] = I(d[1], 0, 1, 2) /\ program.code[2] = I(d[2], 0, 1, 3)
        /\ program.code[1].op = d[1]
    BY <2>2 DEF Program, I
  <2>4. /\ pc \in 1 .. 2 /\ pc' = pc + 1 /\ program' = program /\ start' = start
        /\ program.code[pc] \in Instruction /\ Execute(program.code[pc])
    BY <1>2, <2>3, StepExecutes
  <2>5. start.r \in [Registers -> Word] /\ 0 \in Registers /\ 1 \in Registers
        /\ 2 \in Registers /\ 3 \in Registers
    BY DEF IInv, Started, Registers, NumRegisters
  <2> DEFINE a == start.r[1]
             b == start.r[0]
  <2>6. a \in Word /\ b \in Word
    BY <2>5
  <2> HIDE DEF a, b
  <2>7. /\ Paired(d[1], a, b) \in Word /\ Paired(d[2], a, b) = Complement(Paired(d[1], a, b))
        /\ {d[1], d[2]} \subseteq LogicalOps \union {"mov"}
    BY <2>6, Opposites
  <2>8. Paired(d[2], a, b) \in Word
    BY <2>7, ComplementIsWord
  <2>9. CASE pc = 1
    <3>1. r = start.r /\ r[1] = a /\ r[0] = b
      BY <2>9 DEF IInv, Started, a, b
    <3>2. r' = [r EXCEPT ![2] = Paired(d[1], a, b)]
      BY <2>3, <2>4, <2>7, <2>9, <3>1, PairComputed
    <3> QED
      BY <2>3, <2>4, <2>9, <3>1, <3>2 DEF PairState, a, b
  <2>10. CASE pc = 2
    <3>1. r = [start.r EXCEPT ![2] = Paired(d[1], a, b)]
      BY <2>1, <2>3, <2>10 DEF PairState, a, b
    <3>2. r[1] = a /\ r[0] = b /\ r[2] = Paired(d[1], a, b)
      BY <2>5, <3>1 DEF a, b
    <3>3. r' = [r EXCEPT ![3] = Paired(d[2], a, b)]
      BY <2>3, <2>4, <2>7, <2>8, <2>10, <3>2, PairComputed
    <3>4. r'[2] = Paired(d[1], a, b) /\ r'[3] = Paired(d[2], a, b)
      BY <2>5, <3>2, <3>3 DEF IInv, Contents
    <3> QED
      BY <2>4, <2>7, <2>10, <3>4 DEF PairState
  <2> QED
    BY <2>4, <2>9, <2>10
<1> QED
  BY <1>1, <1>2

\* And and nand, or and nor, and the other pairs take their operands in the
\* same order and differ in every bit (logicalOpGeneric, Core.h:518-546).
THEOREM PairsCorrect == Spec => []ComplementaryOperations
<1>1. Init => PairState
  BY DEF Init, PairState
<1>2. IInv /\ PairState /\ [Next]_vars => PairState'
  BY PairStep
<1>3. IInv /\ PairState => ComplementaryOperations
  <2> SUFFICES ASSUME IInv, PairState, Done(Complements) PROVE r[2] + r[3] = AllOnes
    BY DEF ComplementaryOperations
  <2>1. PICK d \in Duals : program = Program(2, {0}, <<I(d[1], 0, 1, 2), I(d[2], 0, 1, 3)>>)
    BY DEF Done, Complements
  <2>2. Len(program.code) = 2
    BY <2>1 DEF Program
  <2>3. r[3] = Complement(r[2]) /\ r[2] \in Word
    BY <2>2 DEF PairState, Done
  <2> QED
    BY <2>3, WordFacts DEF Complement, AllOnes
<1> QED
  BY <1>1, <1>2, <1>3, Invariant, PTL DEF Spec

-------------------------------------------------------------------------------
(* Sums that wrap.                                                           *)

LEMMA WrapMultiple ==
  ASSUME NEW x \in Int, NEW k \in Int
  PROVE  Wrap(x + Modulus * k) = Wrap(x)
<1> DEFINE M == Modulus
<1>1. M \in Nat /\ M > 0
  BY ByteFacts
<1> HIDE DEF M
<1> DEFINE q == x \div M
           t == x % M
<1>2. q \in Int /\ t \in 0 .. M - 1 /\ x = M * q + t
  BY <1>1, Divided
<1> HIDE DEF q, t
<1>3. x + M * k = M * (q + k) + t /\ q + k \in Int /\ x + M * k \in Int
  BY <1>1, <1>2
<1>4. (x + M * k) % M = t
  <2> DEFINE y == x + M * k
             p == q + k
  <2>1. y \in Int /\ p \in Int /\ y = M * p + t
    BY <1>3
  <2> HIDE DEF y, p
  <2>2. y % M = t
    BY <1>1, <1>2, <2>1, UniqueQuotient
  <2> QED
    BY <2>2 DEF y
<1> QED
  BY <1>4 DEF Wrap, M, t

LEMMA WrapOffset ==
  ASSUME NEW x \in Int
  PROVE  \E k \in Int : Wrap(x) = x + Modulus * k
<1> DEFINE q == x \div Modulus
<1> DEFINE t == x % Modulus
<1>1. q \in Int /\ t \in Int /\ x = Modulus * q + t /\ Modulus \in Int
  BY ByteFacts, Divided
<1> HIDE DEF q, t
<1>2. -q \in Int /\ t = x + Modulus * (-q)
  BY <1>1
<1> QED
  BY <1>2 DEF Wrap, t

\* Wrapping part of a sum or a product first changes nothing.
LEMMA WrapInside ==
  ASSUME NEW x \in Int, NEW y \in Int
  PROVE  /\ Wrap(Wrap(x) + y) = Wrap(x + y) /\ Wrap(y - Wrap(x)) = Wrap(y - x)
         /\ Wrap(Wrap(x) * y) = Wrap(x * y)
<1>1. PICK k \in Int : Wrap(x) = x + Modulus * k
  BY WrapOffset
<1>2. Modulus \in Int
  BY ByteFacts
<1>3. Wrap(x) + y = (x + y) + Modulus * k /\ x + y \in Int
  BY <1>1, <1>2
<1>4. y - Wrap(x) = (y - x) + Modulus * (-k) /\ y - x \in Int /\ -k \in Int
  BY <1>1, <1>2
<1>5. Wrap(x) * y = x * y + Modulus * (k * y) /\ x * y \in Int /\ k * y \in Int
  BY <1>1, <1>2
<1> QED
  BY <1>3, <1>4, <1>5, WrapMultiple

LEMMA WrapLong ==
  ASSUME NEW x \in Int
  PROVE  Wrap(x % LongWord) = Wrap(x) /\ x % LongWord \in Int
<1> DEFINE L == LongWord
           q == x \div L
<1>1. L \in Nat /\ L > 0 /\ Modulus \in Nat /\ L = Modulus * Modulus
  BY ByteFacts DEF LongWord
<1> HIDE DEF L
<1>2. q \in Int /\ x % L \in Int /\ x = L * q + (x % L)
  BY <1>1, Divided
<1> HIDE DEF q
<1>3. Modulus * q \in Int /\ x = (x % L) + Modulus * (Modulus * q)
  BY <1>1, <1>2
<1>4. Wrap(x) = Wrap(x % L)
  <2> DEFINE t == x % L
             k == Modulus * q
  <2>1. t \in Int /\ k \in Int /\ x = t + Modulus * k
    BY <1>2, <1>3
  <2> HIDE DEF t, k
  <2>2. Wrap(x) = Wrap(t)
    BY <2>1, WrapMultiple
  <2> QED
    BY <2>2 DEF t
<1> QED
  BY <1>2, <1>4 DEF L

\* One more is another word.
LEMMA WrapDiffers ==
  ASSUME NEW x \in Int
  PROVE  Wrap(x) # Wrap(x + 1)
<1>1. PICK k \in Int : Wrap(x) = x + Modulus * k
  BY WrapOffset
<1>2. PICK m \in Int : Wrap(x + 1) = x + 1 + Modulus * m
  <2>1. x + 1 \in Int
    OBVIOUS
  <2> QED
    BY <2>1, WrapOffset
<1>3. Modulus \in Nat /\ Modulus >= 16
  BY ByteFacts
<1>4. SUFFICES ASSUME Modulus * k = 1 + Modulus * m PROVE FALSE
  BY <1>1, <1>2, <1>3
<1>5. CASE k <= m
  <2>1. k < m => Modulus * k + Modulus <= Modulus * m
    BY <1>3, Multiples
  <2> QED
    BY <1>3, <1>4, <1>5, <2>1
<1>6. CASE m < k
  <2>1. Modulus * m + Modulus <= Modulus * k
    BY <1>3, <1>6, Multiples
  <2> QED
    BY <1>3, <1>4, <2>1
<1> QED
  BY <1>5, <1>6

-------------------------------------------------------------------------------
(* Carry and overflow.                                                       *)

Carried(a, b, result) ==
  (IF Negative(a) = Negative(b) /\ Negative(b) # Negative(Wrap(result)) THEN 1 ELSE 0)
  + (IF result >= Modulus THEN 2 ELSE 0)

LEMMA CarryDone ==
  ASSUME IInv, NEW i \in Instruction, i.op \in {"addc", "subc"}, Execute(i)
  PROVE  LET result == IF i.op = "addc"
                       THEN Src2(i) + Src1(i) + ((ac % 8) % 2)
                       ELSE (Src2(i) - (Src1(i) - 1) + ((ac % 8) % 2)) % LongWord
         IN /\ r' = [r EXCEPT ![i.dest] = Wrap(result)]
            /\ ac' % 8 = Carried(Src1(i), Src2(i), result)
<1> DEFINE result == IF i.op = "addc"
                     THEN Src2(i) + Src1(i) + ((ac % 8) % 2)
                     ELSE (Src2(i) - (Src1(i) - 1) + ((ac % 8) % 2)) % LongWord
<1>1. withCarryOperationGeneric(i)
  BY HandlerOf DEF OneResult, LogicalOps, ArithmeticOps
<1>2. setDestination(i, result) /\ setConditionCode(Carried(Src1(i), Src2(i), result))
  BY <1>1 DEF withCarryOperationGeneric, Carried, getConditionCode
<1> HIDE DEF result
<1>3. Carried(Src1(i), Src2(i), result) \in 0 .. 7
  BY DEF Carried
<1>4. ac' % 8 = Carried(Src1(i), Src2(i), result)
  BY <1>2, <1>3, SetCode DEF IInv, Contents
<1> QED
  BY <1>2, <1>4 DEF setDestination, result

Sum02 == start.r[0] + start.r[2]

CarryState ==
  /\ program = AddTwoWords =>
       /\ pc \in {2, 3} => r[4] = Wrap(Sum02)
       /\ pc = 2 => /\ \A n \in 0 .. 3 : r[n] = start.r[n]
                    /\ ac % 8 = Carried(start.r[0], start.r[2], Sum02)
       /\ pc = 3 => r[5] = Wrap(start.r[1] + start.r[3]
                                + (Carried(start.r[0], start.r[2], Sum02) % 2))
  /\ program = SubtractWords =>
       /\ pc \in {2, 3} => r[2] = Wrap(start.r[1] - start.r[0] + 1 + start.ac)
       /\ pc = 2 => \A n \in 0 .. 1 : r[n] = start.r[n]
       /\ pc = 3 => r[3] = Wrap(start.r[1] - start.r[0])

LEMMA AddStep ==
  ASSUME IInv, Next, CarryState, program = AddTwoWords
  PROVE  CarryState'
<1>1. /\ program.code[1] = I("addc", 0, 2, 4) /\ program.code[2] = I("addc", 1, 3, 5)
      /\ Len(program.code) = 2 /\ program.acs = {0} /\ AddTwoWords # SubtractWords
  BY DEF AddTwoWords, SubtractWords, Program, I
<1>2. /\ pc \in 1 .. 2 /\ pc' = pc + 1 /\ program' = program /\ start' = start
      /\ program.code[pc] \in Instruction /\ Execute(program.code[pc])
  BY <1>1, StepExecutes
<1>3. /\ 0 .. 5 \subseteq Registers /\ r \in [Registers -> Word]
      /\ \A n \in 0 .. 3 : start.r[n] \in Int
  BY RegisterWords
<1>4. CASE pc = 1
  <2> DEFINE i == program.code[1]
  <2>1. i.op = "addc" /\ i.src1 = 0 /\ i.src2 = 2 /\ i.dest = 4
    BY <1>1 DEF I
  <2>2. r = start.r /\ ac = 0
    BY <1>1, <1>4 DEF IInv, Started
  <2>3. Src1(i) = start.r[0] /\ Src2(i) = start.r[2]
    BY <1>3, <2>1, <2>2, OperandValues DEF Src1, Src2
  <2>4. i \in Instruction /\ Execute(i)
    BY <1>2, <1>4
  <2> HIDE DEF i
  <2>5. start.r[2] + start.r[0] + ((ac % 8) % 2) = Sum02
    BY <1>3, <2>2 DEF Sum02
  <2>6. r' = [r EXCEPT ![4] = Wrap(Sum02)] /\ ac' % 8 = Carried(start.r[0], start.r[2], Sum02)
    BY <2>1, <2>3, <2>4, <2>5, CarryDone
  <2>7. r'[4] = Wrap(Sum02) /\ \A n \in 0 .. 3 : r'[n] = start.r[n]
    BY <1>3, <2>2, <2>6
  <2> QED
    BY <1>1, <1>2, <1>4, <2>6, <2>7 DEF CarryState, Sum02
<1>5. CASE pc = 2
  <2> DEFINE i == program.code[2]
  <2>1. i.op = "addc" /\ i.src1 = 1 /\ i.src2 = 3 /\ i.dest = 5
    BY <1>1 DEF I
  <2>2. /\ r[4] = Wrap(Sum02) /\ r[1] = start.r[1] /\ r[3] = start.r[3]
        /\ ac % 8 = Carried(start.r[0], start.r[2], Sum02)
    BY <1>5 DEF CarryState
  <2>3. Src1(i) = start.r[1] /\ Src2(i) = start.r[3]
    BY <1>3, <2>1, <2>2, OperandValues DEF Src1, Src2
  <2>4. i \in Instruction /\ Execute(i)
    BY <1>2, <1>5
  <2> HIDE DEF i
  <2> DEFINE result == start.r[3] + start.r[1] + ((ac % 8) % 2)
  <2>5. r' = [r EXCEPT ![5] = Wrap(result)]
    BY <2>1, <2>3, <2>4, CarryDone
  <2>6. result = start.r[1] + start.r[3] + (Carried(start.r[0], start.r[2], Sum02) % 2)
    <3>1. Carried(start.r[0], start.r[2], Sum02) \in 0 .. 3
      BY DEF Carried
    <3> QED
      BY <1>3, <2>2, <3>1
  <2>7. r'[4] = Wrap(Sum02) /\ r'[5] = Wrap(result)
    BY <1>3, <2>2, <2>5
  <2> QED
    BY <1>1, <1>2, <1>5, <2>6, <2>7 DEF CarryState, Sum02
<1> QED
  BY <1>2, <1>4, <1>5

LEMMA SubtractStep ==
  ASSUME IInv, Next, CarryState, program = SubtractWords
  PROVE  CarryState'
<1>1. /\ program.code[1] = I("subc", 0, 1, 2) /\ program.code[2] = I("Subtract", 0, 1, 3)
      /\ Len(program.code) = 2 /\ program.acs = {0, 1} /\ AddTwoWords # SubtractWords
  BY DEF AddTwoWords, SubtractWords, Program, I
<1>2. /\ pc \in 1 .. 2 /\ pc' = pc + 1 /\ program' = program /\ start' = start
      /\ program.code[pc] \in Instruction /\ Execute(program.code[pc])
  BY <1>1, StepExecutes
<1>3. /\ 0 .. 3 \subseteq Registers /\ r \in [Registers -> Word]
      /\ start.r[0] \in Int /\ start.r[1] \in Int
  BY RegisterWords
<1>4. CASE pc = 1
  <2> DEFINE i == program.code[1]
             result == (start.r[1] - (start.r[0] - 1) + ((ac % 8) % 2)) % LongWord
  <2>1. i.op = "subc" /\ i.src1 = 0 /\ i.src2 = 1 /\ i.dest = 2
    BY <1>1 DEF I
  <2>2. r = start.r /\ ac = start.ac /\ start.ac \in {0, 1}
    BY <1>1, <1>4 DEF IInv, Started
  <2>3. Src1(i) = start.r[0] /\ Src2(i) = start.r[1]
    BY <1>3, <2>1, <2>2, OperandValues DEF Src1, Src2
  <2>4. i \in Instruction /\ Execute(i)
    BY <1>2, <1>4
  <2> HIDE DEF i
  <2>5. r' = [r EXCEPT ![2] = Wrap(result)]
    BY <2>1, <2>3, <2>4, CarryDone
  <2>6. /\ start.r[1] - (start.r[0] - 1) + ((ac % 8) % 2) = start.r[1] - start.r[0] + 1 + start.ac
        /\ start.r[1] - start.r[0] + 1 + start.ac \in Int
    BY <1>3, <2>2
  <2>7. Wrap(result) = Wrap(start.r[1] - start.r[0] + 1 + start.ac)
    BY <2>6, WrapLong
  <2> HIDE DEF result
  <2>8. r'[2] = Wrap(result) /\ r'[0] = start.r[0] /\ r'[1] = start.r[1]
    BY <1>3, <2>2, <2>5
  <2> QED
    BY <1>1, <1>2, <1>4, <2>7, <2>8 DEF CarryState
<1>5. CASE pc = 2
  <2> DEFINE i == program.code[2]
             v == Wrap(start.r[1] - start.r[0])
  <2>1. i.op = "Subtract" /\ i.type = "Ordinal" /\ i.src1 = 0 /\ i.src2 = 1 /\ i.dest = 3
    BY <1>1 DEF I
  <2>2. r[0] = start.r[0] /\ r[1] = start.r[1]
        /\ r[2] = Wrap(start.r[1] - start.r[0] + 1 + start.ac)
    BY <1>5 DEF CarryState
  <2>3. Src1(i) = start.r[0] /\ Src2(i) = start.r[1]
    BY <1>3, <2>1, <2>2, OperandValues DEF Src1, Src2
  <2>4. i \in Instruction /\ Execute(i)
    BY <1>2, <1>5
  <2> HIDE DEF i
  <2>5. i.op \in OneResult
    BY <2>1 DEF OneResult, ArithmeticOps
  <2>6. Results(i) = {v}
    BY <2>1, <2>3 DEF Results, arithmeticOp, ArithmeticOps, LogicalOps, As
  <2>7. v \in Word
    BY <1>3, WrapIsWord
  <2> HIDE DEF v
  <2>8. r' = [r EXCEPT ![3] = v]
    BY <2>1, <2>4, <2>5, <2>6, <2>7, Computed
  <2>9. r'[3] = v /\ r'[2] = r[2]
    BY <1>3, <2>8
  <2> QED
    BY <1>1, <1>2, <1>5, <2>2, <2>9 DEF CarryState, v
<1> QED
  BY <1>2, <1>4, <1>5

LEMMA CarryStep == IInv /\ CarryState /\ [Next]_vars => CarryState'
<1>1. ASSUME IInv, CarryState, UNCHANGED vars PROVE CarryState'
  BY <1>1 DEF vars, CarryState, Sum02
<1>2. ASSUME IInv, CarryState, Next, program \notin {AddTwoWords, SubtractWords} PROVE CarryState'
  BY <1>2, StepExecutes DEF CarryState
<1> QED
  BY <1>1, <1>2, AddStep, SubtractStep

\* addc carries its overflow into the next word and so is right about a sum of
\* two words exactly when overflow and carry agree; subc borrows one too few
\* (withCarryOperationGeneric, Core.cc:649-683).
THEOREM CarryCorrect == Spec => []CarryIsOverflow
<1>1. Init => CarryState
  BY DEF Init, CarryState
<1>2. IInv /\ CarryState => CarryIsOverflow
  <2> SUFFICES ASSUME IInv, CarryState PROVE CarryIsOverflow
    OBVIOUS
  <2>1. start.r \in [Registers -> Word] /\ 0 .. 3 \subseteq Registers
    BY DEF IInv, Started, Registers, NumRegisters
  <2>2. /\ \A n \in 0 .. 3 : start.r[n] \in Int /\ start.r[n] >= 0 /\ start.r[n] < Modulus
        /\ Modulus \in Int /\ Modulus > 0
    BY <2>1, ByteFacts
  <2>3. ASSUME Done({AddTwoWords})
        PROVE  LET Sum  == was(0) + was(2)
                   over == /\ Negative(was(0)) = Negative(was(2))
                           /\ Negative(was(0)) # Negative(Wrap(Sum))
                   top  == Wrap(was(1) + was(3) + Sum \div Modulus)
               IN r[4] = Wrap(Sum) /\ (r[5] = top <=> (over <=> Sum >= Modulus))
    <3> DEFINE over == /\ Negative(start.r[0]) = Negative(start.r[2])
                       /\ Negative(start.r[0]) # Negative(Wrap(Sum02))
               x == start.r[1] + start.r[3]
    <3>1. program = AddTwoWords /\ pc = 3
      <4>1. program = AddTwoWords /\ pc = Len(program.code) + 1
        BY <2>3 DEF Done
      <4>2. Len(AddTwoWords.code) = 2
        BY DEF AddTwoWords, Program
      <4> QED
        BY <4>1, <4>2
    <3>2. r[4] = Wrap(Sum02) /\ r[5] = Wrap(x + (Carried(start.r[0], start.r[2], Sum02) % 2))
      BY <3>1 DEF CarryState
    <3>3. Carried(start.r[0], start.r[2], Sum02) % 2 = IF over THEN 1 ELSE 0
      BY DEF Carried
    <3>4. Sum02 \div Modulus = IF Sum02 >= Modulus THEN 1 ELSE 0
      <4>1. Sum02 \in Int /\ Sum02 >= 0 /\ Sum02 < Modulus + Modulus
        BY <2>2 DEF Sum02
      <4>2. CASE Sum02 >= Modulus
        <5>1. Sum02 = Modulus * 1 + (Sum02 - Modulus) /\ Sum02 - Modulus \in 0 .. Modulus - 1
          BY <2>2, <4>1, <4>2
        <5> QED
          BY <2>2, <4>1, <4>2, <5>1, UniqueQuotient
      <4>3. CASE ~(Sum02 >= Modulus)
        <5>1. Sum02 = Modulus * 0 + Sum02 /\ Sum02 \in 0 .. Modulus - 1
          BY <2>2, <4>1, <4>3
        <5> QED
          BY <2>2, <4>1, <4>3, <5>1, UniqueQuotient
      <4> QED
        BY <4>2, <4>3
    <3>5. x \in Int
      BY <2>2
    <3> HIDE DEF over, x
    <3>6. Wrap(x + 0) # Wrap(x + 1)
      <4>1. x + 0 = x
        BY <3>5
      <4> QED
        BY <3>5, <4>1, WrapDiffers
    <3>8. x + 0 \in Int /\ x + 1 \in Int
      BY <3>5
    <3>7. r[5] = Wrap(x + Sum02 \div Modulus) <=> (over <=> Sum02 >= Modulus)
      BY <3>2, <3>3, <3>4, <3>6
    <3> QED
      BY <3>2, <3>7 DEF over, x, was, Sum02
  <2>4. ASSUME Done({SubtractWords}) PROVE r[2] = Wrap(r[3] + 1 + start.ac)
    <3>1. program = SubtractWords /\ pc = 3 /\ program.acs = {0, 1}
      <4>1. program = SubtractWords /\ pc = Len(program.code) + 1
        BY <2>4 DEF Done
      <4>2. Len(SubtractWords.code) = 2 /\ SubtractWords.acs = {0, 1}
        BY DEF SubtractWords, Program
      <4> QED
        BY <4>1, <4>2
    <3> DEFINE x == start.r[1] - start.r[0]
               y == 1 + start.ac
    <3>2. x \in Int /\ y \in Int
      BY <2>2, <3>1 DEF IInv, Started
    <3>3. r[2] = Wrap(x + 1 + start.ac) /\ r[3] = Wrap(x)
      BY <3>1 DEF CarryState
    <3>4. x + 1 + start.ac = x + y /\ r[3] + 1 + start.ac = r[3] + y
      <4>1. start.ac \in Int /\ r[3] \in Int /\ start.r[0] \in Int /\ start.r[1] \in Int
        BY RegisterWords
      <4> QED
        BY <3>2, <4>1
    <3> HIDE DEF x, y
    <3> QED
      BY <3>2, <3>3, <3>4, WrapInside
  <2> QED
    BY <2>3, <2>4 DEF CarryIsOverflow
<1> QED
  BY <1>1, <1>2, CarryStep, Invariant, PTL DEF Spec

-------------------------------------------------------------------------------
(* Blocks.                                                                   *)

\* What the registers hold when a block has moved.
BlockMoved ==
  LET i    == program.code[2]
      n    == CASE i.op = "movl" -> 2 [] i.op = "movt" -> 3 [] i.op = "movq" -> 4
      to   == IF n = 2 THEN 6 ELSE 4
      from == IF n = 2 /\ i.src1 = 3 THEN 2 ELSE 0
  IN \A j \in Registers :
       r[j] = IF j \notin to .. to + n - 1
              THEN was(IF j = 7 THEN 0 ELSE j)
              ELSE IF i.src1 \in Registers
                   THEN was(from + j - to)
                   ELSE IF j = to THEN 5 ELSE 0

BlockState ==
  program \in Blocks =>
    /\ pc = 2 => r = [start.r EXCEPT ![7] = start.r[0]]
    /\ pc = 3 => BlockMoved

LEMMA BlockStep ==
  ASSUME IInv, [Next]_vars, BlockState
  PROVE  BlockState'
<1>1. CASE UNCHANGED vars
  BY <1>1 DEF vars, BlockState, BlockMoved, was
<1>2. CASE Next
  <2>1. SUFFICES ASSUME program \in Blocks PROVE BlockState'
    BY <1>2, StepExecutes DEF BlockState
  <2>2. PICK op \in {"movl", "movt", "movq"}, src \in {0, 3, Lit(5)} :
          program = Program(3, {0}, <<I("mov", 0, 0, 7), I(op, src, 0, 6)>>)
    BY <2>1 DEF Blocks
  <2>3. /\ Len(program.code) = 2
        /\ program.code[1] = I("mov", 0, 0, 7) /\ program.code[2] = I(op, src, 0, 6)
    BY <2>2 DEF Program
  <2>4. /\ pc \in 1 .. 2 /\ pc' = pc + 1 /\ program' = program /\ start' = start
        /\ program.code[pc] \in Instruction /\ Execute(program.code[pc])
    BY <1>2, <2>3, StepExecutes
  <2>5. CASE pc = 1
    <3> DEFINE i == program.code[1]
    <3>1. i.op = "mov" /\ i.src1 = 0 /\ i.dest = 7 /\ i \in Instruction /\ Execute(i)
      BY <2>3, <2>4, <2>5 DEF I
    <3>2. r = start.r
      BY <2>5 DEF IInv, Started
    <3> HIDE DEF i
    <3>3. Src1(i) = start.r[0] /\ start.r[0] \in Word
      BY <3>1, <3>2, OperandValues, RegisterWords DEF Src1
    <3>4. i.op \in OneResult /\ Results(i) = {start.r[0]}
      BY <3>1, <3>3 DEF Results, OneResult, LogicalOps, ArithmeticOps
    <3>5. r' = [start.r EXCEPT ![7] = start.r[0]]
      BY <3>1, <3>2, <3>3, <3>4, Computed
    <3> QED
      BY <2>4, <2>5, <3>5 DEF BlockState
  <2>6. CASE pc = 2
    <3> DEFINE i == program.code[2]
    <3>1. i.op = op /\ i.src1 = src /\ i.dest = 6 /\ i \in Instruction /\ Execute(i)
      BY <2>3, <2>4, <2>6 DEF I
    <3> HIDE DEF i
    <3>2. r = [start.r EXCEPT ![7] = start.r[0]]
      BY <2>1, <2>6 DEF BlockState
    <3>3. /\ start.r \in [Registers -> Word] /\ Registers = 0 .. 7
          /\ Lit(5) = 13 /\ NumRegisters = 8 /\ start.r[0] \in Word
      BY RegisterWords DEF Lit, NumRegisters
    <3>4. move(i)
      BY <3>1, HandlerOf DEF OneResult, LogicalOps, ArithmeticOps
    <3>5. /\ First(6, 2) = 6 /\ First(6, 4) = 4 /\ First(0, 2) = 0 /\ First(0, 4) = 0
          /\ First(3, 2) = 2 /\ First(3, 4) = 0
      BY DEF First
    <3> DEFINE size == CASE op = "movl" -> 2 [] op = "movt" -> 3 [] op = "movq" -> 4
               to == IF op = "movl" THEN 6 ELSE 4
               from == IF op = "movl" /\ src = 3 THEN 2 ELSE 0
               Part(k) == IF src \in Registers
                          THEN r[from + k]
                          ELSE IF k = 0 THEN 5 ELSE 0
    <3>6. r' = [j \in Registers |-> IF j \in to .. to + size - 1 THEN Part(j - to) ELSE r[j]]
      <4>1. CASE op = "movl"
        BY <3>1, <3>3, <3>4, <3>5, <4>1 DEF move
      <4>2. CASE op = "movt"
        BY <3>1, <3>3, <3>4, <3>5, <4>2 DEF move
      <4>3. CASE op = "movq"
        BY <3>1, <3>3, <3>4, <3>5, <4>3 DEF move
      <4> QED
        BY <4>1, <4>2, <4>3
    <3>7. /\ size \in 2 .. 4 /\ (size = 2 <=> op = "movl") /\ to + size - 1 <= 7
          /\ \A k \in 0 .. size - 1 : from + k \in 0 .. 3
          /\ to \in {4, 6} /\ from \in {0, 2}
      OBVIOUS
    <3>8. ASSUME NEW j \in Registers
          PROVE  r'[j] = IF j \notin to .. to + size - 1
                         THEN start.r[IF j = 7 THEN 0 ELSE j]
                         ELSE IF src \in Registers
                              THEN start.r[from + j - to]
                              ELSE IF j = to THEN 5 ELSE 0
      <4> HIDE DEF size, to, from
      <4>1. CASE j \notin to .. to + size - 1
        BY <3>2, <3>3, <3>6, <4>1
      <4>2. CASE j \in to .. to + size - 1
        <5>1. r'[j] = Part(j - to)
          BY <3>6, <4>2
        <5>2. j - to \in 0 .. size - 1 /\ from + (j - to) \in 0 .. 3 /\ from + (j - to) = from + j - to
          BY <3>3, <3>7, <4>2
        <5>3. src \in Registers => Part(j - to) = start.r[from + j - to]
          BY <3>2, <3>3, <5>2
        <5>4. src \notin Registers => Part(j - to) = IF j = to THEN 5 ELSE 0
          BY <3>3, <3>7
        <5> QED
          BY <4>2, <5>1, <5>3, <5>4
      <4> QED
        BY <4>1, <4>2
    <3>9. BlockMoved'
      <4>1. (program.code[2])' = i /\ start' = start
        BY <2>4 DEF i
      <4>2. size = CASE i.op = "movl" -> 2 [] i.op = "movt" -> 3 [] i.op = "movq" -> 4
        BY <3>1
      <4> HIDE DEF size
      <4> QED
        BY <3>1, <3>7, <3>8, <4>1, <4>2 DEF BlockMoved, was
    <3> QED
      BY <2>4, <2>6, <3>9 DEF BlockState
  <2> QED
    BY <2>4, <2>5, <2>6
<1> QED
  BY <1>1, <1>2

\* movl, movt and movq move whole aligned groups, and a literal with zeros
\* above it, whatever the last index bits (Core.cc:813-830).
THEOREM BlocksCorrect == Spec => []BlocksMoveWhole
<1>1. Init => BlockState
  BY DEF Init, BlockState
<1>2. IInv /\ BlockState /\ [Next]_vars => BlockState'
  BY BlockStep
<1>3. IInv /\ BlockState => BlocksMoveWhole
  <2> SUFFICES ASSUME BlockState, Done(Blocks) PROVE BlockMoved
    BY DEF BlocksMoveWhole, BlockMoved
  <2>1. Len(program.code) = 2
    BY DEF Done, Blocks, Program
  <2> QED
    BY <2>1 DEF BlockState, Done
<1> QED
  BY <1>1, <1>2, <1>3, Invariant, PTL DEF Spec

-------------------------------------------------------------------------------
(* Controls.                                                                 *)

LEMMA ModifiedBits ==
  ASSUME NEW mask \in Word, NEW a \in Word, NEW b \in Word
  PROVE  /\ modify(mask, a, b) \in Word
         /\ BitsOf(modify(mask, a, b)) =
              (BitsOf(a) \intersect BitsOf(mask)) \union (BitsOf(b) \ BitsOf(mask))
<1>1. And(a, mask) \in Word /\ BitsOf(And(a, mask)) = BitsOf(a) \intersect BitsOf(mask)
  <2>1. a \in Int /\ mask \in Int
    BY WordFacts
  <2> QED
    BY <2>1, BitwiseBits
<1>2. Complement(mask) \in Word /\ BitsOf(Complement(mask)) = Positions \ BitsOf(mask)
  BY ComplementBits
<1>3. /\ And(b, Complement(mask)) \in Word
      /\ BitsOf(And(b, Complement(mask))) = BitsOf(b) \intersect BitsOf(Complement(mask))
  <2>1. b \in Int /\ Complement(mask) \in Int
    BY <1>2, WordFacts
  <2> QED
    BY <2>1, BitwiseBits
<1>4. BitsOf(b) \subseteq Positions
  BY DEF BitsOf
<1> DEFINE x == And(a, mask)
           y == And(b, Complement(mask))
<1>5. x \in Int /\ y \in Int
  BY <1>1, <1>3, WordFacts
<1> HIDE DEF x, y
<1>6. Or(x, y) \in Word /\ BitsOf(Or(x, y)) = BitsOf(x) \union BitsOf(y)
  BY <1>5, BitwiseBits
<1>7. modify(mask, a, b) = Or(x, y)
  BY DEF modify, x, y
<1> QED
  BY <1>1, <1>2, <1>3, <1>4, <1>6, <1>7 DEF x, y

LEMMA ModifiedBack ==
  ASSUME NEW mask \in Word, NEW a \in Word, NEW b \in Word
  PROVE  modify(mask, b, modify(mask, a, b)) = b
<1> DEFINE x == modify(mask, a, b)
           y == modify(mask, b, x)
<1>1. x \in Word /\ BitsOf(x) = (BitsOf(a) \intersect BitsOf(mask)) \union (BitsOf(b) \ BitsOf(mask))
  BY ModifiedBits
<1> HIDE DEF x
<1>2. y \in Word /\ BitsOf(y) = (BitsOf(b) \intersect BitsOf(mask)) \union (BitsOf(x) \ BitsOf(mask))
  BY <1>1, ModifiedBits
<1>3. BitsOf(y) = BitsOf(b)
  BY <1>1, <1>2
<1> HIDE DEF y
<1>4. y = b
  BY <1>2, <1>3, EqualBits
<1> QED
  BY <1>4 DEF x, y

LEMMA ControlsDone ==
  ASSUME IInv, NEW i \in Instruction, Execute(i)
  PROVE  /\ i.op = "modac" => /\ ac' = modify(getOperand(i.dest), Src2(i), ac)
                              /\ r' = [r EXCEPT ![i.src1] = ac]
         /\ i.op = "modtc" => /\ tc' = modify(getOperand(i.dest), Src2(i), tc)
                              /\ r' = [r EXCEPT ![i.src1] = tc]
<1>1. i.op = "modac" => modac(i)
  BY HandlerOf DEF OneResult, LogicalOps, ArithmeticOps
<1>2. i.op = "modtc" => modtc(i)
  BY HandlerOf DEF OneResult, LogicalOps, ArithmeticOps
<1> QED
  BY <1>1, <1>2 DEF modac, modtc

ControlsState ==
  /\ program = ChangeControls =>
       LET changed == modify(start.r[2], start.r[1], start.ac)
       IN /\ pc = 2 => r = [start.r EXCEPT ![3] = start.ac] /\ ac = changed
          /\ pc = 3 => ac = start.ac /\ r[4] = changed /\ r[3] = start.ac
  /\ program = ChangeTrace =>
       LET changed == modify(start.r[0], start.r[1], start.ac)
       IN /\ pc = 2 => r = [start.r EXCEPT ![3] = start.ac] /\ tc = changed
          /\ pc = 3 => tc = start.ac /\ r[4] = changed /\ r[3] = start.ac

LEMMA ChangeControlsStep ==
  ASSUME IInv, Next, ControlsState, program = ChangeControls
  PROVE  ControlsState'
<1>1. /\ program.code[1] = I("modac", 3, 1, 2) /\ program.code[2] = I("modac", 4, 3, 2)
      /\ Len(program.code) = 2 /\ ChangeControls # ChangeTrace
  BY DEF ChangeControls, ChangeTrace, Program, I
<1>2. /\ pc \in 1 .. 2 /\ pc' = pc + 1 /\ program' = program /\ start' = start
      /\ program.code[pc] \in Instruction /\ Execute(program.code[pc])
  BY <1>1, StepExecutes
<1>3. /\ Registers = 0 .. 7 /\ start.r \in [Registers -> Word] /\ start.ac \in Word
  BY RegisterWords
<1>4. CASE pc = 1
  <2> DEFINE i == program.code[1]
  <2>1. i.op = "modac" /\ i.src1 = 3 /\ i.src2 = 1 /\ i.dest = 2 /\ i \in Instruction /\ Execute(i)
    BY <1>1, <1>2, <1>4 DEF I
  <2> HIDE DEF i
  <2>2. r = start.r /\ ac = start.ac
    BY <1>4 DEF IInv, Started
  <2>3. Src2(i) = start.r[1] /\ getOperand(i.dest) = start.r[2]
    BY <1>3, <2>1, <2>2, OperandValues DEF Src2
  <2>4. ac' = modify(start.r[2], start.r[1], start.ac) /\ r' = [start.r EXCEPT ![3] = start.ac]
    BY <2>1, <2>2, <2>3, ControlsDone
  <2> QED
    BY <1>1, <1>2, <1>4, <2>4 DEF ControlsState
<1>5. CASE pc = 2
  <2> DEFINE i == program.code[2]
             changed == modify(start.r[2], start.r[1], start.ac)
  <2>1. i.op = "modac" /\ i.src1 = 4 /\ i.src2 = 3 /\ i.dest = 2 /\ i \in Instruction /\ Execute(i)
    BY <1>1, <1>2, <1>5 DEF I
  <2> HIDE DEF i
  <2>2. r = [start.r EXCEPT ![3] = start.ac] /\ ac = changed
    BY <1>5 DEF ControlsState
  <2>3. Src2(i) = start.ac /\ getOperand(i.dest) = start.r[2]
    BY <1>3, <2>1, <2>2, OperandValues DEF Src2
  <2>4. ac' = modify(start.r[2], start.ac, changed) /\ r' = [r EXCEPT ![4] = changed]
    BY <2>1, <2>2, <2>3, ControlsDone
  <2>5. ac' = start.ac
    BY <1>3, <2>4, ModifiedBack
  <2>6. r'[4] = changed /\ r'[3] = start.ac
    BY <1>3, <2>2, <2>4
  <2> QED
    BY <1>1, <1>2, <1>5, <2>5, <2>6 DEF ControlsState
<1> QED
  BY <1>2, <1>4, <1>5

LEMMA ChangeTraceStep ==
  ASSUME IInv, Next, ControlsState, program = ChangeTrace
  PROVE  ControlsState'
<1>1. /\ program.code[1] = I("modtc", 3, 1, 0) /\ program.code[2] = I("modtc", 4, 3, 0)
      /\ Len(program.code) = 2 /\ ChangeControls # ChangeTrace
  BY DEF ChangeControls, ChangeTrace, Program, I
<1>2. /\ pc \in 1 .. 2 /\ pc' = pc + 1 /\ program' = program /\ start' = start
      /\ program.code[pc] \in Instruction /\ Execute(program.code[pc])
  BY <1>1, StepExecutes
<1>3. /\ Registers = 0 .. 7 /\ start.r \in [Registers -> Word] /\ start.ac \in Word
  BY RegisterWords
<1>4. CASE pc = 1
  <2> DEFINE i == program.code[1]
  <2>1. i.op = "modtc" /\ i.src1 = 3 /\ i.src2 = 1 /\ i.dest = 0 /\ i \in Instruction /\ Execute(i)
    BY <1>1, <1>2, <1>4 DEF I
  <2> HIDE DEF i
  <2>2. r = start.r /\ tc = start.ac
    BY <1>4 DEF IInv, Started
  <2>3. Src2(i) = start.r[1] /\ getOperand(i.dest) = start.r[0]
    BY <1>3, <2>1, <2>2, OperandValues DEF Src2
  <2>4. tc' = modify(start.r[0], start.r[1], start.ac) /\ r' = [start.r EXCEPT ![3] = start.ac]
    BY <2>1, <2>2, <2>3, ControlsDone
  <2> QED
    BY <1>1, <1>2, <1>4, <2>4 DEF ControlsState
<1>5. CASE pc = 2
  <2> DEFINE i == program.code[2]
             changed == modify(start.r[0], start.r[1], start.ac)
  <2>1. i.op = "modtc" /\ i.src1 = 4 /\ i.src2 = 3 /\ i.dest = 0 /\ i \in Instruction /\ Execute(i)
    BY <1>1, <1>2, <1>5 DEF I
  <2> HIDE DEF i
  <2>2. r = [start.r EXCEPT ![3] = start.ac] /\ tc = changed
    BY <1>5 DEF ControlsState
  <2>3. Src2(i) = start.ac /\ getOperand(i.dest) = start.r[0]
    BY <1>3, <2>1, <2>2, OperandValues DEF Src2
  <2>4. tc' = modify(start.r[0], start.ac, changed) /\ r' = [r EXCEPT ![4] = changed]
    BY <2>1, <2>2, <2>3, ControlsDone
  <2>5. tc' = start.ac
    BY <1>3, <2>4, ModifiedBack
  <2>6. r'[4] = changed /\ r'[3] = start.ac
    BY <1>3, <2>2, <2>4
  <2> QED
    BY <1>1, <1>2, <1>5, <2>5, <2>6 DEF ControlsState
<1> QED
  BY <1>2, <1>4, <1>5

LEMMA ControlsStep == IInv /\ ControlsState /\ [Next]_vars => ControlsState'
<1>1. ASSUME IInv, ControlsState, UNCHANGED vars PROVE ControlsState'
  BY <1>1 DEF vars, ControlsState
<1>2. ASSUME IInv, ControlsState, Next, program \notin {ChangeControls, ChangeTrace}
      PROVE ControlsState'
  BY <1>2, StepExecutes DEF ControlsState
<1> QED
  BY <1>1, <1>2, ChangeControlsStep, ChangeTraceStep

\* modac and modtc change the bits under their mask and return the controls as
\* they were: given that back under the same mask, they restore them
\* (Core.cc:1059-1075).
THEOREM ControlsCorrect == Spec => []ControlsRestored
<1>1. Init => ControlsState
  BY DEF Init, ControlsState
<1>2. IInv /\ ControlsState => ControlsRestored
  <2> SUFFICES ASSUME IInv, ControlsState PROVE ControlsRestored
    OBVIOUS
  <2>1. Len(ChangeControls.code) = 2 /\ Len(ChangeTrace.code) = 2
    BY DEF ChangeControls, ChangeTrace, Program
  <2>2. Done({ChangeControls}) => program = ChangeControls /\ pc = 3
    BY <2>1, DoneOne, Zenon
  <2>3. Done({ChangeTrace}) => program = ChangeTrace /\ pc = 3
    BY <2>1, DoneOne, Zenon
  <2> QED
    BY <2>2, <2>3 DEF ControlsState, ControlsRestored, was
<1> QED
  BY <1>1, <1>2, ControlsStep, Invariant, PTL DEF Spec

-------------------------------------------------------------------------------
(* Compares.                                                                 *)

LEMMA SmallPowers == bitPositions[0] = 1 /\ bitPositions[1] = 2 /\ bitPositions[2] = 4
<1>1. 0 \in Nat /\ 1 \in Nat /\ 0 + 1 = 1 /\ 1 + 1 = 2
  OBVIOUS
<1> QED
  BY <1>1, Powers, PowerNext

LEMMA Compared == ASSUME NEW a, NEW b PROVE compareGeneric(a, b) \in {1, 2, 4}
BY DEF compareGeneric

LEMMA CompareDone ==
  ASSUME IInv, NEW i \in Instruction, i.op \in {"cmp", "cmpinc", "cmpdec"}, Execute(i)
  PROVE  /\ ac' % 8 = compareGeneric(As(i.type, Src1(i)), As(i.type, Src2(i)))
         /\ i.op = "cmp" => r' = r
         /\ i.op = "cmpinc" => r' = [r EXCEPT ![i.dest] = Wrap(Src2(i) + 1)]
         /\ i.op = "cmpdec" => r' = [r EXCEPT ![i.dest] = Wrap(Src2(i) - 1)]
<1>1. cmpx(i)
  BY HandlerOf DEF OneResult, LogicalOps, ArithmeticOps
<1> DEFINE code == compareGeneric(As(i.type, Src1(i)), As(i.type, Src2(i)))
<1>2. setConditionCode(code)
  BY <1>1 DEF cmpx
<1>3. code \in 0 .. 7
  BY Compared
<1> HIDE DEF code
<1>4. ac' % 8 = code
  BY <1>2, <1>3, SetCode, RegisterWords
<1> QED
  BY <1>1, <1>4 DEF cmpx, setDestination, code

LEMMA ConditionalDone ==
  ASSUME IInv, NEW i \in Instruction, i.op = "concmp", Execute(i), ac % 8 \in {1, 2, 4}
  PROVE  ac' % 8 = IF ac % 8 = 4 THEN 4
                   ELSE IF As(i.type, Src1(i)) <= As(i.type, Src2(i)) THEN 2 ELSE 1
<1>1. concmpGeneric(i)
  BY HandlerOf DEF OneResult, LogicalOps, ArithmeticOps
<1>2. Bit(getConditionCode, 2) = IF ac % 8 = 4 THEN 1 ELSE 0
  BY SmallPowers DEF Bit, getConditionCode
<1>3. CASE ac % 8 = 4
  BY <1>1, <1>2, <1>3 DEF concmpGeneric
<1>4. CASE ac % 8 # 4
  <2> DEFINE code == IF As(i.type, Src1(i)) <= As(i.type, Src2(i)) THEN 2 ELSE 1
  <2>1. setConditionCode(code)
    BY <1>1, <1>2, <1>4 DEF concmpGeneric
  <2>2. code \in 0 .. 7
    OBVIOUS
  <2> HIDE DEF code
  <2>3. ac' % 8 = code
    BY <2>1, <2>2, SetCode, RegisterWords
  <2> QED
    BY <1>4, <2>3 DEF code
<1> QED
  BY <1>3, <1>4

RangeCode(type) ==
  IF As(type, start.r[0]) < As(type, start.r[1]) THEN 4
  ELSE IF As(type, start.r[2]) <= As(type, start.r[1]) THEN 2 ELSE 1

CountCode(type, step) ==
  compareGeneric(As(type, start.r[0]), As(type, Wrap(start.r[1] + step)))

CompareState ==
  /\ program \in Ranges =>
       LET type == program.code[1].type
       IN /\ pc = 2 => r = start.r /\ ac % 8 = compareGeneric(As(type, start.r[0]), As(type, start.r[1]))
          /\ pc = 3 => ac % 8 = RangeCode(type)
  /\ program \in Counts =>
       LET i    == program.code[1]
           step == IF i.op = "cmpinc" THEN 1 ELSE -1
       IN /\ pc = 2 => r = [start.r EXCEPT ![i.dest] = Wrap(start.r[1] + step)]
          /\ pc = 3 => r[3] = start.r[1] /\ ac % 8 = CountCode(i.type, step)

LEMMA RangeStep ==
  ASSUME IInv, Next, CompareState, program \in Ranges
  PROVE  CompareState'
<1>1. PICK type \in Types :
        program = Program(3, {0, 7, 8}, <<T(type, "cmp", 0, 1, 7), T(type, "concmp", 2, 1, 7)>>)
  BY DEF Ranges
<1>2. /\ program.code[1] = T(type, "cmp", 0, 1, 7) /\ program.code[2] = T(type, "concmp", 2, 1, 7)
      /\ Len(program.code) = 2
  BY <1>1 DEF Program
<1>3. program.code[1].op = "cmp" /\ program.code[1].type = type
  BY <1>2 DEF T
<1>4. program \notin Counts
  BY <1>3 DEF Counts, Program, T
<1>5. /\ pc \in 1 .. 2 /\ pc' = pc + 1 /\ program' = program /\ start' = start
      /\ program.code[pc] \in Instruction /\ Execute(program.code[pc])
  BY <1>2, StepExecutes
<1>6. Registers = 0 .. 7
  BY RegisterWords
<1>7. CASE pc = 1
  <2> DEFINE i == program.code[1]
  <2>1. i.op = "cmp" /\ i.type = type /\ i.src1 = 0 /\ i.src2 = 1 /\ i \in Instruction /\ Execute(i)
    BY <1>2, <1>5, <1>7 DEF T
  <2> HIDE DEF i
  <2>2. r = start.r
    BY <1>7 DEF IInv, Started
  <2>3. Src1(i) = start.r[0] /\ Src2(i) = start.r[1]
    BY <1>6, <2>1, <2>2, OperandValues DEF Src1, Src2
  <2>4. r' = start.r /\ ac' % 8 = compareGeneric(As(type, start.r[0]), As(type, start.r[1]))
    BY <2>1, <2>2, <2>3, CompareDone
  <2> QED
    BY <1>3, <1>4, <1>5, <1>7, <2>4 DEF CompareState
<1>8. CASE pc = 2
  <2> DEFINE i == program.code[2]
  <2>1. i.op = "concmp" /\ i.type = type /\ i.src1 = 2 /\ i.src2 = 1 /\ i \in Instruction /\ Execute(i)
    BY <1>2, <1>5, <1>8 DEF T
  <2> HIDE DEF i
  <2>2. r = start.r /\ ac % 8 = compareGeneric(As(type, start.r[0]), As(type, start.r[1]))
    BY <1>3, <1>8 DEF CompareState
  <2>3. Src1(i) = start.r[2] /\ Src2(i) = start.r[1]
    BY <1>6, <2>1, <2>2, OperandValues DEF Src1, Src2
  <2>4. ac % 8 \in {1, 2, 4} /\ (ac % 8 = 4 <=> As(type, start.r[0]) < As(type, start.r[1]))
    BY <2>2 DEF compareGeneric
  <2>5. ac' % 8 = RangeCode(type)
    BY <2>1, <2>3, <2>4, ConditionalDone DEF RangeCode
  <2> QED
    BY <1>3, <1>4, <1>5, <1>8, <2>5 DEF CompareState, RangeCode
<1> QED
  BY <1>5, <1>7, <1>8

LEMMA CountStep ==
  ASSUME IInv, Next, CompareState, program \in Counts
  PROVE  CompareState'
<1>1. PICK type \in Types, ops \in {<<"cmpinc", "cmpdec">>, <<"cmpdec", "cmpinc">>}, dest \in {1, 2} :
        program = Program(2, {0, 15}, <<T(type, ops[1], 0, 1, dest), T(type, ops[2], 0, dest, 3)>>)
  BY DEF Counts
<1>2. /\ program.code[1] = T(type, ops[1], 0, 1, dest) /\ program.code[2] = T(type, ops[2], 0, dest, 3)
      /\ Len(program.code) = 2
  BY <1>1 DEF Program
<1> DEFINE step == IF ops[1] = "cmpinc" THEN 1 ELSE -1
<1>3. /\ program.code[1].op = ops[1] /\ program.code[1].type = type /\ program.code[1].dest = dest
      /\ step \in {1, -1} /\ ops[1] \in {"cmpinc", "cmpdec"}
      /\ ops[2] = IF step = 1 THEN "cmpdec" ELSE "cmpinc"
      /\ ops[1] = IF step = 1 THEN "cmpinc" ELSE "cmpdec"
  BY <1>2 DEF T
<1>4. program \notin Ranges
  BY <1>3 DEF Ranges, Program, T
<1>5. /\ pc \in 1 .. 2 /\ pc' = pc + 1 /\ program' = program /\ start' = start
      /\ program.code[pc] \in Instruction /\ Execute(program.code[pc])
  BY <1>2, StepExecutes
<1>6. Registers = 0 .. 7 /\ start.r \in [Registers -> Word] /\ start.r[1] \in Word /\ start.r[1] \in Int
  BY RegisterWords
<1>7. CASE pc = 1
  <2> DEFINE i == program.code[1]
  <2>1. i.op = ops[1] /\ i.type = type /\ i.src1 = 0 /\ i.src2 = 1 /\ i.dest = dest
        /\ i \in Instruction /\ Execute(i)
    BY <1>2, <1>5, <1>7 DEF T
  <2> HIDE DEF i
  <2>2. r = start.r
    BY <1>7 DEF IInv, Started
  <2>3. Src2(i) = start.r[1]
    BY <1>6, <2>1, <2>2, OperandValues DEF Src2
  <2>4. start.r[1] - 1 = start.r[1] + (-1)
    BY <1>6
  <2>5. r' = [start.r EXCEPT ![dest] = Wrap(start.r[1] + step)]
    BY <1>3, <2>1, <2>2, <2>3, <2>4, CompareDone
  <2> QED
    BY <1>3, <1>4, <1>5, <1>7, <2>5 DEF CompareState
<1>8. CASE pc = 2
  <2> DEFINE i == program.code[2]
             w == Wrap(start.r[1] + step)
  <2>1. i.op = ops[2] /\ i.type = type /\ i.src1 = 0 /\ i.src2 = dest /\ i.dest = 3
        /\ i \in Instruction /\ Execute(i)
    BY <1>2, <1>5, <1>8 DEF T
  <2> HIDE DEF i
  <2>2. r = [start.r EXCEPT ![dest] = w]
    BY <1>3, <1>8 DEF CompareState
  <2>3. w \in Word /\ w \in Int
    <3>1. start.r[1] + step \in Int
      BY <1>3, <1>6
    <3>2. w \in Word
      BY <3>1, WrapIsWord
    <3> QED
      BY <3>2, WordFacts
  <2>4. Src1(i) = start.r[0] /\ Src2(i) = w
    BY <1>6, <2>1, <2>2, OperandValues DEF Src1, Src2
  <2>5. Wrap(w + (-step)) = start.r[1]
    <3>1. Wrap(w + (-step)) = Wrap((start.r[1] + step) + (-step))
      <4>1. start.r[1] + step \in Int /\ -step \in Int
        BY <1>3, <1>6
      <4> HIDE DEF step
      <4> QED
        BY <4>1, WrapInside
    <3>2. (start.r[1] + step) + (-step) = start.r[1]
      BY <1>3, <1>6
    <3> QED
      BY <1>6, <3>1, <3>2, WrapOfWord
  <2>6. w - 1 = w + (-1) /\ w + 1 = w + (- (-1)) /\ step \in {1, -1}
    BY <1>3, <2>3
  <2> HIDE DEF w
  <2>7. r' = [r EXCEPT ![3] = start.r[1]]
    <3>1. CASE step = 1
      <4>1. r' = [r EXCEPT ![3] = Wrap(w - 1)]
        BY <1>3, <2>1, <2>4, <3>1, CompareDone
      <4> QED
        BY <2>5, <2>6, <3>1, <4>1
    <3>2. CASE step = -1
      <4>1. r' = [r EXCEPT ![3] = Wrap(w + 1)]
        BY <1>3, <2>1, <2>4, <3>2, CompareDone
      <4> QED
        BY <2>5, <2>6, <3>2, <4>1
    <3> QED
      BY <2>6, <3>1, <3>2
  <2>8. ac' % 8 = compareGeneric(As(type, start.r[0]), As(type, w))
    BY <1>3, <2>1, <2>4, CompareDone
  <2>9. r'[3] = start.r[1]
    BY <1>6, <2>2, <2>7, RegisterWords
  <2> QED
    BY <1>3, <1>4, <1>5, <1>8, <2>8, <2>9 DEF CompareState, CountCode, w
<1> QED
  BY <1>5, <1>7, <1>8

LEMMA CompareStep == IInv /\ CompareState /\ [Next]_vars => CompareState'
<1>1. ASSUME IInv, CompareState, UNCHANGED vars PROVE CompareState'
  BY <1>1 DEF vars, CompareState, RangeCode, CountCode
<1>2. ASSUME IInv, CompareState, Next, program \notin Ranges, program \notin Counts PROVE CompareState'
  BY <1>2, StepExecutes DEF CompareState
<1> QED
  BY <1>1, <1>2, RangeStep, CountStep

\* A compare and a conditional compare tell on which side of a range a value
\* is, and compares that count judge the values before the step, also when
\* they overwrite one (cmpx, Core.h:351-372; concmpGeneric, Core.h:579-586).
THEOREM ComparesCorrect == Spec => []ComparesCombine
<1>1. Init => CompareState
  BY DEF Init, CompareState
<1>2. IInv /\ CompareState => ComparesCombine
  <2> SUFFICES ASSUME IInv, CompareState PROVE ComparesCombine
    OBVIOUS
  <2>1. /\ \A p \in Ranges : Len(p.code) = 2
        /\ \A p \in Counts : Len(p.code) = 2
    BY DEF Ranges, Counts, Program
  <2>2. /\ Done(Ranges) => program \in Ranges /\ pc = 3
        /\ Done(Counts) => program \in Counts /\ pc = 3
    BY <2>1, DoneAny, Zenon
  <2> QED
    BY <2>2 DEF CompareState, ComparesCombine, RangeCode, CountCode, was, getConditionCode
<1> QED
  BY <1>1, <1>2, CompareStep, Invariant, PTL DEF Spec

-------------------------------------------------------------------------------
(* Quotients and remainders.                                                 *)

LEMMA RestFacts ==
  ASSUME NEW n \in Int, NEW d \in Int, d # 0
  PROVE  /\ Quotient(n, d) \in Int /\ Rest(n, d) \in Int
         /\ n = Quotient(n, d) * d + Rest(n, d)
         /\ Magnitude(Rest(n, d)) < Magnitude(d)
         /\ n >= 0 => Rest(n, d) >= 0
         /\ n <= 0 => Rest(n, d) <= 0
<1> DEFINE a == Magnitude(n)
           b == Magnitude(d)
           q == a \div b
           t == a % b
<1>1. a \in Nat /\ b \in Nat /\ b > 0 /\ a \in Int
  BY DEF Magnitude
<1>2. q \in Int /\ t \in 0 .. b - 1 /\ a = b * q + t
  BY <1>1, Divided
<1>3. Quotient(n, d) = IF (n < 0) = (d < 0) THEN q ELSE -q
  BY DEF Quotient
<1>4. a = (IF n < 0 THEN -n ELSE n) /\ b = (IF d < 0 THEN -d ELSE d)
  BY DEF Magnitude
<1> HIDE DEF a, b, q, t
<1>5. Rest(n, d) = IF n < 0 THEN -t ELSE t
  <2>1. Rest(n, d) = n - Quotient(n, d) * d
    BY DEF Rest
  <2>2. CASE n < 0 /\ d < 0
    <3>1. n - q * d = -t
      BY <1>1, <1>2, <1>4, <2>2
    <3> QED
      BY <1>3, <2>1, <2>2, <3>1
  <2>3. CASE n < 0 /\ ~(d < 0)
    <3>1. n - (-q) * d = -t
      BY <1>1, <1>2, <1>4, <2>3
    <3> QED
      BY <1>3, <2>1, <2>3, <3>1
  <2>4. CASE ~(n < 0) /\ d < 0
    <3>1. n - (-q) * d = t
      BY <1>1, <1>2, <1>4, <2>4
    <3> QED
      BY <1>3, <2>1, <2>4, <3>1
  <2>5. CASE ~(n < 0) /\ ~(d < 0)
    <3>1. n - q * d = t
      BY <1>1, <1>2, <1>4, <2>5
    <3> QED
      BY <1>3, <2>1, <2>5, <3>1
  <2> QED
    BY <2>2, <2>3, <2>4, <2>5
<1>6. Quotient(n, d) \in Int /\ Rest(n, d) \in Int
  BY <1>1, <1>2, <1>3, <1>5
<1>7. n = Quotient(n, d) * d + Rest(n, d)
  BY <1>6 DEF Rest
<1>8. Magnitude(Rest(n, d)) = t
  BY <1>1, <1>2, <1>5 DEF Magnitude
<1>9. n = 0 => t = 0
  <2> SUFFICES ASSUME n = 0 PROVE t = 0
    OBVIOUS
  <2>1. a = 0
    BY <1>4
  <2>2. 0 = b * 0 + 0 /\ 0 \in 0 .. b - 1
    BY <1>1
  <2>3. a % b = 0
    BY <1>1, <2>1, <2>2, UniqueQuotient
  <2> QED
    BY <2>3 DEF t
<1> QED
  BY <1>1, <1>2, <1>5, <1>6, <1>7, <1>8, <1>9 DEF b

LEMMA HalfModulus ==
  /\ Modulus \div 2 \in Nat /\ Modulus = 2 * (Modulus \div 2) /\ Modulus \div 2 > 0
BY ByteFacts

\* An operand of either type is its word up to the modulus.
LEMMA AsOffset ==
  ASSUME NEW type, NEW a \in Word
  PROVE  \E k \in Int : As(type, a) = a + Modulus * k
<1>1. a \in Int /\ Modulus \in Int
  BY WordFacts
<1>2. As(type, a) = a + Modulus * 0 \/ As(type, a) = a + Modulus * (-1)
  BY <1>1 DEF As, Integer
<1> QED
  BY <1>2

LEMMA WrapAs ==
  ASSUME NEW type, NEW x \in Int, NEW y \in Int
  PROVE  /\ Wrap(y + As(type, Wrap(x))) = Wrap(y + x)
         /\ Wrap(y * As(type, Wrap(x))) = Wrap(y * x)
<1>1. Wrap(x) \in Word
  BY WrapIsWord
<1>2. PICK k \in Int : As(type, Wrap(x)) = Wrap(x) + Modulus * k
  BY <1>1, AsOffset
<1>3. PICK m \in Int : Wrap(x) = x + Modulus * m
  BY WrapOffset
<1>4. Modulus \in Int
  BY WordFacts
<1>5. As(type, Wrap(x)) = x + Modulus * (m + k) /\ m + k \in Int
  BY <1>2, <1>3, <1>4
<1>6. y + As(type, Wrap(x)) = (y + x) + Modulus * (m + k) /\ y + x \in Int
  BY <1>4, <1>5
<1>7. y * As(type, Wrap(x)) = y * x + Modulus * (y * (m + k)) /\ y * x \in Int /\ y * (m + k) \in Int
  BY <1>4, <1>5
<1> QED
  BY <1>5, <1>6, <1>7, WrapMultiple

LEMMA WrapOfAs ==
  ASSUME NEW type, NEW a \in Word
  PROVE  Wrap(As(type, a)) = a
<1>1. a \in Int /\ Wrap(a) = a
  BY WordFacts, WrapOfWord
<1>2. PICK k \in Int : As(type, a) = a + Modulus * k
  BY AsOffset
<1> QED
  BY <1>1, <1>2, WrapMultiple

\* A number that fits a signed word is what its word stands for.
LEMMA IntegerOfWrap ==
  ASSUME NEW x \in Int, -(Modulus \div 2) <= x, x < Modulus \div 2
  PROVE  Integer(Wrap(x)) = x /\ (Negative(Wrap(x)) <=> x < 0)
<1> DEFINE h == Modulus \div 2
<1>1. h \in Nat /\ h > 0 /\ Modulus = 2 * h /\ Modulus \in Nat
  BY HalfModulus
<1>2. -h <= x /\ x < h
  OBVIOUS
<1> HIDE DEF h
<1>3. CASE x >= 0
  <2>1. x = Modulus * 0 + x /\ x \in 0 .. Modulus - 1 /\ Modulus > 0
    BY <1>1, <1>2, <1>3
  <2>2. Wrap(x) = x
    BY <1>1, <2>1, UniqueQuotient DEF Wrap
  <2> QED
    BY <1>1, <1>2, <1>3, <2>2 DEF Integer, Negative, h
<1>4. CASE x < 0
  <2>1. x = Modulus * (-1) + (x + Modulus) /\ x + Modulus \in 0 .. Modulus - 1 /\ Modulus > 0
        /\ -1 \in Int
    BY <1>1, <1>2, <1>4
  <2>2. Wrap(x) = x + Modulus
    BY <1>1, <2>1, UniqueQuotient DEF Wrap
  <2>3. x + Modulus >= h
    BY <1>1, <1>2
  <2>4. Negative(Wrap(x))
    BY <2>2, <2>3 DEF Negative, h
  <2> QED
    BY <1>1, <1>4, <2>2, <2>4 DEF Integer
<1> QED
  BY <1>3, <1>4

LEMMA IntegerRange ==
  ASSUME NEW a \in Word
  PROVE  /\ Integer(a) \in Int /\ -(Modulus \div 2) <= Integer(a) /\ Integer(a) < Modulus \div 2
         /\ Wrap(Integer(a)) = a
<1> DEFINE h == Modulus \div 2
<1>1. h \in Nat /\ h > 0 /\ Modulus = 2 * h
  BY HalfModulus
<1>2. a \in 0 .. Modulus - 1
  BY ByteFacts
<1>3. Integer(a) = IF a >= h THEN a - Modulus ELSE a
  BY DEF Integer, Negative
<1>4. Wrap(Integer(a)) = a
  BY WrapOfAs DEF As
<1> HIDE DEF h
<1>5. Integer(a) \in Int /\ -h <= Integer(a) /\ Integer(a) < h
  BY <1>1, <1>2, <1>3
<1> QED
  BY <1>4, <1>5 DEF h

\* The value that modi leaves when the sign of the product is known.
LEMMA ModuloValue ==
  ASSUME NEW a \in Word, NEW b \in Word, Integer(a) # 0, NEW value,
         LET d == Integer(a)
             n == Integer(b)
         IN value = IF n * d < 0 /\ Rest(n, d) # 0 THEN Rest(n, d) + d ELSE Rest(n, d)
  PROVE  /\ value \in Int /\ Integer(Wrap(value)) = value
         /\ value = 0 \/ ((value < 0) = (Integer(a) < 0) /\ Magnitude(value) < Magnitude(Integer(a)))
<1> DEFINE d == Integer(a)
           n == Integer(b)
           t == Rest(n, d)
           h == Modulus \div 2
<1>1. /\ d \in Int /\ -h <= d /\ d < h /\ n \in Int
      /\ h \in Nat
  BY IntegerRange, HalfModulus
<1>2. d # 0 /\ value = IF n * d < 0 /\ t # 0 THEN t + d ELSE t
  OBVIOUS
<1> HIDE DEF d, n
<1>3. t \in Int /\ Magnitude(t) < Magnitude(d) /\ (n >= 0 => t >= 0) /\ (n <= 0 => t <= 0)
  BY <1>1, <1>2, RestFacts
<1> HIDE DEF t, h
<1>4. n * d < 0 <=> ((n < 0 /\ d > 0) \/ (n > 0 /\ d < 0))
  BY <1>1, <1>2
<1>5. value \in Int
  BY <1>1, <1>2, <1>3
<1>6. value = 0 \/ ((value < 0) = (d < 0) /\ Magnitude(value) < Magnitude(d))
  BY <1>1, <1>2, <1>3, <1>4 DEF Magnitude
<1>7. -h <= value /\ value < h
  BY <1>1, <1>2, <1>5, <1>6 DEF Magnitude
<1>8. Integer(Wrap(value)) = value
  BY <1>5, <1>7, IntegerOfWrap DEF h
<1> QED
  BY <1>5, <1>6, <1>8 DEF d

LEMMA ArithmeticDone ==
  ASSUME IInv, NEW i \in Instruction, i.op \in ArithmeticOps, Execute(i), NEW v \in Word,
         arithmeticOp(i.op, i.type, Src2(i), Src1(i)) = {v}
  PROVE  r' = [r EXCEPT ![i.dest] = v] /\ halted' = halted
<1>1. i.op \in OneResult
  BY DEF OneResult
<1>2. Results(i) = {v}
  BY DEF Results, ArithmeticOps, LogicalOps
<1> QED
  BY <1>1, <1>2, Computed

\* Only the destination changes, whatever the result.
LEMMA OnlyDestination ==
  ASSUME IInv, NEW i \in Instruction, i.op \in OneResult, Execute(i)
  PROVE  /\ \A n \in Registers : n # i.dest => r'[n] = r[n]
         /\ halted' = halted
<1>1. compute(i)
  BY HandlerOf DEF OneResult, LogicalOps, ArithmeticOps
<1>2. PICK value : setDestination(i, value)
  BY <1>1 DEF compute
<1>3. r' = [r EXCEPT ![i.dest] = Wrap(value)] /\ r \in [Registers -> Word]
  BY <1>2, RegisterWords DEF setDestination
<1> QED
  BY <1>1, <1>3 DEF compute

\* The quotient and the remainder of a division that does not fault.
LEMMA DivisionDone ==
  ASSUME IInv, NEW i \in Instruction, Execute(i), i.op \in {"Divide", "Remainder"}, Src1(i) # 0
  PROVE  LET n == As(i.type, Src2(i))
             d == As(i.type, Src1(i))
             v == IF i.op = "Divide" THEN Quotient(n, d) ELSE Rest(n, d)
         IN r' = [r EXCEPT ![i.dest] = Wrap(v)] /\ halted' = halted
<1> DEFINE n == As(i.type, Src2(i))
           d == As(i.type, Src1(i))
           v == IF i.op = "Divide" THEN Quotient(n, d) ELSE Rest(n, d)
<1>1. Src1(i) \in Word /\ Src2(i) \in Word
  BY OperandsAreWords, RegisterWords
<1>2. d # 0 /\ d \in Int /\ n \in Int
  BY <1>1, IntegerZero, AsIsNumber DEF As
<1>3. arithmeticOp(i.op, i.type, Src2(i), Src1(i)) = {Wrap(v)}
  BY <1>2 DEF arithmeticOp
<1> HIDE DEF n, d
<1>4. v \in Int
  BY <1>2, RestFacts
<1> HIDE DEF v
<1>5. Wrap(v) \in Word
  BY <1>4, WrapIsWord
<1>6. i.op \in ArithmeticOps
  BY DEF ArithmeticOps
<1>7. r' = [r EXCEPT ![i.dest] = Wrap(v)] /\ halted' = halted
  BY <1>3, <1>5, <1>6, ArithmeticDone
<1> QED
  BY <1>7 DEF n, d, v

Dividend(type) == As(type, start.r[1])
Divisor(type) == As(type, start.r[0])
QuotientWord(type) == Wrap(Quotient(Dividend(type), Divisor(type)))
RestWord(type) == Wrap(Rest(Dividend(type), Divisor(type)))

QuotientsState ==
  program \in Quotients /\ start.r[0] # 0 =>
    LET type == program.code[1].type
    IN /\ pc = 2 => r = [start.r EXCEPT ![2] = QuotientWord(type)]
       /\ pc = 3 => r = [start.r EXCEPT ![2] = QuotientWord(type), ![3] = RestWord(type)]
       /\ pc = 4 => /\ r[2] = Wrap(Divisor(type) * As(type, QuotientWord(type)))
                    /\ r[3] = RestWord(type)
       /\ pc = 5 => r[2] = start.r[1]

LEMMA DivisionUndone ==
  ASSUME IInv, NEW type, start.r[0] # 0
  PROVE  /\ QuotientWord(type) \in Word /\ RestWord(type) \in Word
         /\ Divisor(type) \in Int /\ Divisor(type) # 0 /\ Dividend(type) \in Int
         /\ Wrap(As(type, RestWord(type))
                 + As(type, Wrap(Divisor(type) * As(type, QuotientWord(type))))) = start.r[1]
<1> DEFINE d == Divisor(type)
           n == Dividend(type)
           q == Quotient(n, d)
           t == Rest(n, d)
<1>1. start.r[0] \in Word /\ start.r[1] \in Word
  BY RegisterWords
<1>2. d \in Int /\ n \in Int /\ d # 0
  BY <1>1, IntegerZero, AsIsNumber DEF As, Divisor, Dividend
<1>3. Wrap(n) = start.r[1]
  BY <1>1, WrapOfAs DEF Dividend
<1> HIDE DEF d, n
<1>4. q \in Int /\ t \in Int /\ n = q * d + t
  BY <1>2, RestFacts
<1>5. QuotientWord(type) = Wrap(q) /\ RestWord(type) = Wrap(t)
  BY DEF QuotientWord, RestWord, d, n
<1> HIDE DEF q, t
<1> DEFINE aq == As(type, Wrap(q))
           at == As(type, Wrap(t))
           p == d * aq
<1>6. Wrap(q) \in Word /\ Wrap(t) \in Word
  BY <1>4, WrapIsWord
<1>7. aq \in Int /\ at \in Int /\ p \in Int
  BY <1>2, <1>6, AsIsNumber
<1>8. Wrap(p) = Wrap(d * q)
  BY <1>2, <1>4, WrapAs
<1>9. Wrap(p + at) = Wrap(p + t)
  <2> HIDE DEF p
  <2> QED
    BY <1>4, <1>7, WrapAs
<1> HIDE DEF p, at
<1>10. Wrap(at + As(type, Wrap(p))) = Wrap(at + p)
  BY <1>7, WrapAs
<1>11. Wrap(p + t) = Wrap(d * q + t)
  <2>1. Wrap(Wrap(p) + t) = Wrap(p + t)
    BY <1>4, <1>7, WrapInside
  <2>2. d * q \in Int
    BY <1>2, <1>4
  <2>3. Wrap(Wrap(d * q) + t) = Wrap(d * q + t)
    BY <1>4, <2>2, WrapInside
  <2> QED
    BY <1>8, <2>1, <2>3
<1>12. d * q + t = n /\ at + p = p + at
  BY <1>2, <1>4, <1>7
<1>13. Wrap(at + As(type, Wrap(p))) = start.r[1]
  BY <1>3, <1>9, <1>10, <1>11, <1>12
<1> QED
  BY <1>2, <1>5, <1>6, <1>13 DEF p, at, d, n

LEMMA QuotientsStep ==
  ASSUME IInv, Next, QuotientsState
  PROVE  QuotientsState'
<1>1. SUFFICES ASSUME program \in Quotients, start.r[0] # 0 PROVE QuotientsState'
  BY StepExecutes DEF QuotientsState
<1>2. PICK type \in Types :
        program = Program(2, {0}, <<T(type, "Divide", 0, 1, 2), T(type, "Remainder", 0, 1, 3),
                                    T(type, "Multiply", 2, 0, 2), T(type, "Add", 2, 3, 2)>>)
  BY <1>1 DEF Quotients
<1>3. /\ Len(program.code) = 4
      /\ program.code[1] = T(type, "Divide", 0, 1, 2)
      /\ program.code[2] = T(type, "Remainder", 0, 1, 3)
      /\ program.code[3] = T(type, "Multiply", 2, 0, 2)
      /\ program.code[4] = T(type, "Add", 2, 3, 2)
      /\ program.code[1].type = type
  BY <1>2 DEF Program, T
<1>4. /\ pc \in 1 .. 4 /\ pc' = pc + 1 /\ program' = program /\ start' = start
      /\ program.code[pc] \in Instruction /\ Execute(program.code[pc])
  BY <1>3, StepExecutes
<1>5. Registers = 0 .. 7 /\ start.r \in [Registers -> Word] /\ r \in [Registers -> Word]
  BY RegisterWords
<1>6. /\ QuotientWord(type) \in Word /\ RestWord(type) \in Word
      /\ Divisor(type) \in Int /\ Divisor(type) # 0 /\ Dividend(type) \in Int
      /\ Wrap(As(type, RestWord(type))
              + As(type, Wrap(Divisor(type) * As(type, QuotientWord(type))))) = start.r[1]
  BY <1>1, DivisionUndone
<1>7. /\ QuotientWord(type)' = QuotientWord(type) /\ RestWord(type)' = RestWord(type)
      /\ Divisor(type)' = Divisor(type)
  BY <1>4 DEF QuotientWord, RestWord, Divisor, Dividend
<1>8. CASE pc = 1
  <2> DEFINE i == program.code[1]
  <2>1. i.op = "Divide" /\ i.type = type /\ i.src1 = 0 /\ i.src2 = 1 /\ i.dest = 2
        /\ i \in Instruction /\ Execute(i)
    BY <1>3, <1>4, <1>8 DEF T
  <2> HIDE DEF i
  <2>2. r = start.r
    BY <1>8 DEF IInv, Started
  <2>3. Src1(i) = start.r[0] /\ Src2(i) = start.r[1]
    BY <1>5, <2>1, <2>2, OperandValues DEF Src1, Src2
  <2>4. r' = [start.r EXCEPT ![2] = QuotientWord(type)]
    BY <1>1, <2>1, <2>2, <2>3, DivisionDone DEF QuotientWord, Dividend, Divisor
  <2> QED
    BY <1>3, <1>4, <1>7, <1>8, <2>4 DEF QuotientsState
<1>9. CASE pc = 2
  <2> DEFINE i == program.code[2]
  <2>1. i.op = "Remainder" /\ i.type = type /\ i.src1 = 0 /\ i.src2 = 1 /\ i.dest = 3
        /\ i \in Instruction /\ Execute(i)
    BY <1>3, <1>4, <1>9 DEF T
  <2> HIDE DEF i
  <2>2. r = [start.r EXCEPT ![2] = QuotientWord(type)]
    BY <1>1, <1>3, <1>9 DEF QuotientsState
  <2>3. Src1(i) = start.r[0] /\ Src2(i) = start.r[1]
    BY <1>5, <2>1, <2>2, OperandValues DEF Src1, Src2
  <2>4. r' = [r EXCEPT ![3] = RestWord(type)]
    BY <1>1, <2>1, <2>3, DivisionDone DEF RestWord, Dividend, Divisor
  <2>5. r' = [start.r EXCEPT ![2] = QuotientWord(type), ![3] = RestWord(type)]
    BY <2>2, <2>4
  <2> QED
    BY <1>3, <1>4, <1>7, <1>9, <2>5 DEF QuotientsState
<1>10. CASE pc = 3
  <2> DEFINE i == program.code[3]
             v == Wrap(Divisor(type) * As(type, QuotientWord(type)))
  <2>1. i.op = "Multiply" /\ i.type = type /\ i.src1 = 2 /\ i.src2 = 0 /\ i.dest = 2
        /\ i \in Instruction /\ Execute(i)
    BY <1>3, <1>4, <1>10 DEF T
  <2> HIDE DEF i
  <2>2. r = [start.r EXCEPT ![2] = QuotientWord(type), ![3] = RestWord(type)]
    BY <1>1, <1>3, <1>10 DEF QuotientsState
  <2>3. r[0] = start.r[0] /\ r[2] = QuotientWord(type) /\ r[3] = RestWord(type)
    BY <1>5, <2>2
  <2>4. Src1(i) = QuotientWord(type) /\ Src2(i) = start.r[0]
    BY <1>5, <2>1, <2>3, OperandValues DEF Src1, Src2
  <2>5. arithmeticOp(i.op, i.type, Src2(i), Src1(i)) = {v}
    BY <2>1, <2>4 DEF arithmeticOp, Divisor
  <2>6. v \in Word
    <3>1. As(type, QuotientWord(type)) \in Int
      BY <1>6, AsIsNumber
    <3>2. Divisor(type) * As(type, QuotientWord(type)) \in Int
      BY <1>6, <3>1
    <3> QED
      BY <3>2, WrapIsWord
  <2> HIDE DEF v
  <2>7. r' = [r EXCEPT ![2] = v]
    BY <2>1, <2>5, <2>6, ArithmeticDone DEF ArithmeticOps
  <2>8. r'[2] = v /\ r'[3] = RestWord(type)
    BY <1>5, <2>3, <2>7
  <2> QED
    BY <1>3, <1>4, <1>7, <1>10, <2>8 DEF QuotientsState, v
<1>11. CASE pc = 4
  <2> DEFINE i == program.code[4]
  <2>1. i.op = "Add" /\ i.type = type /\ i.src1 = 2 /\ i.src2 = 3 /\ i.dest = 2
        /\ i \in Instruction /\ Execute(i)
    BY <1>3, <1>4, <1>11 DEF T
  <2> HIDE DEF i
  <2>2. /\ r[2] = Wrap(Divisor(type) * As(type, QuotientWord(type)))
        /\ r[3] = RestWord(type)
    BY <1>1, <1>3, <1>11 DEF QuotientsState
  <2>3. Src1(i) = r[2] /\ Src2(i) = r[3]
    BY <1>5, <2>1, OperandValues DEF Src1, Src2
  <2>4. arithmeticOp(i.op, i.type, Src2(i), Src1(i)) = {start.r[1]}
    BY <1>6, <2>1, <2>2, <2>3 DEF arithmeticOp
  <2>5. start.r[1] \in Word
    BY <1>5
  <2>6. r' = [r EXCEPT ![2] = start.r[1]]
    BY <2>1, <2>4, <2>5, ArithmeticDone DEF ArithmeticOps
  <2>7. r'[2] = start.r[1]
    BY <1>5, <2>6
  <2> QED
    BY <1>3, <1>4, <1>11, <2>7 DEF QuotientsState
<1> QED
  BY <1>4, <1>8, <1>9, <1>10, <1>11

\* What modi may leave for each sign it may see.
ModuloWord(negative) ==
  LET d == Divisor("Integer")
      n == Dividend("Integer")
  IN Wrap(IF negative /\ Rest(n, d) # 0 THEN Rest(n, d) + d ELSE Rest(n, d))

ModuloState ==
  program = Modulo =>
    LET d == Divisor("Integer")
        n == Dividend("Integer")
    IN /\ pc = 2 => /\ r[0] = start.r[0] /\ r[1] = start.r[1] /\ ~halted
                    /\ start.r[0] # 0 => r[2] = RestWord("Integer")
       /\ pc = 3 /\ halted => start.r[0] = 0
       /\ pc = 3 /\ ~halted =>
            /\ start.r[0] # 0 /\ r[2] = RestWord("Integer")
            /\ \E negative \in {n * d < 0, Negative(Wrap(n * d))} : r[3] = ModuloWord(negative)

LEMMA ModuloStep ==
  ASSUME IInv, Next, ModuloState
  PROVE  ModuloState'
<1>1. SUFFICES ASSUME program = Modulo PROVE ModuloState'
  BY StepExecutes DEF ModuloState
<1>2. /\ Len(program.code) = 2
      /\ program.code[1] = T("Integer", "Remainder", 0, 1, 2)
      /\ program.code[2] = I("modi", 0, 1, 3)
  BY <1>1 DEF Modulo, Program
<1>3. /\ pc \in 1 .. 2 /\ pc' = pc + 1 /\ program' = program /\ start' = start
      /\ program.code[pc] \in Instruction /\ Execute(program.code[pc])
  BY <1>2, StepExecutes
<1>4. Registers = 0 .. 7 /\ start.r \in [Registers -> Word] /\ r \in [Registers -> Word]
  BY RegisterWords
<1>5. /\ RestWord("Integer")' = RestWord("Integer")
      /\ Divisor("Integer")' = Divisor("Integer") /\ Dividend("Integer")' = Dividend("Integer")
  BY <1>3 DEF RestWord, Divisor, Dividend
<1>6. CASE pc = 1
  <2> DEFINE i == program.code[1]
  <2>1. i.op = "Remainder" /\ i.type = "Integer" /\ i.src1 = 0 /\ i.src2 = 1 /\ i.dest = 2
        /\ i \in Instruction /\ Execute(i)
    BY <1>2, <1>3, <1>6 DEF T
  <2> HIDE DEF i
  <2>2. r = start.r
    BY <1>6 DEF IInv, Started
  <2>3. Src1(i) = start.r[0] /\ Src2(i) = start.r[1]
    BY <1>4, <2>1, <2>2, OperandValues DEF Src1, Src2
  <2>4. i.op \in OneResult
    BY <2>1 DEF OneResult, ArithmeticOps
  <2>5. r'[0] = start.r[0] /\ r'[1] = start.r[1] /\ ~halted'
    BY <1>4, <1>6, <2>1, <2>2, <2>4, OnlyDestination DEF IInv, Started
  <2>6. start.r[0] # 0 => r'[2] = RestWord("Integer")
    <3> SUFFICES ASSUME start.r[0] # 0 PROVE r'[2] = RestWord("Integer")
      OBVIOUS
    <3>1. r' = [r EXCEPT ![2] = RestWord("Integer")]
      BY <2>1, <2>3, DivisionDone DEF RestWord, Dividend, Divisor
    <3> QED
      BY <1>4, <3>1
  <2> QED
    BY <1>3, <1>5, <1>6, <2>5, <2>6 DEF ModuloState
<1>7. CASE pc = 2
  <2> DEFINE i == program.code[2]
             d == Divisor("Integer")
             n == Dividend("Integer")
  <2>1. i.op = "modi" /\ i.src1 = 0 /\ i.src2 = 1 /\ i.dest = 3 /\ i \in Instruction /\ Execute(i)
    BY <1>2, <1>3, <1>7 DEF I
  <2> HIDE DEF i
  <2>2. r[0] = start.r[0] /\ r[1] = start.r[1]
        /\ (start.r[0] # 0 => r[2] = RestWord("Integer"))
    BY <1>1, <1>7 DEF ModuloState
  <2>3. Src1(i) = start.r[0] /\ Src2(i) = start.r[1]
    BY <1>4, <2>1, <2>2, OperandValues DEF Src1, Src2
  <2>4. modi(i)
    BY <2>1, HandlerOf DEF OneResult, LogicalOps, ArithmeticOps
  <2>5. Integer(Src1(i)) = d /\ Integer(Src2(i)) = n
    BY <2>3 DEF Divisor, Dividend, As
  <2>6. d = 0 <=> start.r[0] = 0
    BY <1>4, IntegerZero DEF Divisor, As
  <2> HIDE DEF d, n
  <2>7. CASE d = 0
    <3>1. halted'
      BY <2>4, <2>5, <2>7 DEF modi
    <3> QED
      BY <1>3, <1>7, <2>6, <2>7, <3>1 DEF ModuloState
  <2>8. CASE d # 0
    <3>1. PICK negative \in {n * d < 0, Negative(Wrap(n * d))} :
            setDestination(i, IF negative /\ Rest(n, d) # 0 THEN Rest(n, d) + d ELSE Rest(n, d))
      BY <2>4, <2>5, <2>8 DEF modi
    <3>2. r' = [r EXCEPT ![3] = ModuloWord(negative)]
      BY <2>1, <3>1 DEF setDestination, ModuloWord, d, n
    <3>3. r'[3] = ModuloWord(negative) /\ r'[2] = RestWord("Integer")
      BY <1>4, <2>2, <2>6, <2>8, <3>2
    <3>5. ~halted'
      BY <1>7, <2>4, <2>5, <2>8, StepExecutes DEF modi
    <3>4. ModuloWord(negative)' = ModuloWord(negative)
      BY <1>5 DEF ModuloWord
    <3> QED
      BY <1>3, <1>5, <1>7, <2>6, <2>8, <3>1, <3>3, <3>4, <3>5 DEF ModuloState, d, n, ModuloWord
  <2> QED
    BY <2>7, <2>8
<1> QED
  BY <1>3, <1>6, <1>7

LEMMA DivisionsStep == IInv /\ QuotientsState /\ ModuloState /\ [Next]_vars
                       => QuotientsState' /\ ModuloState'
<1>1. ASSUME UNCHANGED vars, QuotientsState, ModuloState PROVE QuotientsState' /\ ModuloState'
  BY <1>1 DEF vars, QuotientsState, ModuloState, QuotientWord, RestWord, Divisor, Dividend, ModuloWord
<1> QED
  BY <1>1, QuotientsStep, ModuloStep

\* Multiplying back gives the dividend, and modi differs from the remainder
\* by at most the divisor, whose sign it has when the product it tests fits a
\* word (arithmeticGeneric, Core.h:452-504; modi, Core.cc:875-887).
THEOREM ModuloCorrect == Spec => []ModuloFollowsDivisor
<1>1. Init => QuotientsState /\ ModuloState
  BY DEF Init, QuotientsState, ModuloState
<1>2. IInv /\ QuotientsState /\ ModuloState => ModuloFollowsDivisor
  <2> SUFFICES ASSUME IInv, QuotientsState, ModuloState PROVE ModuloFollowsDivisor
    OBVIOUS
  <2>1. ASSUME Done(Quotients), was(0) # 0 PROVE r[2] = was(1)
    <3>1. program \in Quotients /\ pc = Len(program.code) + 1
      BY <2>1 DEF Done
    <3>2. Len(program.code) = 4
      BY <3>1 DEF Quotients, Program
    <3>3. pc = 5
      BY <3>1, <3>2
    <3> QED
      BY <2>1, <3>1, <3>3 DEF QuotientsState, was
  <2>2. ASSUME Done({Modulo})
        PROVE  LET d == Integer(was(0))
                   n == Integer(was(1))
                   m == Integer(r[3])
               IN /\ r[3] \in {r[2], Wrap(r[2] + was(0))}
                  /\ n * d \in -(Modulus \div 2) .. Modulus \div 2 - 1 =>
                       m = 0 \/ ((m < 0) = (d < 0) /\ Magnitude(m) < Magnitude(d))
    <3> DEFINE d == Integer(was(0))
               n == Integer(was(1))
               t == Rest(n, d)
               Value(negative) == IF negative /\ t # 0 THEN t + d ELSE t
    <3>1. program = Modulo /\ pc = 3 /\ ~halted
      <4>1. Len(Modulo.code) = 2
        BY DEF Modulo, Program
      <4>2. program = Modulo /\ pc = 3
        BY <2>2, <4>1, DoneOne, Zenon
      <4> QED
        BY <2>2, <4>2 DEF Done
    <3>2. d = Divisor("Integer") /\ n = Dividend("Integer")
      BY DEF Divisor, Dividend, As, was
    <3>3. PICK negative \in {n * d < 0, Negative(Wrap(n * d))} : r[3] = Wrap(Value(negative))
      BY <3>1, <3>2 DEF ModuloState, ModuloWord
    <3>4. r[2] = Wrap(t) /\ was(0) # 0
      BY <3>1, <3>2 DEF ModuloState, RestWord, was
    <3>5. was(0) \in Word /\ was(1) \in Word /\ was(0) \in Int
      BY RegisterWords DEF was
    <3>6. d \in Int /\ d # 0 /\ n \in Int
      BY <3>4, <3>5, IntegerZero, IntegerIsNumber
    <3>7. t \in Int
      <4> HIDE DEF d, n
      <4> QED
        BY <3>6, RestFacts
    <3>8. r[3] \in {r[2], Wrap(r[2] + was(0))}
      <4>1. PICK k \in Int : d = was(0) + Modulus * k
        <5>1. PICK k \in Int : As("Integer", was(0)) = was(0) + Modulus * k
          BY <3>5, AsOffset
        <5> QED
          BY <5>1 DEF As
      <4> HIDE DEF d, t
      <4>2. Wrap(t + d) = Wrap(Wrap(t) + was(0))
        <5>1. t + d = (t + was(0)) + Modulus * k /\ t + was(0) \in Int
          <6>1. Modulus \in Int /\ Modulus * k \in Int
            BY WordFacts
          <6> QED
            BY <3>5, <3>7, <4>1, <6>1
        <5>2. Wrap(t + d) = Wrap(t + was(0))
          BY <5>1, WrapMultiple
        <5> QED
          BY <3>5, <3>7, <5>2, WrapInside
      <4> QED
        BY <3>3, <3>4, <4>2
    <3>9. ASSUME n * d \in -(Modulus \div 2) .. Modulus \div 2 - 1
          PROVE  LET m == Integer(r[3])
                 IN m = 0 \/ ((m < 0) = (d < 0) /\ Magnitude(m) < Magnitude(d))
      <4> DEFINE p == n * d
                 value == Value(p < 0)
      <4>1. p \in Int /\ -(Modulus \div 2) <= p /\ p < Modulus \div 2
        BY <3>6, <3>9, HalfModulus
      <4>2. Negative(Wrap(p)) <=> p < 0
        <5> HIDE DEF p
        <5> QED
          BY <4>1, IntegerOfWrap
      <4>3. Value(negative) = value
        BY <3>3, <4>2
      <4>4. /\ value \in Int /\ Integer(Wrap(value)) = value
            /\ value = 0 \/ ((value < 0) = (d < 0) /\ Magnitude(value) < Magnitude(d))
        BY <3>5, <3>6, ModuloValue
      <4> HIDE DEF value
      <4> QED
        BY <3>3, <4>3, <4>4
    <3> QED
      BY <3>8, <3>9
  <2>3. ASSUME halted, program = Modulo PROVE was(0) = 0
    <3>1. Len(program.code) = 2
      BY <2>3 DEF Modulo, Program
    <3>2. pc \in 1 .. 3 /\ pc # 1
      BY <2>3, <3>1 DEF IInv, Started
    <3>3. pc = 2 \/ pc = 3
      BY <3>2
    <3> QED
      BY <2>3, <3>3 DEF ModuloState, was
  <2> QED
    BY <2>1, <2>2, <2>3 DEF ModuloFollowsDivisor
<1> QED
  BY <1>1, <1>2, DivisionsStep, Invariant, PTL DEF Spec

-------------------------------------------------------------------------------
(* Products and long quotients.                                              *)

LEMMA EmulDone ==
  ASSUME IInv, NEW i \in Instruction, i.op = "emul", Execute(i)
  PROVE  /\ r' = [r EXCEPT ![First(i.dest, 2)] = (Src2(i) * Src1(i)) % Modulus,
                           ![First(i.dest, 2) + 1] = (Src2(i) * Src1(i)) \div Modulus]
         /\ ac' = ac /\ halted' = halted
<1>1. emul(i)
  BY HandlerOf DEF OneResult, LogicalOps, ArithmeticOps
<1> QED
  BY <1>1 DEF emul, setLongDestination

LEMMA EdivDone ==
  ASSUME IInv, NEW i \in Instruction, i.op = "ediv", Execute(i)
  PROVE  LET n == getLongOperand(i.src2)
         IN /\ ac' = ac
            /\ Src1(i) = 0 => halted'
            /\ Src1(i) # 0 =>
                 /\ r' = [r EXCEPT ![First(i.dest, 2)] = n % Src1(i),
                                   ![First(i.dest, 2) + 1] = Wrap(n \div Src1(i))]
                 /\ halted' = halted
<1>1. ediv(i)
  BY HandlerOf DEF OneResult, LogicalOps, ArithmeticOps
<1> QED
  BY <1>1 DEF ediv, setLongDestination

LEMMA MovlDone ==
  ASSUME IInv, NEW i \in Instruction, i.op = "movl", i.src1 \in Registers, Execute(i)
  PROVE  /\ r' = [r EXCEPT ![First(i.dest, 2)] = r[First(i.src1, 2)],
                           ![First(i.dest, 2) + 1] = r[First(i.src1, 2) + 1]]
         /\ ac' = ac /\ halted' = halted
<1>1. move(i)
  BY HandlerOf DEF OneResult, LogicalOps, ArithmeticOps
<1> DEFINE to == First(i.dest, 2)
           from == First(i.src1, 2)
           Part(k) == r[from + k]
<1>2. i.dest \in Registers /\ r \in [Registers -> Word]
  BY RegisterWords DEF Instruction
<1>3. to \in {0, 2, 4, 6} /\ from \in {0, 2, 4, 6}
  BY <1>2 DEF First, Registers, NumRegisters
<1>4. r' = [j \in Registers |-> IF j \in to .. to + 2 - 1 THEN Part(j - to) ELSE r[j]]
  BY <1>1 DEF move
<1>5. UNCHANGED <<ac, tc, halted>>
  BY <1>1 DEF move
<1> HIDE DEF to, from
<1>6. \A j \in Registers : j \in to .. to + 2 - 1 <=> j = to \/ j = to + 1
  BY <1>3 DEF Registers, NumRegisters
<1>7. from + 0 = from /\ to - to = 0 /\ (to + 1) - to = 1 /\ to # to + 1
  BY <1>3
<1>8. r' = [r EXCEPT ![to] = r[from], ![to + 1] = r[from + 1]]
  BY <1>2, <1>4, <1>6, <1>7
<1> QED
  BY <1>5, <1>8 DEF to, from

\* The two words that make up a long operand.
Long(low, high) == low + Modulus * high

LEMMA LongOperandValue ==
  ASSUME NEW index \in Registers
  PROVE  getLongOperand(index) = Long(r[First(index, 2)], r[First(index, 2) + 1])
BY DEF getLongOperand, Long

LEMMA Halves ==
  /\ First(0, 2) = 0 /\ First(1, 2) = 0 /\ First(2, 2) = 2 /\ First(5, 2) = 4 /\ First(6, 2) = 6
BY DEF First

\* A product divided by one of its factors.
LEMMA ProductDivided ==
  ASSUME NEW a \in Word, NEW b \in Word
  PROVE  /\ Long((a * b) % Modulus, (a * b) \div Modulus) = a * b
         /\ b # 0 => (a * b) % b = 0 /\ Wrap((a * b) \div b) = a
<1>1. a \in Nat /\ b \in Nat /\ a \in Int
  BY WordFacts
<1>2. ASSUME b # 0 PROVE (a * b) % b = 0 /\ Wrap((a * b) \div b) = a
  <2> DEFINE p == a * b
  <2>1. p \in Int /\ p = b * a + 0 /\ 0 \in 0 .. b - 1 /\ b > 0
    BY <1>1, <1>2
  <2> HIDE DEF p
  <2>2. p \div b = a /\ p % b = 0
    BY <1>1, <2>1, UniqueQuotient
  <2> QED
    BY <2>2, WrapOfWord DEF p
<1>3. Long((a * b) % Modulus, (a * b) \div Modulus) = a * b
  <2> DEFINE p == a * b
             low == p % Modulus
             high == p \div Modulus
  <2>1. low \in Word /\ high \in Word /\ p = Modulus * high + low
    BY ProductWords
  <2>2. low \in Int /\ high \in Int /\ Modulus \in Int
    BY <2>1, WordFacts
  <2> HIDE DEF low, high, p
  <2>3. Long(low, high) = p
    BY <2>1, <2>2 DEF Long
  <2> QED
    BY <2>3 DEF low, high, p
<1> QED
  BY <1>2, <1>3

LEMMA LongIsNumber == ASSUME NEW a \in Word, NEW b \in Word PROVE Long(a, b) \in Nat /\ Long(a, b) \in Int
BY WordFacts DEF Long

\* A dividend whose upper word is less than the divisor has a quotient that is
\* a word, and product and remainder give it back.
LEMMA LongUndone ==
  ASSUME NEW a0 \in Word, NEW a1 \in Word, NEW a2 \in Word, a1 < a2
  PROVE  LET n == Long(a0, a1)
             q == Wrap(n \div a2)
             rest == n % a2
             low == (a2 * q) % Modulus
             high == (a2 * q) \div Modulus
         IN /\ q \in Word /\ rest \in Word
            /\ Wrap(low + rest) = a0
            /\ high + (IF low + rest >= Modulus THEN 1 ELSE 0) = a1
<1> DEFINE M == Modulus
           n == Long(a0, a1)
           k == n \div a2
           rest == n % a2
<1>1. /\ M \in Nat /\ M > 0 /\ a0 \in 0 .. M - 1 /\ a1 \in 0 .. M - 1 /\ a2 \in 0 .. M - 1
      /\ a2 \in Nat /\ a2 > 0 /\ M \in Int
  BY ByteFacts
<1>2. n \in Int /\ n \in Nat /\ n = a0 + M * a1
  BY LongIsNumber DEF Long
<1> HIDE DEF M, n
<1>3. k \in Int /\ rest \in 0 .. a2 - 1 /\ n = a2 * k + rest
  BY <1>1, <1>2, Divided
<1> HIDE DEF k, rest
<1>4. n < M * a2
  <2>1. M * a1 + M <= M * a2
    BY <1>1, Multiples
  <2>2. M * a1 \in Int /\ M * a2 \in Int
    BY <1>1
  <2> QED
    BY <1>1, <1>2, <2>1, <2>2
<1>5. k \in 0 .. M - 1
  <2>1. k >= 0
    <3>1. SUFFICES ASSUME k < 0 PROVE FALSE
      BY <1>3
    <3>2. a2 * k + a2 <= a2 * 0
      BY <1>1, <1>3, <3>1, Multiples
    <3>3. a2 * k \in Int
      BY <1>1, <1>3
    <3> QED
      BY <1>1, <1>2, <1>3, <3>2, <3>3
  <2>2. k < M
    <3>1. SUFFICES ASSUME k >= M PROVE FALSE
      BY <1>1, <1>3
    <3>2. a2 * k >= a2 * M
      <4>1. M < k => a2 * M + a2 <= a2 * k
        BY <1>1, <1>3, Multiples
      <4> QED
        BY <1>1, <1>3, <3>1, <4>1
    <3>3. a2 * k \in Int /\ a2 * M \in Int /\ M * a2 = a2 * M
      BY <1>1, <1>3
    <3> QED
      BY <1>1, <1>2, <1>3, <1>4, <3>2, <3>3
  <2> QED
    BY <1>1, <1>3, <2>1, <2>2
<1>6. Wrap(k) = k /\ k \in Word
  <2>1. k \in Word
    BY <1>5, ByteFacts DEF M
  <2> QED
    BY <2>1, WrapOfWord
<1>7. rest \in Word
  <2>1. rest \in 0 .. M - 1
    BY <1>1, <1>3
  <2> QED
    BY <2>1, ByteFacts DEF M
<1> DEFINE p == a2 * k
           low == p % Modulus
           high == p \div Modulus
<1>8. low \in Word /\ high \in Word /\ p = Modulus * high + low
  BY <1>6, ProductWords
<1> HIDE DEF p, low, high
<1>9. p = M * high + low /\ low \in 0 .. M - 1 /\ high \in Int /\ p = a2 * k
  BY <1>8, ByteFacts DEF M, p
<1>10. low + rest = M * (a1 - high) + a0 /\ a1 - high \in Int /\ low + rest \in Int
  <2>1. M * (a1 - high) = M * a1 - M * high /\ M * a1 \in Int /\ M * high \in Int
    BY <1>1, <1>9
  <2> QED
    BY <1>1, <1>2, <1>3, <1>9, <2>1
<1>11. (low + rest) \div M = a1 - high /\ (low + rest) % M = a0
  BY <1>1, <1>10, UniqueQuotient
<1>12. a1 - high = IF low + rest >= M THEN 1 ELSE 0
  <2>1. CASE low + rest >= M
    <3>1. low + rest = M * 1 + (low + rest - M) /\ low + rest - M \in 0 .. M - 1
      BY <1>1, <1>3, <1>9, <2>1
    <3>2. (low + rest) \div M = 1
      BY <1>1, <1>10, <3>1, UniqueQuotient
    <3> QED
      BY <1>11, <2>1, <3>2
  <2>2. CASE ~(low + rest >= M)
    <3>1. low + rest = M * 0 + (low + rest) /\ low + rest \in 0 .. M - 1
      BY <1>1, <1>3, <1>9, <2>2
    <3>2. (low + rest) \div M = 0
      <4> DEFINE s == low + rest
      <4>1. s \in Int /\ s = M * 0 + s /\ s \in 0 .. M - 1 /\ 0 \in Int
        BY <1>10, <3>1
      <4> HIDE DEF s
      <4>2. s \div M = 0
        BY <1>1, <4>1, UniqueQuotient
      <4> QED
        BY <4>2 DEF s
    <3> QED
      BY <1>11, <2>2, <3>2
  <2> QED
    BY <2>1, <2>2
<1>13. high + (IF low + rest >= M THEN 1 ELSE 0) = a1
  BY <1>1, <1>9, <1>12
<1> QED
  BY <1>6, <1>7, <1>11, <1>13 DEF Wrap, M, n, k, rest, p, low, high

LowWord(a, b) == (a * b) % Modulus
HighWord(a, b) == (a * b) \div Modulus

LEMMA HalfWords ==
  ASSUME NEW a \in Word, NEW b \in Word
  PROVE  LowWord(a, b) \in Word /\ HighWord(a, b) \in Word
BY ProductWords DEF LowWord, HighWord

ProductState ==
  /\ program = Product =>
       /\ pc = 2 => ~halted /\ r = [start.r EXCEPT ![2] = LowWord(start.r[1], start.r[0]),
                                                   ![3] = HighWord(start.r[1], start.r[0])]
       /\ pc = 3 => IF halted THEN start.r[0] = 0 ELSE r[2] = 0 /\ r[3] = start.r[1]
  /\ program = ProductInPlace =>
       /\ pc = 2 => ~halted /\ r = [start.r EXCEPT ![4] = start.r[0]]
       /\ pc = 3 => ~halted /\ r = [start.r EXCEPT ![4] = start.r[0],
                                                   ![0] = LowWord(start.r[1], start.r[0]),
                                                   ![1] = HighWord(start.r[1], start.r[0])]
       /\ pc = 4 => IF halted THEN start.r[0] = 0 ELSE r[0] = 0 /\ r[1] = start.r[1]

LEMMA ProductStep ==
  ASSUME IInv, Next, ProductState, program = Product
  PROVE  ProductState'
<1>1. /\ Len(program.code) = 2 /\ Product # ProductInPlace
      /\ program.code[1] = I("emul", 0, 1, 2) /\ program.code[2] = I("ediv", 0, 2, 2)
  BY DEF Product, ProductInPlace, Program, I
<1>2. /\ pc \in 1 .. 2 /\ pc' = pc + 1 /\ program' = program /\ start' = start /\ ~halted
      /\ program.code[pc] \in Instruction /\ Execute(program.code[pc])
  BY <1>1, StepExecutes
<1>3. /\ Registers = 0 .. 7 /\ start.r \in [Registers -> Word] /\ r \in [Registers -> Word]
      /\ start.r[0] \in Word /\ start.r[1] \in Word
  BY RegisterWords
<1>4. CASE pc = 1
  <2> DEFINE i == program.code[1]
  <2>1. i.op = "emul" /\ i.src1 = 0 /\ i.src2 = 1 /\ i.dest = 2 /\ i \in Instruction /\ Execute(i)
    BY <1>1, <1>2, <1>4 DEF I
  <2> HIDE DEF i
  <2>2. r = start.r
    BY <1>4 DEF IInv, Started
  <2>3. Src1(i) = start.r[0] /\ Src2(i) = start.r[1]
    BY <1>3, <2>1, <2>2, OperandValues DEF Src1, Src2
  <2>4. First(i.dest, 2) = 2 /\ 2 + 1 = 3
    BY <2>1, Halves
  <2>5. /\ r' = [start.r EXCEPT ![2] = LowWord(start.r[1], start.r[0]),
                                ![3] = HighWord(start.r[1], start.r[0])]
        /\ halted' = halted
    BY <2>1, <2>2, <2>3, <2>4, EmulDone DEF LowWord, HighWord
  <2> QED
    BY <1>1, <1>2, <1>4, <2>5 DEF ProductState
<1>5. CASE pc = 2
  <2> DEFINE i == program.code[2]
             a == start.r[1]
             b == start.r[0]
  <2>1. i.op = "ediv" /\ i.src1 = 0 /\ i.src2 = 2 /\ i.dest = 2 /\ i \in Instruction /\ Execute(i)
    BY <1>1, <1>2, <1>5 DEF I
  <2> HIDE DEF i
  <2>2. r = [start.r EXCEPT ![2] = LowWord(a, b), ![3] = HighWord(a, b)]
    BY <1>5 DEF ProductState
  <2>3. r[0] = b /\ r[2] = LowWord(a, b) /\ r[3] = HighWord(a, b)
    BY <1>3, <2>2
  <2>4. Src1(i) = b /\ First(i.dest, 2) = 2 /\ 2 + 1 = 3 /\ 2 \in Registers
    BY <1>3, <2>1, <2>3, OperandValues, Halves DEF Src1
  <2>5. getLongOperand(i.src2) = Long(LowWord(a, b), HighWord(a, b))
    BY <2>1, <2>3, <2>4, LongOperandValue, Halves
  <2>6. getLongOperand(i.src2) = a * b /\ (b # 0 => (a * b) % b = 0 /\ Wrap((a * b) \div b) = a)
    BY <1>3, <2>5, ProductDivided DEF LowWord, HighWord
  <2>7. CASE b = 0
    <3>1. halted'
      BY <2>1, <2>4, <2>7, EdivDone
    <3> QED
      BY <1>1, <1>2, <1>5, <2>7, <3>1 DEF ProductState
  <2>8. CASE b # 0
    <3>1. r' = [r EXCEPT ![2] = 0, ![3] = a] /\ halted' = halted
      BY <2>1, <2>4, <2>6, <2>8, EdivDone
    <3>2. r'[2] = 0 /\ r'[3] = a /\ ~halted'
      BY <1>2, <1>3, <3>1
    <3> QED
      BY <1>1, <1>2, <1>5, <3>2 DEF ProductState
  <2> QED
    BY <2>7, <2>8
<1> QED
  BY <1>2, <1>4, <1>5

LEMMA ProductInPlaceStep ==
  ASSUME IInv, Next, ProductState, program = ProductInPlace
  PROVE  ProductState'
<1>1. /\ Len(program.code) = 3 /\ Product # ProductInPlace
      /\ program.code[1] = I("mov", 0, 0, 4) /\ program.code[2] = I("emul", 0, 1, 1)
      /\ program.code[3] = I("ediv", 4, 1, 0)
  BY DEF Product, ProductInPlace, Program, I
<1>2. /\ pc \in 1 .. 3 /\ pc' = pc + 1 /\ program' = program /\ start' = start /\ ~halted
      /\ program.code[pc] \in Instruction /\ Execute(program.code[pc])
  BY <1>1, StepExecutes
<1>3. /\ Registers = 0 .. 7 /\ start.r \in [Registers -> Word] /\ r \in [Registers -> Word]
      /\ start.r[0] \in Word /\ start.r[1] \in Word
  BY RegisterWords
<1> DEFINE a == start.r[1]
           b == start.r[0]
<1>4. CASE pc = 1
  <2> DEFINE i == program.code[1]
  <2>1. i.op = "mov" /\ i.src1 = 0 /\ i.dest = 4 /\ i \in Instruction /\ Execute(i)
    BY <1>1, <1>2, <1>4 DEF I
  <2> HIDE DEF i
  <2>2. r = start.r
    BY <1>4 DEF IInv, Started
  <2>3. Src1(i) = b
    BY <1>3, <2>1, <2>2, OperandValues DEF Src1
  <2>4. i.op \in OneResult /\ Results(i) = {b}
    BY <2>1, <2>3 DEF Results, OneResult, LogicalOps, ArithmeticOps
  <2>5. r' = [start.r EXCEPT ![4] = b] /\ halted' = halted
    BY <1>3, <2>1, <2>2, <2>4, Computed
  <2> QED
    BY <1>1, <1>2, <1>4, <2>5 DEF ProductState
<1>5. CASE pc = 2
  <2> DEFINE i == program.code[2]
  <2>1. i.op = "emul" /\ i.src1 = 0 /\ i.src2 = 1 /\ i.dest = 1 /\ i \in Instruction /\ Execute(i)
    BY <1>1, <1>2, <1>5 DEF I
  <2> HIDE DEF i
  <2>2. r = [start.r EXCEPT ![4] = b]
    BY <1>5 DEF ProductState
  <2>3. Src1(i) = b /\ Src2(i) = a
    BY <1>3, <2>1, <2>2, OperandValues DEF Src1, Src2
  <2>4. First(i.dest, 2) = 0 /\ 0 + 1 = 1
    BY <2>1, Halves
  <2>5. r' = [r EXCEPT ![0] = LowWord(a, b), ![1] = HighWord(a, b)] /\ halted' = halted
    BY <2>1, <2>3, <2>4, EmulDone DEF LowWord, HighWord
  <2>6. r' = [start.r EXCEPT ![4] = b, ![0] = LowWord(a, b), ![1] = HighWord(a, b)]
    BY <2>2, <2>5
  <2>7. pc' = 3 /\ ~halted' /\ program' = ProductInPlace
    BY <1>2, <1>5, <2>5
  <2>8. r' = [start'.r EXCEPT ![4] = start'.r[0],
                              ![0] = LowWord(start'.r[1], start'.r[0]),
                              ![1] = HighWord(start'.r[1], start'.r[0])]
    BY <1>2, <2>6
  <2> QED
    BY <1>1, <2>7, <2>8 DEF ProductState
<1>6. CASE pc = 3
  <2> DEFINE i == program.code[3]
  <2>1. i.op = "ediv" /\ i.src1 = 4 /\ i.src2 = 1 /\ i.dest = 0 /\ i \in Instruction /\ Execute(i)
    BY <1>1, <1>2, <1>6 DEF I
  <2> HIDE DEF i
  <2>2. r = [start.r EXCEPT ![4] = b, ![0] = LowWord(a, b), ![1] = HighWord(a, b)]
    BY <1>6 DEF ProductState
  <2>3. r[4] = b /\ r[0] = LowWord(a, b) /\ r[1] = HighWord(a, b)
    BY <1>3, <2>2
  <2>4. Src1(i) = b /\ First(i.dest, 2) = 0 /\ 0 + 1 = 1 /\ 1 \in Registers
    BY <1>3, <2>1, <2>3, OperandValues, Halves DEF Src1
  <2>5. getLongOperand(i.src2) = Long(LowWord(a, b), HighWord(a, b))
    BY <2>1, <2>3, <2>4, LongOperandValue, Halves
  <2>6. getLongOperand(i.src2) = a * b /\ (b # 0 => (a * b) % b = 0 /\ Wrap((a * b) \div b) = a)
    BY <1>3, <2>5, ProductDivided DEF LowWord, HighWord
  <2>7. CASE b = 0
    <3>1. halted'
      BY <2>1, <2>4, <2>7, EdivDone
    <3> QED
      BY <1>1, <1>2, <1>6, <2>7, <3>1 DEF ProductState
  <2>8. CASE b # 0
    <3>1. r' = [r EXCEPT ![0] = 0, ![1] = a] /\ halted' = halted
      BY <2>1, <2>4, <2>6, <2>8, EdivDone
    <3>2. r'[0] = 0 /\ r'[1] = a /\ ~halted'
      BY <1>2, <1>3, <3>1
    <3> QED
      BY <1>1, <1>2, <1>6, <3>2 DEF ProductState
  <2> QED
    BY <2>7, <2>8
<1> QED
  BY <1>2, <1>4, <1>5, <1>6

\* The quotient, and its product with the divisor, of a long dividend.
Partial == Wrap(Long(start.r[0], start.r[1]) \div start.r[2])
Remaining == Long(start.r[0], start.r[1]) % start.r[2]

LongState ==
  /\ program = LongQuotient =>
       /\ pc = 2 => ~halted /\ r = [start.r EXCEPT ![4] = start.r[0], ![5] = start.r[1]] /\ ac = 0
       /\ pc = 3 => IF halted THEN start.r[2] = 0
                    ELSE r[2] = start.r[2] /\ r[2] # 0 /\ r[0] = Remaining /\ r[1] = Partial /\ ac = 0
       /\ pc = 4 => ~halted /\ r[0] = Remaining /\ ac = 0
                    /\ r[6] = LowWord(start.r[2], Partial) /\ r[7] = HighWord(start.r[2], Partial)
       /\ pc = 5 => LET sum == LowWord(start.r[2], Partial) + Remaining
                    IN ~halted /\ r[6] = Wrap(sum) /\ r[7] = HighWord(start.r[2], Partial)
                       /\ (ac % 8) \div 2 = (IF sum >= Modulus THEN 1 ELSE 0)
  /\ program = QuotientByHalf =>
       LET n == Long(start.r[0], start.r[1])
       IN /\ pc = 2 => ~halted /\ r = [start.r EXCEPT ![4] = start.r[0], ![5] = start.r[1]]
          /\ pc = 3 => IF halted THEN start.r[0] = 0
                       ELSE /\ start.r[0] # 0 /\ r[4] = start.r[0] /\ r[5] = start.r[1]
                            /\ r[0] = n % start.r[0] /\ r[1] = Wrap(n \div start.r[0])

LEMMA LongQuotientStep ==
  ASSUME IInv, Next, LongState, program = LongQuotient
  PROVE  LongState'
<1>1. /\ Len(program.code) = 4 /\ LongQuotient # QuotientByHalf /\ program.acs = {0}
      /\ program.code[1] = I("movl", 1, 0, 5) /\ program.code[2] = I("ediv", 2, 0, 1)
      /\ program.code[3] = I("emul", 1, 2, 6) /\ program.code[4] = I("addc", 0, 6, 6)
  BY DEF LongQuotient, QuotientByHalf, Program, I
<1>2. /\ pc \in 1 .. 4 /\ pc' = pc + 1 /\ program' = program /\ start' = start /\ ~halted
      /\ program.code[pc] \in Instruction /\ Execute(program.code[pc])
  BY <1>1, StepExecutes
<1>3. /\ Registers = 0 .. 7 /\ start.r \in [Registers -> Word] /\ r \in [Registers -> Word]
  BY RegisterWords
<1> DEFINE n == Long(start.r[0], start.r[1])
           b == start.r[2]
<1>4. Partial' = Partial /\ Remaining' = Remaining
  BY <1>2 DEF Partial, Remaining
<1>5. CASE pc = 1
  <2> DEFINE i == program.code[1]
  <2>1. i.op = "movl" /\ i.src1 = 1 /\ i.dest = 5 /\ i \in Instruction /\ Execute(i)
    BY <1>1, <1>2, <1>5 DEF I
  <2> HIDE DEF i
  <2>2. r = start.r /\ ac = 0
    BY <1>1, <1>5 DEF IInv, Started
  <2>3. First(i.dest, 2) = 4 /\ 4 + 1 = 5 /\ First(i.src1, 2) = 0 /\ 0 + 1 = 1 /\ i.src1 \in Registers
    BY <1>3, <2>1, Halves
  <2>4. r' = [start.r EXCEPT ![4] = start.r[0], ![5] = start.r[1]] /\ halted' = halted /\ ac' = ac
    BY <2>1, <2>2, <2>3, MovlDone
  <2> QED
    BY <1>1, <1>2, <1>5, <2>2, <2>4 DEF LongState
<1>6. CASE pc = 2
  <2> DEFINE i == program.code[2]
  <2>1. i.op = "ediv" /\ i.src1 = 2 /\ i.src2 = 0 /\ i.dest = 1 /\ i \in Instruction /\ Execute(i)
    BY <1>1, <1>2, <1>6 DEF I
  <2> HIDE DEF i
  <2>2. r = [start.r EXCEPT ![4] = start.r[0], ![5] = start.r[1]] /\ ac = 0
    BY <1>6 DEF LongState
  <2>3. r[0] = start.r[0] /\ r[1] = start.r[1] /\ r[2] = b
    BY <1>3, <2>2
  <2>4. Src1(i) = b /\ First(i.dest, 2) = 0 /\ 0 + 1 = 1 /\ 0 \in Registers
    BY <1>3, <2>1, <2>3, OperandValues, Halves DEF Src1
  <2>5. getLongOperand(i.src2) = n
    BY <2>1, <2>3, <2>4, LongOperandValue, Halves
  <2>6. CASE b = 0
    <3>1. halted'
      BY <2>1, <2>4, <2>6, EdivDone
    <3> QED
      BY <1>1, <1>2, <1>6, <2>6, <3>1 DEF LongState
  <2>7. CASE b # 0
    <3>1. r' = [r EXCEPT ![0] = Remaining, ![1] = Partial] /\ halted' = halted /\ ac' = ac
      BY <2>1, <2>4, <2>5, <2>7, EdivDone DEF Remaining, Partial
    <3>2. r'[0] = Remaining /\ r'[1] = Partial /\ r'[2] = b /\ ~halted' /\ ac' = 0
      BY <1>2, <1>3, <2>2, <2>3, <3>1
    <3> QED
      BY <1>1, <1>2, <1>4, <1>6, <2>7, <3>2 DEF LongState
  <2> QED
    BY <2>6, <2>7
<1>7. CASE pc = 3
  <2> DEFINE i == program.code[3]
  <2>1. i.op = "emul" /\ i.src1 = 1 /\ i.src2 = 2 /\ i.dest = 6 /\ i \in Instruction /\ Execute(i)
    BY <1>1, <1>2, <1>7 DEF I
  <2> HIDE DEF i
  <2>2. r[2] = b /\ b # 0 /\ r[0] = Remaining /\ r[1] = Partial /\ ac = 0
    BY <1>2, <1>7 DEF LongState
  <2>3. Src1(i) = Partial /\ Src2(i) = b
    BY <1>3, <2>1, <2>2, OperandValues DEF Src1, Src2
  <2>4. First(i.dest, 2) = 6 /\ 6 + 1 = 7
    BY <2>1, Halves
  <2>5. r' = [r EXCEPT ![6] = LowWord(b, Partial), ![7] = HighWord(b, Partial)]
        /\ halted' = halted /\ ac' = ac
    BY <2>1, <2>3, <2>4, EmulDone DEF LowWord, HighWord
  <2>6. r'[0] = Remaining /\ r'[6] = LowWord(b, Partial) /\ r'[7] = HighWord(b, Partial)
    BY <1>3, <2>2, <2>5
  <2>7. LowWord(b, Partial)' = LowWord(b, Partial) /\ HighWord(b, Partial)' = HighWord(b, Partial)
    BY <1>2, <1>4 DEF LowWord, HighWord
  <2> QED
    BY <1>1, <1>2, <1>4, <1>7, <2>2, <2>5, <2>6, <2>7 DEF LongState
<1>8. CASE pc = 4
  <2> DEFINE i == program.code[4]
             sum == LowWord(b, Partial) + Remaining
  <2>1. i.op = "addc" /\ i.src1 = 0 /\ i.src2 = 6 /\ i.dest = 6 /\ i \in Instruction /\ Execute(i)
    BY <1>1, <1>2, <1>8 DEF I
  <2> HIDE DEF i
  <2>2. r[0] = Remaining /\ r[6] = LowWord(b, Partial) /\ r[7] = HighWord(b, Partial) /\ ac = 0
    BY <1>8 DEF LongState
  <2>3. Src1(i) = Remaining /\ Src2(i) = LowWord(b, Partial)
    BY <1>3, <2>1, <2>2, OperandValues DEF Src1, Src2
  <2>4. Remaining \in Int /\ LowWord(b, Partial) \in Int
    <3>1. r[0] \in Int /\ r[6] \in Int
      BY RegisterWords
    <3> QED
      BY <2>2, <3>1
  <2>5. LowWord(b, Partial) + Remaining + ((ac % 8) % 2) = sum
    BY <2>2, <2>4
  <2>6. r' = [r EXCEPT ![6] = Wrap(sum)] /\ ac' % 8 = Carried(Remaining, LowWord(b, Partial), sum)
    BY <2>1, <2>3, <2>5, CarryDone
  <2>7. ~halted'
    <3>1. withCarryOperationGeneric(i)
      BY <2>1, HandlerOf DEF OneResult, LogicalOps, ArithmeticOps
    <3> QED
      BY <1>2, <3>1 DEF withCarryOperationGeneric
  <2>8. r'[6] = Wrap(sum) /\ r'[7] = HighWord(b, Partial)
    BY <1>3, <2>2, <2>6
  <2>9. (ac' % 8) \div 2 = IF sum >= Modulus THEN 1 ELSE 0
    <3> HIDE DEF sum
    <3> QED
      BY <2>6 DEF Carried
  <2>10. LowWord(b, Partial)' = LowWord(b, Partial) /\ HighWord(b, Partial)' = HighWord(b, Partial)
    BY <1>2, <1>4 DEF LowWord, HighWord
  <2> QED
    BY <1>1, <1>2, <1>4, <1>8, <2>7, <2>8, <2>9, <2>10 DEF LongState
<1> QED
  BY <1>2, <1>5, <1>6, <1>7, <1>8

LEMMA QuotientByHalfStep ==
  ASSUME IInv, Next, LongState, program = QuotientByHalf
  PROVE  LongState'
<1>1. /\ Len(program.code) = 2 /\ LongQuotient # QuotientByHalf
      /\ program.code[1] = I("movl", 0, 0, 4) /\ program.code[2] = I("ediv", 0, 1, 0)
  BY DEF LongQuotient, QuotientByHalf, Program, I
<1>2. /\ pc \in 1 .. 2 /\ pc' = pc + 1 /\ program' = program /\ start' = start /\ ~halted
      /\ program.code[pc] \in Instruction /\ Execute(program.code[pc])
  BY <1>1, StepExecutes
<1>3. /\ Registers = 0 .. 7 /\ start.r \in [Registers -> Word] /\ r \in [Registers -> Word]
  BY RegisterWords
<1> DEFINE n == Long(start.r[0], start.r[1])
           b == start.r[0]
<1>4. CASE pc = 1
  <2> DEFINE i == program.code[1]
  <2>1. i.op = "movl" /\ i.src1 = 0 /\ i.dest = 4 /\ i \in Instruction /\ Execute(i)
    BY <1>1, <1>2, <1>4 DEF I
  <2> HIDE DEF i
  <2>2. r = start.r
    BY <1>4 DEF IInv, Started
  <2>3. First(i.dest, 2) = 4 /\ 4 + 1 = 5 /\ First(i.src1, 2) = 0 /\ 0 + 1 = 1 /\ i.src1 \in Registers
    BY <1>3, <2>1 DEF First
  <2>4. r' = [start.r EXCEPT ![4] = start.r[0], ![5] = start.r[1]] /\ halted' = halted
    BY <2>1, <2>2, <2>3, MovlDone
  <2> QED
    BY <1>1, <1>2, <1>4, <2>4 DEF LongState
<1>5. CASE pc = 2
  <2> DEFINE i == program.code[2]
  <2>1. i.op = "ediv" /\ i.src1 = 0 /\ i.src2 = 1 /\ i.dest = 0 /\ i \in Instruction /\ Execute(i)
    BY <1>1, <1>2, <1>5 DEF I
  <2> HIDE DEF i
  <2>2. r = [start.r EXCEPT ![4] = start.r[0], ![5] = start.r[1]]
    BY <1>5 DEF LongState
  <2>3. r[0] = b /\ r[1] = start.r[1] /\ r[4] = b /\ r[5] = start.r[1]
    BY <1>3, <2>2
  <2>4. Src1(i) = b /\ First(i.dest, 2) = 0 /\ 0 + 1 = 1 /\ 1 \in Registers
    BY <1>3, <2>1, <2>3, OperandValues, Halves DEF Src1
  <2>5. getLongOperand(i.src2) = n
    BY <2>1, <2>3, <2>4, LongOperandValue, Halves
  <2>6. CASE b = 0
    <3>1. halted'
      BY <2>1, <2>4, <2>6, EdivDone
    <3> QED
      BY <1>1, <1>2, <1>5, <2>6, <3>1 DEF LongState
  <2>7. CASE b # 0
    <3>1. r' = [r EXCEPT ![0] = n % b, ![1] = Wrap(n \div b)] /\ halted' = halted
      BY <2>1, <2>4, <2>5, <2>7, EdivDone
    <3>2. r'[0] = n % b /\ r'[1] = Wrap(n \div b) /\ r'[4] = b /\ r'[5] = start.r[1] /\ ~halted'
      BY <1>2, <1>3, <2>3, <3>1
    <3>3. n' = n
      BY <1>2 DEF Long
    <3> QED
      BY <1>1, <1>2, <1>5, <2>7, <3>2, <3>3 DEF LongState
  <2> QED
    BY <2>6, <2>7
<1> QED
  BY <1>2, <1>4, <1>5

LEMMA LongStep == IInv /\ ProductState /\ LongState /\ [Next]_vars => ProductState' /\ LongState'
<1>1. ASSUME UNCHANGED vars, ProductState, LongState PROVE ProductState' /\ LongState'
  BY <1>1 DEF vars, ProductState, LongState, Partial, Remaining, LowWord, HighWord, Long
<1>2. ASSUME IInv, Next, ProductState, program \notin {Product, ProductInPlace} PROVE ProductState'
  BY <1>2, StepExecutes DEF ProductState
<1>3. ASSUME IInv, Next, LongState, program \notin {LongQuotient, QuotientByHalf} PROVE LongState'
  BY <1>3, StepExecutes DEF LongState
<1>4. ASSUME IInv, Next, ProductState PROVE ProductState'
  BY <1>2, <1>4, ProductStep, ProductInPlaceStep
<1>5. ASSUME IInv, Next, LongState PROVE LongState'
  BY <1>3, <1>5, LongQuotientStep, QuotientByHalfStep
<1> QED
  BY <1>1, <1>4, <1>5

\* emul and ediv undo each other, also in place; quotient, divisor and
\* remainder make up the dividend (ediv and emul, Core.cc:888-910).
THEOREM LongDivisionCorrect == Spec => []LongDivision
<1>1. Init => ProductState /\ LongState
  BY DEF Init, ProductState, LongState
<1>2. IInv /\ ProductState /\ LongState => LongDivision
  <2> SUFFICES ASSUME IInv, ProductState, LongState PROVE LongDivision
    OBVIOUS
  <2>1. /\ Len(Product.code) = 2 /\ Len(ProductInPlace.code) = 3
        /\ Len(LongQuotient.code) = 4 /\ Len(QuotientByHalf.code) = 2
    BY DEF Product, ProductInPlace, LongQuotient, QuotientByHalf, Program
  <2>2. \A p : Done({p}) => program = p /\ pc = Len(p.code) + 1 /\ ~halted
    BY DEF Done
  <2>3. ASSUME Done({Product}) PROVE r[2] = 0 /\ r[3] = was(1)
    <3>1. program = Product /\ pc = Len(Product.code) + 1 /\ ~halted
      BY <2>2, <2>3
    <3>2. pc = 3
      BY <2>1, <3>1
    <3> QED
      BY <3>1, <3>2 DEF ProductState, was
  <2>4. ASSUME Done({ProductInPlace}) PROVE r[0] = 0 /\ r[1] = was(1)
    <3>1. program = ProductInPlace /\ pc = Len(ProductInPlace.code) + 1 /\ ~halted
      BY <2>2, <2>4
    <3>2. pc = 4
      BY <2>1, <3>1
    <3> QED
      BY <3>1, <3>2 DEF ProductState, was
  <2>5. ASSUME Done({LongQuotient}), was(1) < was(2)
        PROVE  r[6] = was(0) /\ r[7] + getConditionCode \div 2 = was(1)
    <3>1. program = LongQuotient /\ pc = Len(LongQuotient.code) + 1 /\ ~halted
      BY <2>2, <2>5
    <3>2. pc = 5
      BY <2>1, <3>1
    <3>3. /\ r[6] = Wrap(LowWord(was(2), Partial) + Remaining)
          /\ r[7] = HighWord(was(2), Partial)
          /\ (ac % 8) \div 2 = (IF LowWord(was(2), Partial) + Remaining >= Modulus THEN 1 ELSE 0)
      BY <3>1, <3>2 DEF LongState, was
    <3>4. was(0) \in Word /\ was(1) \in Word /\ was(2) \in Word
      BY RegisterWords DEF was
    <3>5. /\ Wrap(LowWord(was(2), Partial) + Remaining) = was(0)
          /\ HighWord(was(2), Partial)
             + (IF LowWord(was(2), Partial) + Remaining >= Modulus THEN 1 ELSE 0) = was(1)
      BY <2>5, <3>4, LongUndone DEF LowWord, HighWord, Partial, Remaining, was
    <3> QED
      BY <3>3, <3>5 DEF getConditionCode
  <2>6. ASSUME Done({QuotientByHalf})
        PROVE  /\ r[0] < was(0)
               /\ (r[4] + Modulus * r[5] - r[0]) % was(0) = 0
               /\ ((r[4] + Modulus * r[5] - r[0]) \div was(0)) % Modulus = r[1]
    <3> DEFINE b == start.r[0]
               n == Long(start.r[0], start.r[1])
    <3>1. program = QuotientByHalf /\ pc = Len(QuotientByHalf.code) + 1 /\ ~halted
      BY <2>2, <2>6
    <3>2. pc = 3
      BY <2>1, <3>1
    <3>3. b # 0 /\ r[4] = start.r[0] /\ r[5] = start.r[1] /\ r[0] = n % b /\ r[1] = Wrap(n \div b)
      BY <3>1, <3>2 DEF LongState
    <3>4. start.r[0] \in Word /\ start.r[1] \in Word
      BY RegisterWords
    <3>5. r[4] + Modulus * r[5] = n
      BY <3>3 DEF Long
    <3>6. b \in Nat /\ b > 0 /\ n \in Int
      <4>1. n \in Nat
        BY <3>4, LongIsNumber
      <4>2. b \in Word
        BY <3>4
      <4> HIDE DEF b, n
      <4> QED
        BY <3>3, <4>1, <4>2, WordFacts
    <3> HIDE DEF b, n
    <3> DEFINE q == n \div b
               t == n % b
               x == n - t
    <3>7. q \in Int /\ t \in 0 .. b - 1 /\ n = b * q + t
      BY <3>6, Divided
    <3> HIDE DEF q, t
    <3>8. x \in Int /\ x = b * q + 0 /\ 0 \in 0 .. b - 1
      BY <3>6, <3>7
    <3> HIDE DEF x
    <3>9. x \div b = q /\ x % b = 0
      BY <3>6, <3>7, <3>8, UniqueQuotient
    <3>10. r[0] = t /\ r[1] = Wrap(q) /\ t < b
      BY <3>3, <3>6, <3>7 DEF q, t
    <3>11. r[4] + Modulus * r[5] - r[0] = x
      <4>1. (r[4] + Modulus * r[5]) - r[0] = x
        BY <3>5, <3>10 DEF x, t
      <4>2. r[4] \in Int /\ r[5] \in Int /\ r[0] \in Int /\ Modulus \in Int
        BY RegisterWords, WordFacts
      <4> DEFINE m == Modulus * r[5]
      <4>3. m \in Int
        BY <4>2
      <4> HIDE DEF m
      <4>4. r[4] + m - r[0] = (r[4] + m) - r[0]
        BY <4>2, <4>3
      <4> QED
        BY <4>1, <4>4 DEF m
    <3>12. was(0) = b
      BY DEF was, b
    <3>13. r[0] < was(0)
      BY <3>10, <3>12
    <3>14. (r[4] + Modulus * r[5] - r[0]) % was(0) = 0
      BY <3>9, <3>11, <3>12
    <3>15. ((r[4] + Modulus * r[5] - r[0]) \div was(0)) % Modulus = r[1]
      BY <3>9, <3>10, <3>11, <3>12 DEF Wrap
    <3> QED
      BY <3>13, <3>14, <3>15
  <2>7. ASSUME halted, program \in {Product, ProductInPlace, QuotientByHalf} PROVE was(0) = 0
    <3>1. CASE program = Product
      <4>1. Len(program.code) = 2
        BY <2>1, <3>1
      <4>2. pc \in 1 .. 3 /\ pc # 1
        BY <2>7, <4>1 DEF IInv, Started
      <4>3. pc = 2 \/ pc = 3
        BY <4>2
      <4> QED
        BY <2>7, <3>1, <4>3 DEF ProductState, was
    <3>2. CASE program = ProductInPlace
      <4>1. Len(program.code) = 3
        BY <2>1, <3>2
      <4>2. pc \in 1 .. 4 /\ pc # 1
        BY <2>7, <4>1 DEF IInv, Started
      <4>3. pc = 2 \/ pc = 3 \/ pc = 4
        BY <4>2
      <4> QED
        BY <2>7, <3>2, <4>3 DEF ProductState, was
    <3>3. CASE program = QuotientByHalf
      <4>1. Len(program.code) = 2
        BY <2>1, <3>3
      <4>2. pc \in 1 .. 3 /\ pc # 1
        BY <2>7, <4>1 DEF IInv, Started
      <4>3. pc = 2 \/ pc = 3
        BY <4>2
      <4> QED
        BY <2>7, <3>3, <4>3 DEF LongState, was
    <3> QED
      BY <2>7, <3>1, <3>2, <3>3
  <2>8. ASSUME halted, program = LongQuotient PROVE was(2) = 0
    <3>1. Len(program.code) = 4
      BY <2>1, <2>8
    <3>2. pc \in 1 .. 5 /\ pc # 1
      BY <2>8, <3>1 DEF IInv, Started
    <3>3. pc = 2 \/ pc = 3 \/ pc = 4 \/ pc = 5
      BY <3>2
    <3> QED
      BY <2>8, <3>3 DEF LongState, was
  <2> QED
    BY <2>3, <2>4, <2>5, <2>6, <2>7, <2>8 DEF LongDivision
<1> QED
  BY <1>1, <1>2, LongStep, Invariant, PTL DEF Spec

-------------------------------------------------------------------------------
(* Shifts as divisions.                                                      *)

\* The width of a word is far less than its half range.
LEMMA WidthFits == Width <= Modulus \div 2 /\ Width \in Word
<1>1. Width - 1 \in Nat /\ Width \in Nat
  BY WordFacts
<1>2. Width - 1 < bitPositions[Width - 1] /\ bitPositions[Width - 1] \in Nat
  BY <1>1, NumberBelowPower, PowerPositive
<1>3. Width <= Modulus \div 2
  BY <1>1, <1>2, WordFacts
<1>4. Modulus = 2 * (Modulus \div 2) /\ Modulus \div 2 \in Nat
  BY HalfModulus
<1>5. Width < Modulus
  BY <1>1, <1>3, <1>4, HalfModulus
<1> QED
  BY <1>1, <1>3, <1>5, ByteFacts

LEMMA InPositions ==
  ASSUME NEW n \in Word, n < Width
  PROVE  n \in Positions /\ ~(n >= Width) /\ n \in Int
BY WordFacts DEF Positions

\* A value less what shri and shli together leave of it.
LEMMA ShiftedOut ==
  ASSUME NEW a \in Word, NEW k \in Positions
  PROVE  LET p == bitPositions[k]
             n == Integer(a)
         IN Wrap(a - Wrap(Wrap(n \div p) * p)) = n % p /\ n % p < p
<1> DEFINE p == bitPositions[k]
           n == Integer(a)
           q == n \div p
           t == n % p
<1>1. p \in Word /\ p \in Nat /\ p > 0
  BY PowerBits, PowerPositive, WordFacts
<1>2. n \in Int /\ Wrap(n) = a
  BY IntegerRange
<1> HIDE DEF p, n
<1>3. q \in Int /\ t \in 0 .. p - 1 /\ n = p * q + t
  BY <1>1, <1>2, Divided
<1> HIDE DEF q, t
<1>4. q * p \in Int /\ t \in Int /\ n - q * p = t
  BY <1>1, <1>3
<1>5. Wrap(Wrap(q) * p) = Wrap(q * p)
  BY <1>1, <1>3, WrapInside
<1>6. Wrap(a - Wrap(q * p)) = Wrap(n - q * p)
  <2> DEFINE x == q * p
  <2>1. x \in Int /\ a \in Int
    BY <1>4, WordFacts
  <2> HIDE DEF x
  <2>2. Wrap(a - Wrap(x)) = Wrap(a - x)
    BY <2>1, WrapInside
  <2>3. Wrap(n) + (-x) = a - x /\ n + (-x) = n - x /\ -x \in Int
    BY <1>2, <2>1
  <2>4. Wrap(Wrap(n) + (-x)) = Wrap(n + (-x))
    BY <1>2, <2>3, WrapInside
  <2> QED
    BY <2>2, <2>3, <2>4 DEF x
<1>7. t \in Word
  BY <1>1, <1>3, ByteFacts
<1>8. Wrap(t) = t
  BY <1>7, WrapOfWord
<1> QED
  BY <1>1, <1>3, <1>4, <1>5, <1>6, <1>8 DEF p, n, q, t

\* The word shri leaves, and the one that is divided by a shifted one.
Shifted == Wrap(Integer(start.r[1]) \div bitPositions[start.r[0]])
ByPower == Wrap(Quotient(Integer(start.r[1]), Integer(bitPositions[start.r[0]])))

ShiftState ==
  start.r[0] < Width =>
    /\ program = ShiftRight =>
         /\ pc = 2 => r = [start.r EXCEPT ![2] = Shifted]
         /\ pc = 3 => r = [start.r EXCEPT ![2] = Wrap(Shifted * bitPositions[start.r[0]])]
         /\ pc = 4 => r[2] < bitPositions[start.r[0]]
    /\ program = ShiftDivide =>
         /\ pc = 2 => r = [start.r EXCEPT ![2] = bitPositions[start.r[0]]]
         /\ pc = 3 => r = [start.r EXCEPT ![2] = bitPositions[start.r[0]], ![3] = ByPower]
         /\ pc = 4 => r[2] = r[3]

LEMMA ShiftRightStep ==
  ASSUME IInv, Next, ShiftState, program = ShiftRight, start.r[0] < Width
  PROVE  ShiftState'
<1>1. /\ Len(program.code) = 3 /\ ShiftRight # ShiftDivide
      /\ program.code[1] = T("Integer", "ShiftRight", 0, 1, 2)
      /\ program.code[2] = T("Integer", "ShiftLeft", 0, 2, 2)
      /\ program.code[3] = I("Subtract", 2, 1, 2)
  BY DEF ShiftRight, ShiftDivide, Program, I, T
<1>2. /\ pc \in 1 .. 3 /\ pc' = pc + 1 /\ program' = program /\ start' = start
      /\ program.code[pc] \in Instruction /\ Execute(program.code[pc])
  BY <1>1, StepExecutes
<1>3. Registers = 0 .. 7 /\ start.r \in [Registers -> Word] /\ r \in [Registers -> Word]
  BY RegisterWords
<1> DEFINE k == start.r[0]
           a == start.r[1]
           p == bitPositions[k]
<1>4. k \in Positions /\ a \in Word /\ ~(k >= Width) /\ k \in Int
  <2>1. k \in Word /\ a \in Word /\ k < Width
    BY <1>3
  <2> HIDE DEF k, a
  <2> QED
    BY <2>1, InPositions
<1>5. p \in Word /\ p \in Nat /\ p > 0
  BY <1>4, PowerBits, PowerPositive, WordFacts
<1>6. Shifted' = Shifted /\ Shifted \in Word /\ Shifted = Wrap(Integer(a) \div p)
  <2>1. Integer(a) \div p \in Int
    BY <1>4, <1>5, IntegerRange, Divided
  <2> QED
    BY <1>2, <2>1, WrapIsWord DEF Shifted
<1>7. CASE pc = 1
  <2> DEFINE i == program.code[1]
  <2>1. i.op = "ShiftRight" /\ i.type = "Integer" /\ i.src1 = 0 /\ i.src2 = 1 /\ i.dest = 2
        /\ i \in Instruction /\ Execute(i)
    BY <1>1, <1>2, <1>7 DEF T
  <2> HIDE DEF i
  <2>2. r = start.r
    BY <1>7 DEF IInv, Started
  <2>3. Src1(i) = k /\ Src2(i) = a
    BY <1>3, <2>1, <2>2, OperandValues DEF Src1, Src2
  <2>4. arithmeticOp(i.op, i.type, Src2(i), Src1(i)) = {Shifted}
    BY <1>4, <1>6, <2>1, <2>3 DEF arithmeticOp, As
  <2>5. r' = [start.r EXCEPT ![2] = Shifted]
    BY <1>6, <2>1, <2>2, <2>4, ArithmeticDone DEF ArithmeticOps
  <2> QED
    BY <1>1, <1>2, <1>6, <1>7, <2>5 DEF ShiftState
<1>8. CASE pc = 2
  <2> DEFINE i == program.code[2]
             v == Wrap(Shifted * p)
  <2>1. i.op = "ShiftLeft" /\ i.type = "Integer" /\ i.src1 = 0 /\ i.src2 = 2 /\ i.dest = 2
        /\ i \in Instruction /\ Execute(i)
    BY <1>1, <1>2, <1>8 DEF T
  <2> HIDE DEF i
  <2>2. r = [start.r EXCEPT ![2] = Shifted]
    BY <1>8 DEF ShiftState
  <2>3. Src1(i) = k /\ Src2(i) = Shifted
    BY <1>3, <2>1, <2>2, OperandValues DEF Src1, Src2
  <2>4. arithmeticOp(i.op, i.type, Src2(i), Src1(i)) = {v}
    BY <1>4, <2>1, <2>3 DEF arithmeticOp
  <2>5. v \in Word
    <3>1. Shifted \in Int
      BY <1>6, WordFacts
    <3>2. Shifted * p \in Int
      BY <1>5, <3>1
    <3> QED
      BY <3>2, WrapIsWord
  <2> HIDE DEF v
  <2>6. r' = [r EXCEPT ![2] = v]
    BY <2>1, <2>4, <2>5, ArithmeticDone DEF ArithmeticOps
  <2>7. r' = [start.r EXCEPT ![2] = v]
    BY <2>2, <2>6
  <2> QED
    BY <1>1, <1>2, <1>6, <1>8, <2>7 DEF ShiftState, v
<1>9. CASE pc = 3
  <2> DEFINE i == program.code[3]
             x == Wrap(Shifted * p)
             t == Integer(a) % p
  <2>1. i.op = "Subtract" /\ i.type = "Ordinal" /\ i.src1 = 2 /\ i.src2 = 1 /\ i.dest = 2
        /\ i \in Instruction /\ Execute(i)
    BY <1>1, <1>2, <1>9 DEF I
  <2> HIDE DEF i
  <2>2. r = [start.r EXCEPT ![2] = x]
    BY <1>9 DEF ShiftState
  <2>3. Src1(i) = x /\ Src2(i) = a
    BY <1>3, <2>1, <2>2, OperandValues DEF Src1, Src2
  <2>4. Wrap(a - x) = t /\ t < p
    BY <1>4, <1>6, ShiftedOut
  <2> HIDE DEF x, t
  <2>5. arithmeticOp(i.op, i.type, Src2(i), Src1(i)) = {t}
    BY <2>1, <2>3, <2>4 DEF arithmeticOp, As
  <2>6. t \in Word
    <3>1. t \in 0 .. p - 1
      BY <1>4, <1>5, IntegerRange, Divided DEF t
    <3> QED
      BY <1>5, <3>1, ByteFacts
  <2>7. r' = [r EXCEPT ![2] = t]
    BY <2>1, <2>5, <2>6, ArithmeticDone DEF ArithmeticOps
  <2>8. r'[2] < p
    BY <1>3, <2>4, <2>7
  <2> QED
    BY <1>1, <1>2, <1>9, <2>8 DEF ShiftState
<1> QED
  BY <1>2, <1>7, <1>8, <1>9

LEMMA ShiftDivideStep ==
  ASSUME IInv, Next, ShiftState, program = ShiftDivide, start.r[0] < Width
  PROVE  ShiftState'
<1>1. /\ Len(program.code) = 3 /\ ShiftRight # ShiftDivide
      /\ program.code[1] = I("shlo", 0, Lit(1), 2)
      /\ program.code[2] = T("Integer", "Divide", 2, 1, 3)
      /\ program.code[3] = I("shrdi", 0, 1, 2)
  BY DEF ShiftRight, ShiftDivide, Program, I, T
<1>2. /\ pc \in 1 .. 3 /\ pc' = pc + 1 /\ program' = program /\ start' = start
      /\ program.code[pc] \in Instruction /\ Execute(program.code[pc])
  BY <1>1, StepExecutes
<1>3. Registers = 0 .. 7 /\ start.r \in [Registers -> Word] /\ r \in [Registers -> Word]
  BY RegisterWords
<1> DEFINE k == start.r[0]
           a == start.r[1]
           p == bitPositions[k]
<1>4. k \in Positions /\ a \in Word /\ ~(k >= Width) /\ k \in Int
  <2>1. k \in Word /\ a \in Word /\ k < Width
    BY <1>3
  <2> HIDE DEF k, a
  <2> QED
    BY <2>1, InPositions
<1>5. p \in Word /\ p \in Nat /\ p > 0
  BY <1>4, PowerBits, PowerPositive, WordFacts
<1>6. ByPower' = ByPower /\ ByPower \in Word
      /\ ByPower = Wrap(Quotient(Integer(a), Integer(p)))
  <2>1. Quotient(Integer(a), Integer(p)) \in Int
    <3>1. p # 0
      BY <1>5
    <3> HIDE DEF a, p
    <3>2. Integer(a) \in Int /\ Integer(p) \in Int /\ Integer(p) # 0
      BY <1>4, <1>5, <3>1, IntegerZero, IntegerIsNumber
    <3> QED
      BY <3>2, QuotientIsNumber
  <2> QED
    BY <1>2, <2>1, WrapIsWord DEF ByPower
<1>7. CASE pc = 1
  <2> DEFINE i == program.code[1]
  <2>1. i.op = "shlo" /\ i.src1 = 0 /\ i.src2 = Lit(1) /\ i.dest = 2
        /\ i \in Instruction /\ Execute(i)
    BY <1>1, <1>2, <1>7 DEF I
  <2> HIDE DEF i
  <2>2. r = start.r
    BY <1>7 DEF IInv, Started
  <2>3. 1 \in Word
    BY ByteFacts, WordFacts
  <2>4. Src1(i) = k /\ Src2(i) = 1
    BY <1>3, <2>1, <2>2, <2>3, OperandValues DEF Src1, Src2
  <2>5. shxo("shlo", 1, k) = p
    <3>1. shxo("shlo", 1, k) = Wrap(1 * p)
      BY <1>4 DEF shxo
    <3>2. 1 * p = p
      BY <1>5
    <3> QED
      BY <1>5, <3>1, <3>2, WrapOfWord
  <2>6. i.op \in OneResult /\ Results(i) = {p}
    BY <2>1, <2>4, <2>5 DEF Results, OneResult, LogicalOps, ArithmeticOps
  <2>7. r' = [start.r EXCEPT ![2] = p]
    BY <1>5, <2>1, <2>2, <2>6, Computed
  <2> QED
    BY <1>1, <1>2, <1>7, <2>7 DEF ShiftState
<1>8. CASE pc = 2
  <2> DEFINE i == program.code[2]
  <2>1. i.op = "Divide" /\ i.type = "Integer" /\ i.src1 = 2 /\ i.src2 = 1 /\ i.dest = 3
        /\ i \in Instruction /\ Execute(i)
    BY <1>1, <1>2, <1>8 DEF T
  <2> HIDE DEF i
  <2>2. r = [start.r EXCEPT ![2] = p]
    BY <1>8 DEF ShiftState
  <2>3. Src1(i) = p /\ Src2(i) = a
    BY <1>3, <2>1, <2>2, OperandValues DEF Src1, Src2
  <2>4. p # 0
    BY <1>5
  <2>5. r' = [r EXCEPT ![3] = ByPower]
    BY <1>6, <2>1, <2>3, <2>4, DivisionDone DEF As
  <2>6. r' = [start.r EXCEPT ![2] = p, ![3] = ByPower]
    BY <2>2, <2>5
  <2> QED
    BY <1>1, <1>2, <1>6, <1>8, <2>6 DEF ShiftState
<1>9. CASE pc = 3
  <2> DEFINE i == program.code[3]
  <2>1. i.op = "shrdi" /\ i.src1 = 0 /\ i.src2 = 1 /\ i.dest = 2 /\ i \in Instruction /\ Execute(i)
    BY <1>1, <1>2, <1>9 DEF I
  <2> HIDE DEF i
  <2>2. r = [start.r EXCEPT ![2] = p, ![3] = ByPower]
    BY <1>9 DEF ShiftState
  <2>3. Src1(i) = k /\ Src2(i) = a
    BY <1>3, <2>1, <2>2, OperandValues DEF Src1, Src2
  <2>4. ~Negative(k)
    BY <1>4, WidthFits, HalfModulus, WordFacts DEF Negative
  <2>5. shrdi(a, k) = {ByPower}
    BY <1>4, <1>6, <2>4 DEF shrdi
  <2>6. i.op \in OneResult /\ Results(i) = {ByPower}
    BY <2>1, <2>3, <2>5 DEF Results, OneResult, LogicalOps, ArithmeticOps
  <2>7. r' = [r EXCEPT ![2] = ByPower]
    BY <1>6, <2>1, <2>6, Computed
  <2>8. r'[2] = ByPower /\ r'[3] = ByPower
    BY <1>3, <2>2, <2>7
  <2> QED
    BY <1>1, <1>2, <1>9, <2>8 DEF ShiftState
<1> QED
  BY <1>2, <1>7, <1>8, <1>9

LEMMA ShiftStep == IInv /\ ShiftState /\ [Next]_vars => ShiftState'
<1>1. ASSUME IInv, ShiftState, UNCHANGED vars PROVE ShiftState'
  BY <1>1 DEF vars, ShiftState, Shifted, ByPower
<1>2. ASSUME IInv, ShiftState, Next,
             program \notin {ShiftRight, ShiftDivide} \/ ~(start.r[0] < Width)
      PROVE ShiftState'
  BY <1>2, StepExecutes DEF ShiftState
<1> QED
  BY <1>1, <1>2, ShiftRightStep, ShiftDivideStep

\* What shri and shli leave of a value is its rest, less than the power of two
\* (Core.h:483-497); shrdi is the division by the word that shlo makes of one
\* (Core.cc:787-798).
THEOREM ShiftsCorrect == Spec => []ShiftsDivide
<1>1. Init => ShiftState
  BY DEF Init, ShiftState
<1>2. IInv /\ ShiftState => ShiftsDivide
  <2> SUFFICES ASSUME IInv, ShiftState PROVE ShiftsDivide
    OBVIOUS
  <2>1. Len(ShiftRight.code) = 3 /\ Len(ShiftDivide.code) = 3
    BY DEF ShiftRight, ShiftDivide, Program
  <2>2. \A p : Done({p}) => program = p /\ pc = Len(p.code) + 1
    BY DEF Done
  <2>3. ASSUME Done({ShiftRight}), was(0) < Width PROVE r[2] < bitPositions[was(0)]
    <3>1. program = ShiftRight /\ pc = Len(ShiftRight.code) + 1
      BY <2>2, <2>3
    <3>2. pc = 4
      BY <2>1, <3>1
    <3> QED
      BY <2>3, <3>1, <3>2 DEF ShiftState, was
  <2>4. ASSUME Done({ShiftDivide}), was(0) < Width PROVE r[2] = r[3]
    <3>1. program = ShiftDivide /\ pc = Len(ShiftDivide.code) + 1
      BY <2>2, <2>4
    <3>2. pc = 4
      BY <2>1, <3>1
    <3> QED
      BY <2>4, <3>1, <3>2 DEF ShiftState, was
  <2> QED
    BY <2>3, <2>4 DEF ShiftsDivide
<1> QED
  BY <1>1, <1>2, ShiftStep, Invariant, PTL DEF Spec

-------------------------------------------------------------------------------
(* Single bits.                                                              *)

LEMMA ChangedBits ==
  ASSUME NEW a \in Word, NEW pos \in Word
  PROVE  LET k == pos % Width
         IN /\ k \in Positions
            /\ setbit(a, pos) \in Word /\ BitsOf(setbit(a, pos)) = BitsOf(a) \union {k}
            /\ clrbit(a, pos) \in Word /\ BitsOf(clrbit(a, pos)) = BitsOf(a) \ {k}
            /\ notbit(a, pos) \in Word
            /\ BitsOf(notbit(a, pos)) = (BitsOf(a) \ {k}) \union ({k} \ BitsOf(a))
            /\ clrbit(a, pos) = And(a, Complement(bitPositions[k]))
<1> DEFINE k == pos % Width
           p == bitPositions[k]
<1>1. k \in Positions /\ getBitPosition(pos) = p
  BY BitPositionIsWord DEF getBitPosition
<1> HIDE DEF k
<1>2. p \in Word /\ BitsOf(p) = {k}
  BY <1>1, PowerBits
<1> HIDE DEF p
<1>3. Complement(p) \in Word /\ BitsOf(Complement(p)) = Positions \ {k}
  BY <1>2, ComplementBits
<1>4. a \in Int /\ p \in Int /\ Complement(p) \in Int
  BY <1>2, <1>3, WordFacts
<1>5. BitsOf(a) \subseteq Positions
  BY DEF BitsOf
<1>6. setbit(a, pos) = Or(a, p) /\ clrbit(a, pos) = And(a, Complement(p)) /\ notbit(a, pos) = Xor(a, p)
  BY <1>1 DEF setbit, clrbit, notbit
<1>7. Or(a, p) \in Word /\ BitsOf(Or(a, p)) = BitsOf(a) \union {k}
  BY <1>2, <1>4, BitwiseBits
<1>8. And(a, Complement(p)) \in Word /\ BitsOf(And(a, Complement(p))) = BitsOf(a) \ {k}
  BY <1>3, <1>4, <1>5, BitwiseBits
<1>9. Xor(a, p) \in Word /\ BitsOf(Xor(a, p)) = (BitsOf(a) \ {k}) \union ({k} \ BitsOf(a))
  BY <1>2, <1>4, BitwiseBits
<1> QED
  BY <1>1, <1>6, <1>7, <1>8, <1>9 DEF k, p

\* A bit set or cleared leaves the same word without it.
LEMMA OtherBitsStay ==
  ASSUME NEW a \in Word, NEW pos \in Word, NEW b \in {setbit(a, pos), clrbit(a, pos)}
  PROVE  LET k == pos % Width
         IN b - Bit(b, k) * bitPositions[k] = a - Bit(a, k) * bitPositions[k]
<1> DEFINE k == pos % Width
           p == bitPositions[k]
           x == And(a, Complement(p))
           y == And(b, Complement(p))
<1>1. k \in Positions /\ b \in Word /\ BitsOf(b) \ {k} = BitsOf(a) \ {k}
  BY ChangedBits
<1> HIDE DEF k
<1>2. x = a - Bit(a, k) * p /\ y = b - Bit(b, k) * p
  BY <1>1, WithoutBit
<1>3. p \in Word /\ Complement(p) \in Word /\ BitsOf(Complement(p)) = Positions \ {k}
  BY <1>1, PowerBits, ComplementBits
<1> HIDE DEF p
<1>4. a \in Int /\ b \in Int /\ Complement(p) \in Int
  BY <1>1, <1>3, WordFacts
<1>5. x \in Word /\ BitsOf(x) = BitsOf(a) \intersect (Positions \ {k})
  BY <1>3, <1>4, BitwiseBits
<1>6. y \in Word /\ BitsOf(y) = BitsOf(b) \intersect (Positions \ {k})
  BY <1>3, <1>4, BitwiseBits
<1> HIDE DEF x, y
<1>7. BitsOf(x) = BitsOf(y)
  BY <1>1, <1>5, <1>6
<1>8. x = y
  BY <1>5, <1>6, <1>7, EqualBits
<1> QED
  BY <1>2, <1>8 DEF k, p

LEMMA CheckDone ==
  ASSUME IInv, NEW i \in Instruction, Execute(i), i.op = "chkbit"
  PROVE  /\ ac' % 8 = (IF Bit(Src2(i), Src1(i) % Width) = 1 THEN 2 ELSE 0)
         /\ r' = r /\ halted' = halted
<1> DEFINE k == Src1(i) % Width
           p == bitPositions[k]
           a == Src2(i)
<1>1. chkbit(i)
  BY HandlerOf DEF OneResult, LogicalOps, ArithmeticOps
<1>2. Src1(i) \in Word /\ a \in Word
  BY OperandsAreWords, RegisterWords
<1>3. k \in Positions /\ getBitPosition(Src1(i)) = p
  BY <1>2, BitPositionIsWord DEF getBitPosition
<1>4. setConditionCode(IF And(a, p) = 0 THEN 0 ELSE 2)
  BY <1>1, <1>3 DEF chkbit
<1> HIDE DEF k, a
<1>5. p \in Word /\ BitsOf(p) = {k}
  BY <1>3, PowerBits
<1> HIDE DEF p
<1>6. And(a, p) \in Word /\ BitsOf(And(a, p)) = BitsOf(a) \intersect {k}
  <2>1. a \in Int /\ p \in Int
    BY <1>2, <1>5, WordFacts
  <2> QED
    BY <1>5, <2>1, BitwiseBits
<1>7. And(a, p) = 0 <=> BitsOf(And(a, p)) = {}
  <2>1. 0 \in Word
    BY ByteFacts
  <2> QED
    BY <1>6, <2>1, ZeroBits, EqualBits
<1>8. k \in BitsOf(a) <=> Bit(a, k) = 1
  BY <1>3 DEF BitsOf
<1>9. setConditionCode(IF Bit(a, k) = 1 THEN 2 ELSE 0)
  BY <1>4, <1>6, <1>7, <1>8
<1>10. (IF Bit(a, k) = 1 THEN 2 ELSE 0) \in 0 .. 7
  OBVIOUS
<1>11. ac' % 8 = IF Bit(a, k) = 1 THEN 2 ELSE 0
  <2> DEFINE v == IF Bit(a, k) = 1 THEN 2 ELSE 0
  <2>1. v \in 0 .. 7 /\ setConditionCode(v)
    BY <1>9, <1>10
  <2> HIDE DEF v
  <2>2. ac' % 8 = v
    BY <2>1, RegisterWords, SetCode
  <2> QED
    BY <2>2 DEF v
<1> QED
  BY <1>1, <1>11 DEF chkbit, k, a

CopyBitState ==
  program = CopyBit =>
    LET set == Bit(start.r[1], start.r[0] % Width) = 1
    IN /\ pc = 2 => r = start.r /\ ac % 8 = (IF set THEN 2 ELSE 0)
       /\ pc = 3 => r[2] = IF set THEN setbit(start.r[2], start.r[0])
                                  ELSE clrbit(start.r[2], start.r[0])

LEMMA CopyBitStep ==
  ASSUME IInv, Next, CopyBitState
  PROVE  CopyBitState'
<1>1. SUFFICES ASSUME program = CopyBit PROVE CopyBitState'
  BY StepExecutes DEF CopyBitState
<1>2. /\ Len(program.code) = 2
      /\ program.code[1] = I("chkbit", 0, 1, 7) /\ program.code[2] = I("alterbit", 0, 2, 2)
  BY <1>1 DEF CopyBit, Program, I
<1>3. /\ pc \in 1 .. 2 /\ pc' = pc + 1 /\ program' = program /\ start' = start
      /\ program.code[pc] \in Instruction /\ Execute(program.code[pc])
  BY <1>2, StepExecutes
<1>4. Registers = 0 .. 7 /\ start.r \in [Registers -> Word] /\ r \in [Registers -> Word]
  BY RegisterWords
<1> DEFINE set == Bit(start.r[1], start.r[0] % Width) = 1
           v == IF set THEN setbit(start.r[2], start.r[0]) ELSE clrbit(start.r[2], start.r[0])
<1>5. set' = set /\ v' = v /\ v \in Word
  <2>1. start.r[0] \in Word /\ start.r[2] \in Word
    BY <1>4
  <2>2. setbit(start.r[2], start.r[0]) \in Word /\ clrbit(start.r[2], start.r[0]) \in Word
    BY <2>1, BitChangesAreWords
  <2>3. v \in Word
    BY <2>2
  <2>4. set' = set /\ v' = v
    BY <1>3 DEF setbit, clrbit, getBitPosition
  <2> QED
    BY <2>3, <2>4
<1>6. CASE pc = 1
  <2> DEFINE i == program.code[1]
  <2>1. i.op = "chkbit" /\ i.src1 = 0 /\ i.src2 = 1 /\ i \in Instruction /\ Execute(i)
    BY <1>2, <1>3, <1>6 DEF I
  <2> HIDE DEF i
  <2>2. r = start.r
    BY <1>6 DEF IInv, Started
  <2>3. Src1(i) = start.r[0] /\ Src2(i) = start.r[1]
    BY <1>4, <2>1, <2>2, OperandValues DEF Src1, Src2
  <2>4. r' = start.r /\ ac' % 8 = IF set THEN 2 ELSE 0
    BY <2>1, <2>2, <2>3, CheckDone
  <2> HIDE DEF set
  <2> QED
    BY <1>1, <1>3, <1>5, <1>6, <2>4 DEF CopyBitState, set
<1>7. CASE pc = 2
  <2> DEFINE i == program.code[2]
  <2>1. i.op = "alterbit" /\ i.src1 = 0 /\ i.src2 = 2 /\ i.dest = 2
        /\ i \in Instruction /\ Execute(i)
    BY <1>2, <1>3, <1>7 DEF I
  <2> HIDE DEF i
  <2>2. r = start.r /\ ac % 8 = IF set THEN 2 ELSE 0
    BY <1>1, <1>7 DEF CopyBitState
  <2>3. Src1(i) = start.r[0] /\ Src2(i) = start.r[2]
    BY <1>4, <2>1, <2>2, OperandValues DEF Src1, Src2
  <2>4. Bit(getConditionCode, 1) = 1 <=> set
    <3> HIDE DEF set
    <3>1. Bit(getConditionCode, 1) = ((ac % 8) \div 2) % 2
      BY SmallPowers DEF Bit, getConditionCode
    <3> QED
      BY <2>2, <3>1
  <2>5. alterbit(start.r[2], start.r[0]) = v
    <3> HIDE DEF set
    <3> QED
      BY <2>4 DEF alterbit
  <2> HIDE DEF v, set
  <2>6. i.op \in OneResult /\ Results(i) = {v}
    BY <2>1, <2>3, <2>5 DEF Results, OneResult, LogicalOps, ArithmeticOps
  <2>7. r' = [r EXCEPT ![2] = v]
    BY <1>5, <2>1, <2>6, Computed
  <2>8. r'[2] = v
    BY <1>4, <2>7
  <2>9. r'[2] = v'
    BY <1>5, <2>8
  <2> QED
    BY <1>1, <1>3, <1>7, <2>9 DEF CopyBitState, v, set
<1> QED
  BY <1>3, <1>6, <1>7

\* What setbit and clrbit differ in, and what notbit changes.
LEMMA FlippedBit ==
  ASSUME NEW a \in Word, NEW pos \in Word
  PROVE  /\ Xor(clrbit(a, pos), setbit(a, pos)) = bitPositions[pos % Width]
         /\ Xor(a, notbit(a, pos)) = bitPositions[pos % Width]
         /\ bitPositions[pos % Width] \in Word
<1> DEFINE k == pos % Width
           s == setbit(a, pos)
           c == clrbit(a, pos)
           n == notbit(a, pos)
<1>1. /\ k \in Positions /\ s \in Word /\ c \in Word /\ n \in Word
      /\ BitsOf(s) = BitsOf(a) \union {k} /\ BitsOf(c) = BitsOf(a) \ {k}
      /\ BitsOf(n) = (BitsOf(a) \ {k}) \union ({k} \ BitsOf(a))
  BY ChangedBits
<1> HIDE DEF k, s, c, n
<1>2. bitPositions[k] \in Word /\ BitsOf(bitPositions[k]) = {k}
  BY <1>1, PowerBits
<1>3. a \in Int /\ s \in Int /\ c \in Int /\ n \in Int
  BY <1>1, WordFacts
<1>4. Xor(c, s) \in Word /\ BitsOf(Xor(c, s)) = {k}
  <2>1. Xor(c, s) \in Word
        /\ BitsOf(Xor(c, s)) = (BitsOf(c) \ BitsOf(s)) \union (BitsOf(s) \ BitsOf(c))
    BY <1>3, BitwiseBits
  <2> QED
    BY <1>1, <2>1
<1>5. Xor(a, n) \in Word /\ BitsOf(Xor(a, n)) = {k}
  <2>1. Xor(a, n) \in Word
        /\ BitsOf(Xor(a, n)) = (BitsOf(a) \ BitsOf(n)) \union (BitsOf(n) \ BitsOf(a))
    BY <1>3, BitwiseBits
  <2> QED
    BY <1>1, <2>1
<1>6. Xor(c, s) = bitPositions[k] /\ Xor(a, n) = bitPositions[k]
  BY <1>2, <1>4, <1>5, EqualBits
<1> QED
  BY <1>2, <1>6 DEF k, s, c, n

LEMMA LogicalDone ==
  ASSUME NEW i, i.op \in LogicalOps
  PROVE  i.op \in OneResult /\ Results(i) = {logicalOp(i.op, Src2(i), Src1(i))}
<1>1. i.op \in OneResult
  BY DEF OneResult
<1>2. Results(i) = {logicalOp(i.op, Src2(i), Src1(i))}
  BY DEF Results, ArithmeticOps, LogicalOps
<1> QED
  BY <1>1, <1>2

LEMMA XorResult ==
  ASSUME NEW i, i.op = "Xor"
  PROVE  i.op \in OneResult /\ Results(i) = {Xor(Src2(i), Src1(i))}
<1>1. i.op \in LogicalOps /\ logicalOp(i.op, Src2(i), Src1(i)) = Xor(Src2(i), Src1(i))
  BY DEF LogicalOps, logicalOp
<1> QED
  BY <1>1, LogicalDone

LEMMA AndResult ==
  ASSUME NEW i, i.op = "And"
  PROVE  i.op \in OneResult /\ Results(i) = {And(Src2(i), Src1(i))}
<1>1. i.op \in LogicalOps /\ logicalOp(i.op, Src2(i), Src1(i)) = And(Src2(i), Src1(i))
  BY DEF LogicalOps, logicalOp
<1> QED
  BY <1>1, LogicalDone

LEMMA OrResult ==
  ASSUME NEW i, i.op = "Or"
  PROVE  i.op \in OneResult /\ Results(i) = {Or(Src2(i), Src1(i))}
<1>1. i.op \in LogicalOps /\ logicalOp(i.op, Src2(i), Src1(i)) = Or(Src2(i), Src1(i))
  BY DEF LogicalOps, logicalOp
<1> QED
  BY <1>1, LogicalDone

OneBitState ==
  program = OneBit =>
    LET s == setbit(start.r[1], start.r[0])
        c == clrbit(start.r[1], start.r[0])
        n == notbit(start.r[1], start.r[0])
        p == bitPositions[start.r[0] % Width]
    IN /\ pc = 2 => r = [start.r EXCEPT ![2] = s]
       /\ pc = 3 => r = [start.r EXCEPT ![2] = s, ![3] = c]
       /\ pc = 4 => r = [start.r EXCEPT ![2] = p, ![3] = c]
       /\ pc = 5 => r = [start.r EXCEPT ![2] = p, ![3] = n]
       /\ pc = 6 => r[2] = p /\ r[3] = p

LEMMA OneBitStep ==
  ASSUME IInv, Next, OneBitState
  PROVE  OneBitState'
<1>1. SUFFICES ASSUME program = OneBit PROVE OneBitState'
  BY StepExecutes DEF OneBitState
<1>2. /\ Len(program.code) = 5
      /\ program.code[1] = I("setbit", 0, 1, 2) /\ program.code[2] = I("clrbit", 0, 1, 3)
      /\ program.code[3] = I("Xor", 2, 3, 2) /\ program.code[4] = I("notbit", 0, 1, 3)
      /\ program.code[5] = I("Xor", 3, 1, 3)
  BY <1>1 DEF OneBit, Program, I
<1>3. /\ pc \in 1 .. 5 /\ pc' = pc + 1 /\ program' = program /\ start' = start
      /\ program.code[pc] \in Instruction /\ Execute(program.code[pc])
  BY <1>2, StepExecutes
<1>4. Registers = 0 .. 7 /\ start.r \in [Registers -> Word] /\ r \in [Registers -> Word]
  BY RegisterWords
<1> DEFINE k == start.r[0]
           a == start.r[1]
           s == setbit(a, k)
           c == clrbit(a, k)
           n == notbit(a, k)
           p == bitPositions[k % Width]
<1>5. k \in Word /\ a \in Word
  BY <1>4
<1>6. s' = s /\ c' = c /\ n' = n /\ p' = p
  BY <1>3 DEF setbit, clrbit, notbit, getBitPosition
<1>7. s \in Word /\ c \in Word /\ n \in Word /\ p \in Word
  <2> HIDE DEF k, a
  <2> QED
    BY <1>5, BitChangesAreWords, FlippedBit
<1>8. Xor(c, s) = p /\ Xor(a, n) = p
  <2> HIDE DEF k, a
  <2> QED
    BY <1>5, FlippedBit
<1> DEFINE Now == /\ pc = 2 => r = [start.r EXCEPT ![2] = s]
                  /\ pc = 3 => r = [start.r EXCEPT ![2] = s, ![3] = c]
                  /\ pc = 4 => r = [start.r EXCEPT ![2] = p, ![3] = c]
                  /\ pc = 5 => r = [start.r EXCEPT ![2] = p, ![3] = n]
           Then == /\ pc' = 2 => r' = [start.r EXCEPT ![2] = s]
                   /\ pc' = 3 => r' = [start.r EXCEPT ![2] = s, ![3] = c]
                   /\ pc' = 4 => r' = [start.r EXCEPT ![2] = p, ![3] = c]
                   /\ pc' = 5 => r' = [start.r EXCEPT ![2] = p, ![3] = n]
                   /\ pc' = 6 => r'[2] = p /\ r'[3] = p
<1>9. Now
  BY <1>1 DEF OneBitState
<1>10. SUFFICES Then
  BY <1>3, <1>6 DEF OneBitState
<1> HIDE DEF s, c, n, p
<1>11. CASE pc = 1
  <2> DEFINE i == program.code[1]
  <2>1. i.op = "setbit" /\ i.src1 = 0 /\ i.src2 = 1 /\ i.dest = 2 /\ i \in Instruction /\ Execute(i)
    BY <1>2, <1>3, <1>11 DEF I
  <2> HIDE DEF i
  <2>2. r = start.r
    BY <1>11 DEF IInv, Started
  <2>3. Src1(i) = k /\ Src2(i) = a
    BY <1>4, <2>1, <2>2, OperandValues DEF Src1, Src2
  <2>4. i.op \in OneResult /\ Results(i) = {s}
    BY <2>1, <2>3 DEF Results, OneResult, LogicalOps, ArithmeticOps, s
  <2>5. r' = [start.r EXCEPT ![2] = s]
    BY <1>7, <2>1, <2>2, <2>4, Computed
  <2> QED
    BY <1>3, <1>11, <2>5
<1>12. CASE pc = 2
  <2> DEFINE i == program.code[2]
  <2>1. i.op = "clrbit" /\ i.src1 = 0 /\ i.src2 = 1 /\ i.dest = 3 /\ i \in Instruction /\ Execute(i)
    BY <1>2, <1>3, <1>12 DEF I
  <2> HIDE DEF i
  <2>2. r = [start.r EXCEPT ![2] = s]
    BY <1>9, <1>12
  <2>3. Src1(i) = k /\ Src2(i) = a
    BY <1>4, <2>1, <2>2, OperandValues DEF Src1, Src2
  <2>4. i.op \in OneResult /\ Results(i) = {c}
    BY <2>1, <2>3 DEF Results, OneResult, LogicalOps, ArithmeticOps, c
  <2>5. r' = [r EXCEPT ![3] = c]
    BY <1>7, <2>1, <2>4, Computed
  <2>6. r' = [start.r EXCEPT ![2] = s, ![3] = c]
    BY <2>2, <2>5
  <2> QED
    BY <1>3, <1>12, <2>6
<1>13. CASE pc = 3
  <2> DEFINE i == program.code[3]
  <2>1. i.op = "Xor" /\ i.src1 = 2 /\ i.src2 = 3 /\ i.dest = 2 /\ i \in Instruction /\ Execute(i)
    BY <1>2, <1>3, <1>13 DEF I
  <2> HIDE DEF i
  <2>2. r = [start.r EXCEPT ![2] = s, ![3] = c]
    BY <1>9, <1>13
  <2>3. Src1(i) = s /\ Src2(i) = c
    BY <1>4, <2>1, <2>2, OperandValues DEF Src1, Src2
  <2>4. i.op \in OneResult /\ Results(i) = {p}
    BY <1>8, <2>1, <2>3, XorResult
  <2>5. r' = [r EXCEPT ![2] = p]
    BY <1>7, <2>1, <2>4, Computed
  <2>6. r' = [start.r EXCEPT ![2] = p, ![3] = c]
    BY <1>4, <2>2, <2>5
  <2> QED
    BY <1>3, <1>13, <2>6
<1>14. CASE pc = 4
  <2> DEFINE i == program.code[4]
  <2>1. i.op = "notbit" /\ i.src1 = 0 /\ i.src2 = 1 /\ i.dest = 3 /\ i \in Instruction /\ Execute(i)
    BY <1>2, <1>3, <1>14 DEF I
  <2> HIDE DEF i
  <2>2. r = [start.r EXCEPT ![2] = p, ![3] = c]
    BY <1>9, <1>14
  <2>3. Src1(i) = k /\ Src2(i) = a
    BY <1>4, <2>1, <2>2, OperandValues DEF Src1, Src2
  <2>4. i.op \in OneResult /\ Results(i) = {n}
    BY <2>1, <2>3 DEF Results, OneResult, LogicalOps, ArithmeticOps, n
  <2>5. r' = [r EXCEPT ![3] = n]
    BY <1>7, <2>1, <2>4, Computed
  <2>6. r' = [start.r EXCEPT ![2] = p, ![3] = n]
    BY <2>2, <2>5
  <2> QED
    BY <1>3, <1>14, <2>6
<1>15. CASE pc = 5
  <2> DEFINE i == program.code[5]
  <2>1. i.op = "Xor" /\ i.src1 = 3 /\ i.src2 = 1 /\ i.dest = 3 /\ i \in Instruction /\ Execute(i)
    BY <1>2, <1>3, <1>15 DEF I
  <2> HIDE DEF i
  <2>2. r = [start.r EXCEPT ![2] = p, ![3] = n]
    BY <1>9, <1>15
  <2>3. Src1(i) = n /\ Src2(i) = a
    BY <1>4, <2>1, <2>2, OperandValues DEF Src1, Src2
  <2>4. i.op \in OneResult /\ Results(i) = {p}
    BY <1>8, <2>1, <2>3, XorResult
  <2>5. r' = [r EXCEPT ![3] = p]
    BY <1>7, <2>1, <2>4, Computed
  <2>6. r'[2] = p /\ r'[3] = p
    BY <1>4, <2>2, <2>5
  <2> QED
    BY <1>3, <1>15, <2>6
<1> QED
  BY <1>3, <1>11, <1>12, <1>13, <1>14, <1>15

LEMMA PositionIsWord ==
  ASSUME NEW k \in Positions
  PROVE  k \in Nat /\ k < Width /\ k \in Word /\ k % Width = k
<1>1. k \in Nat /\ k < Width /\ Width \in Nat
  BY WordFacts DEF Positions
<1>2. Width <= Modulus /\ Modulus \in Nat
  BY HalfModulus, WidthFits, WordFacts
<1>3. k \in Word
  BY <1>1, <1>2, ByteFacts
<1> QED
  BY <1>1, <1>3

\* The highest bit of a word, as sxbit reports it.
Highest(a) ==
  IF BitsOf(a) = {} THEN AllOnes ELSE CHOOSE n \in BitsOf(a) : \A m \in BitsOf(a) : m <= n

LEMMA HighestPosition ==
  ASSUME NEW a \in Word
  PROVE  /\ Highest(a) \in Word
         /\ BitsOf(a) = {} <=> a = 0
         /\ a = 0 => Highest(a) = AllOnes
         /\ a # 0 => /\ Highest(a) \in Positions /\ Highest(a) % Width = Highest(a)
                     /\ a = bitPositions[Highest(a)] + clrbit(a, Highest(a))
                     /\ clrbit(a, Highest(a)) < bitPositions[Highest(a)]
<1> DEFINE S == BitsOf(a)
           k == Highest(a)
<1>1. S = {} <=> a = 0
  <2>1. 0 \in Word
    BY ByteFacts
  <2> QED
    BY <2>1, ZeroBits, EqualBits
<1>2. S \in SUBSET Positions
  BY DEF BitsOf
<1>3. CASE a = 0
  <2>1. k = AllOnes
    BY <1>1, <1>3 DEF Highest
  <2> QED
    BY <1>1, <1>3, <2>1, WordFacts
<1>4. CASE a # 0
  <2>1. k = CHOOSE n \in S : \A m \in S : m <= n
    BY <1>1, <1>4 DEF Highest
  <2> HIDE DEF k
  <2>2. k \in S /\ \A m \in S : m <= k
    <3> HIDE DEF S
    <3> QED
      BY <1>1, <1>2, <1>4, <2>1, LastPosition
  <2>3. k \in Positions
    BY <1>2, <2>2
  <2>4. k \in Word /\ k % Width = k
    BY <2>3, PositionIsWord
  <2>5. clrbit(a, k) = And(a, Complement(bitPositions[k]))
    BY <2>3, <2>4, ChangedBits
  <2>6. a = bitPositions[k] + clrbit(a, k) /\ clrbit(a, k) < bitPositions[k]
    BY <2>2, <2>5, HighestBit
  <2> QED
    BY <1>1, <1>4, <2>3, <2>4, <2>6 DEF k
<1> QED
  BY <1>3, <1>4

LEMMA ScanDone ==
  ASSUME IInv, NEW i \in Instruction, Execute(i), i.op \in {"scanbit", "spanbit"}, NEW a \in Word,
         Src1(i) = IF i.op = "scanbit" THEN a ELSE Complement(a)
  PROVE  /\ r' = [r EXCEPT ![i.dest] = Highest(a)] /\ halted' = halted
         /\ ac' % 8 = (IF a = 0 THEN 0 ELSE 2)
<1> DEFINE wanted == IF i.op = "scanbit" THEN 1 ELSE 0
           found == {n \in Positions : Bit(Src1(i), n) = wanted}
           v == IF a = 0 THEN 0 ELSE 2
<1>1. sxbit(i)
  BY HandlerOf DEF OneResult, LogicalOps, ArithmeticOps
<1>2. found = BitsOf(a)
  <2>1. CASE i.op = "scanbit"
    BY <2>1 DEF BitsOf
  <2>2. CASE i.op = "spanbit"
    <3> DEFINE x == Complement(a)
    <3>1. Src1(i) = x /\ wanted = 0
      BY <2>2
    <3>2. x \in Word /\ BitsOf(x) = Positions \ BitsOf(a)
      BY ComplementBits
    <3> HIDE DEF x
    <3>3. ASSUME NEW n \in Positions PROVE Bit(x, n) = 0 <=> n \in BitsOf(a)
      <4>1. n \in Nat
        BY WordFacts
      <4>2. Bit(x, n) = IF n \in BitsOf(x) THEN 1 ELSE 0
        BY <3>2, <4>1, BitOfWord
      <4> QED
        BY <3>2, <4>2
    <3>4. BitsOf(a) \subseteq Positions
      BY DEF BitsOf
    <3> QED
      BY <3>1, <3>3, <3>4
  <2> QED
    BY <2>1, <2>2
<1>3. /\ Highest(a) \in Word /\ (BitsOf(a) = {} <=> a = 0)
  BY HighestPosition
<1>4. setDestination(i, Highest(a)) /\ setConditionCode(v)
  BY <1>1, <1>2, <1>3 DEF sxbit, Highest
<1>5. ac' % 8 = v
  <2>1. v \in 0 .. 7
    OBVIOUS
  <2> HIDE DEF v
  <2> QED
    BY <1>4, <2>1, RegisterWords, SetCode
<1>6. Wrap(Highest(a)) = Highest(a)
  BY <1>3, WrapOfWord
<1>7. r' = [r EXCEPT ![i.dest] = Highest(a)]
  BY <1>4, <1>6 DEF setDestination
<1> QED
  BY <1>1, <1>5, <1>7 DEF sxbit

ScanState ==
  program = Scan =>
    LET a == start.r[0]
    IN /\ pc = 2 => r = [start.r EXCEPT ![3] = Complement(a)]
       /\ pc = 3 => r = [start.r EXCEPT ![3] = Complement(a), ![2] = Highest(a)]
       /\ pc = 4 => /\ r = [start.r EXCEPT ![3] = Complement(a), ![2] = Highest(a), ![1] = Highest(a)]
                    /\ ac % 8 = (IF a = 0 THEN 0 ELSE 2)
       /\ pc = 5 => /\ r[1] = Highest(a) /\ r[2] = Highest(a) /\ r[3] = clrbit(a, Highest(a))
                    /\ ac % 8 = (IF a = 0 THEN 0 ELSE 2)

LEMMA ScanStep ==
  ASSUME IInv, Next, ScanState
  PROVE  ScanState'
<1>1. SUFFICES ASSUME program = Scan PROVE ScanState'
  BY StepExecutes DEF ScanState
<1>2. /\ Len(program.code) = 4
      /\ program.code[1] = I("Not", 0, 0, 3) /\ program.code[2] = I("spanbit", 3, 0, 2)
      /\ program.code[3] = I("scanbit", 0, 0, 1) /\ program.code[4] = I("clrbit", 1, 0, 3)
  BY <1>1 DEF Scan, Program, I
<1>3. /\ pc \in 1 .. 4 /\ pc' = pc + 1 /\ program' = program /\ start' = start
      /\ program.code[pc] \in Instruction /\ Execute(program.code[pc])
  BY <1>2, StepExecutes
<1>4. Registers = 0 .. 7 /\ start.r \in [Registers -> Word] /\ r \in [Registers -> Word]
  BY RegisterWords
<1> DEFINE a == start.r[0]
           x == Complement(a)
           h == Highest(a)
           v == IF a = 0 THEN 0 ELSE 2
           c == clrbit(a, h)
<1>5. a \in Word
  BY <1>4
<1>6. a' = a /\ x' = x /\ h' = h /\ v' = v /\ c' = c
  BY <1>3 DEF Complement, Highest, BitsOf, clrbit, getBitPosition
<1>7. x \in Word /\ h \in Word /\ c \in Word
  <2>1. x \in Word /\ h \in Word
    <3> HIDE DEF a
    <3> QED
      BY <1>5, ComplementBits, HighestPosition
  <2> HIDE DEF a, h
  <2> QED
    BY <1>5, <2>1, ChangedBits
<1> DEFINE Now == /\ pc = 2 => r = [start.r EXCEPT ![3] = x]
                  /\ pc = 3 => r = [start.r EXCEPT ![3] = x, ![2] = h]
                  /\ pc = 4 => r = [start.r EXCEPT ![3] = x, ![2] = h, ![1] = h] /\ ac % 8 = v
           Then == /\ pc' = 2 => r' = [start.r EXCEPT ![3] = x]
                   /\ pc' = 3 => r' = [start.r EXCEPT ![3] = x, ![2] = h]
                   /\ pc' = 4 => r' = [start.r EXCEPT ![3] = x, ![2] = h, ![1] = h] /\ ac' % 8 = v
                   /\ pc' = 5 => r'[1] = h /\ r'[2] = h /\ r'[3] = c /\ ac' % 8 = v
<1>8. Now
  BY <1>1 DEF ScanState
<1>9. SUFFICES Then
  BY <1>3, <1>6 DEF ScanState
<1> HIDE DEF x, h, v, c
<1>10. CASE pc = 1
  <2> DEFINE i == program.code[1]
  <2>1. i.op = "Not" /\ i.src1 = 0 /\ i.src2 = 0 /\ i.dest = 3 /\ i \in Instruction /\ Execute(i)
    BY <1>2, <1>3, <1>10 DEF I
  <2> HIDE DEF i
  <2>2. r = start.r
    BY <1>10 DEF IInv, Started
  <2>3. Src1(i) = a
    BY <1>4, <2>1, <2>2, OperandValues DEF Src1
  <2>4. logicalOp(i.op, Src2(i), Src1(i)) = x
    BY <2>1, <2>3 DEF logicalOp, x
  <2>5. i.op \in LogicalOps /\ i.op \in OneResult
    BY <2>1 DEF LogicalOps, OneResult
  <2>6. Results(i) = {x}
    BY <2>1, <2>4, <2>5 DEF Results, ArithmeticOps
  <2>7. r' = [start.r EXCEPT ![3] = x]
    BY <1>7, <2>1, <2>2, <2>5, <2>6, Computed
  <2> QED
    BY <1>3, <1>10, <2>7
<1>11. CASE pc = 2
  <2> DEFINE i == program.code[2]
  <2>1. i.op = "spanbit" /\ i.src1 = 3 /\ i.dest = 2 /\ i \in Instruction /\ Execute(i)
    BY <1>2, <1>3, <1>11 DEF I
  <2> HIDE DEF i
  <2>2. r = [start.r EXCEPT ![3] = x]
    BY <1>8, <1>11
  <2>3. Src1(i) = Complement(a)
    BY <1>4, <2>1, <2>2, OperandValues DEF Src1, x
  <2>4. r' = [r EXCEPT ![2] = h]
    BY <1>5, <2>1, <2>3, ScanDone DEF h
  <2>5. r' = [start.r EXCEPT ![3] = x, ![2] = h]
    BY <2>2, <2>4
  <2> QED
    BY <1>3, <1>11, <2>5
<1>12. CASE pc = 3
  <2> DEFINE i == program.code[3]
  <2>1. i.op = "scanbit" /\ i.src1 = 0 /\ i.dest = 1 /\ i \in Instruction /\ Execute(i)
    BY <1>2, <1>3, <1>12 DEF I
  <2> HIDE DEF i
  <2>2. r = [start.r EXCEPT ![3] = x, ![2] = h]
    BY <1>8, <1>12
  <2>3. Src1(i) = a
    BY <1>4, <2>1, <2>2, OperandValues DEF Src1
  <2>4. r' = [r EXCEPT ![1] = h] /\ ac' % 8 = v
    BY <1>5, <2>1, <2>3, ScanDone DEF h, v
  <2>5. r' = [start.r EXCEPT ![3] = x, ![2] = h, ![1] = h]
    BY <2>2, <2>4
  <2>6. pc' = 4
    BY <1>3, <1>12
  <2>7. ac' % 8 = v
    BY <2>4
  <2> QED
    BY <2>5, <2>6, <2>7
<1>13. CASE pc = 4
  <2> DEFINE i == program.code[4]
  <2>1. i.op = "clrbit" /\ i.src1 = 1 /\ i.src2 = 0 /\ i.dest = 3 /\ i \in Instruction /\ Execute(i)
    BY <1>2, <1>3, <1>13 DEF I
  <2> HIDE DEF i
  <2>2. r = [start.r EXCEPT ![3] = x, ![2] = h, ![1] = h] /\ ac % 8 = v
    BY <1>8, <1>13
  <2>3. r[0] = a /\ r[1] = h
    BY <1>4, <2>2
  <2>4. Src1(i) = h /\ Src2(i) = a
    BY <1>4, <2>1, <2>3, OperandValues DEF Src1, Src2
  <2> HIDE DEF a
  <2>5. i.op \in OneResult /\ Results(i) = {clrbit(a, h)}
    BY <2>1, <2>4 DEF Results, OneResult, LogicalOps, ArithmeticOps
  <2>6. r' = [r EXCEPT ![3] = c] /\ ac' = ac
    BY <1>7, <2>1, <2>5, Computed DEF c
  <2>7. r'[1] = h /\ r'[2] = h /\ r'[3] = c
    BY <1>4, <2>2, <2>6
  <2> QED
    BY <1>3, <1>13, <2>2, <2>6, <2>7
<1> QED
  BY <1>3, <1>10, <1>11, <1>12, <1>13

\* The bits of a byte of a word.
LEMMA BitsOfByte ==
  ASSUME NEW a \in Word, NEW n \in 0 .. 3
  PROVE  /\ byteOf(a, n) \in Word
         /\ BitsOf(byteOf(a, n)) = {k \in Positions : k < ByteBits /\ k + ByteBits * n \in BitsOf(a)}
<1> DEFINE m == ByteBits * n
           q == a \div bitPositions[m]
<1>1. m \in Nat /\ ByteBits \in Nat
  BY ByteFacts
<1> HIDE DEF m
<1>2. q \in Word /\ BitsOf(q) = {k \in Positions : k + m \in BitsOf(a)}
  BY <1>1, QuotientBits
<1> HIDE DEF q
<1>3. q % bitPositions[ByteBits] \in Word
      /\ BitsOf(q % bitPositions[ByteBits]) = {k \in BitsOf(q) : k < ByteBits}
  BY <1>1, <1>2, RestBits
<1>4. byteOf(a, n) = q % bitPositions[ByteBits]
  BY DEF byteOf, q, m
<1> QED
  BY <1>2, <1>3, <1>4 DEF m

\* Bytes are the same where those of their difference are zero.
LEMMA SameByte ==
  ASSUME NEW a \in Word, NEW b \in Word, NEW n \in 0 .. 3
  PROVE  byteOf(Xor(a, b), n) = 0 <=> byteOf(b, n) = byteOf(a, n)
<1> DEFINE x == Xor(a, b)
           m == ByteBits * n
           A == byteOf(a, n)
           B == byteOf(b, n)
           X == byteOf(x, n)
<1>1. x \in Word /\ BitsOf(x) = (BitsOf(a) \ BitsOf(b)) \union (BitsOf(b) \ BitsOf(a))
  <2>1. a \in Int /\ b \in Int
    BY WordFacts
  <2> QED
    BY <2>1, BitwiseBits
<1> HIDE DEF x
<1>2. /\ A \in Word /\ BitsOf(A) = {k \in Positions : k < ByteBits /\ k + m \in BitsOf(a)}
      /\ B \in Word /\ BitsOf(B) = {k \in Positions : k < ByteBits /\ k + m \in BitsOf(b)}
      /\ X \in Word /\ BitsOf(X) = {k \in Positions : k < ByteBits /\ k + m \in BitsOf(x)}
  BY <1>1, BitsOfByte
<1> HIDE DEF A, B, X
<1>3. BitsOf(X) = (BitsOf(A) \ BitsOf(B)) \union (BitsOf(B) \ BitsOf(A))
  BY <1>1, <1>2
<1>4. X = 0 <=> BitsOf(X) = {}
  <2>1. 0 \in Word
    BY ByteFacts
  <2> QED
    BY <1>2, <2>1, ZeroBits, EqualBits
<1>5. BitsOf(X) = {} <=> BitsOf(A) = BitsOf(B)
  BY <1>3
<1>6. BitsOf(A) = BitsOf(B) <=> A = B
  BY <1>2, EqualBits
<1> QED
  BY <1>4, <1>5, <1>6 DEF A, B, X, x

FindState ==
  program = FindByte =>
    /\ pc = 2 => r = [start.r EXCEPT ![2] = Xor(start.r[1], start.r[0])]
    /\ pc = 3 => /\ r[2] = Xor(start.r[1], start.r[0])
                 /\ ac % 8 = 2 <=> \E n \in 0 .. 3 : byteOf(start.r[0], n) = byteOf(start.r[1], n)

LEMMA FindStep ==
  ASSUME IInv, Next, FindState
  PROVE  FindState'
<1>1. SUFFICES ASSUME program = FindByte PROVE FindState'
  BY StepExecutes DEF FindState
<1>2. /\ Len(program.code) = 2
      /\ program.code[1] = I("Xor", 0, 1, 2) /\ program.code[2] = I("scanbyte", 0, 1, 7)
  BY <1>1 DEF FindByte, Program, I
<1>3. /\ pc \in 1 .. 2 /\ pc' = pc + 1 /\ program' = program /\ start' = start
      /\ program.code[pc] \in Instruction /\ Execute(program.code[pc])
  BY <1>2, StepExecutes
<1>4. Registers = 0 .. 7 /\ start.r \in [Registers -> Word] /\ r \in [Registers -> Word]
  BY RegisterWords
<1> DEFINE a == start.r[0]
           b == start.r[1]
           x == Xor(b, a)
<1>5. x' = x /\ x \in Word
  <2>1. x' = x
    BY <1>3 DEF Xor, WordOf, BitsOf
  <2>2. a \in Word /\ b \in Word
    BY <1>4
  <2> HIDE DEF a, b
  <2>3. a \in Int /\ b \in Int
    BY <2>2, WordFacts
  <2> QED
    BY <2>1, <2>3, BitwiseBits
<1>6. CASE pc = 1
  <2> DEFINE i == program.code[1]
  <2>1. i.op = "Xor" /\ i.src1 = 0 /\ i.src2 = 1 /\ i.dest = 2 /\ i \in Instruction /\ Execute(i)
    BY <1>2, <1>3, <1>6 DEF I
  <2> HIDE DEF i
  <2>2. r = start.r
    BY <1>6 DEF IInv, Started
  <2>3. Src1(i) = a /\ Src2(i) = b
    BY <1>4, <2>1, <2>2, OperandValues DEF Src1, Src2
  <2>4. i.op \in OneResult /\ Results(i) = {x}
    BY <2>1, <2>3, XorResult
  <2>5. r' = [start.r EXCEPT ![2] = x]
    BY <1>5, <2>1, <2>2, <2>4, Computed
  <2> QED
    BY <1>1, <1>3, <1>5, <1>6, <2>5 DEF FindState
<1>7. CASE pc = 2
  <2> DEFINE i == program.code[2]
             Found == \E n \in 0 .. 3 : byteOf(a, n) = byteOf(b, n)
             v == IF Found THEN 2 ELSE 0
  <2>1. i.op = "scanbyte" /\ i.src1 = 0 /\ i.src2 = 1 /\ i \in Instruction /\ Execute(i)
    BY <1>2, <1>3, <1>7 DEF I
  <2> HIDE DEF i
  <2>2. r = [start.r EXCEPT ![2] = x]
    BY <1>1, <1>7 DEF FindState
  <2>3. r[0] = a /\ r[1] = b /\ r[2] = x
    BY <1>4, <2>2
  <2>4. scanbyte(i)
    BY <2>1, HandlerOf DEF OneResult, LogicalOps, ArithmeticOps
  <2>5. setConditionCode(v) /\ r' = r
    BY <2>1, <2>3, <2>4 DEF scanbyte
  <2>6. Found' <=> Found
    BY <1>3 DEF byteOf
  <2> HIDE DEF Found
  <2>7. v \in 0 .. 7 /\ (v = 2 <=> Found)
    OBVIOUS
  <2> HIDE DEF v
  <2>8. ac' % 8 = v
    BY <2>5, <2>7, RegisterWords, SetCode
  <2>9. r'[2] = x' /\ (ac' % 8 = 2 <=> Found')
    BY <1>5, <2>3, <2>5, <2>6, <2>7, <2>8
  <2> QED
    BY <1>1, <1>3, <1>7, <2>9 DEF FindState, Found
<1> QED
  BY <1>3, <1>6, <1>7

LEMMA BitsStep == IInv /\ CopyBitState /\ OneBitState /\ ScanState /\ FindState /\ [Next]_vars
                  => CopyBitState' /\ OneBitState' /\ ScanState' /\ FindState'
<1>1. ASSUME UNCHANGED vars, CopyBitState PROVE CopyBitState'
  BY <1>1 DEF vars, CopyBitState, setbit, clrbit, getBitPosition
<1>2. ASSUME UNCHANGED vars, OneBitState PROVE OneBitState'
  BY <1>2 DEF vars, OneBitState, setbit, clrbit, notbit, getBitPosition
<1>3. ASSUME UNCHANGED vars, ScanState PROVE ScanState'
  BY <1>3 DEF vars, ScanState, clrbit, getBitPosition, Highest
<1>4. ASSUME UNCHANGED vars, FindState PROVE FindState'
  BY <1>4 DEF vars, FindState, byteOf
<1> QED
  BY <1>1, <1>2, <1>3, <1>4, CopyBitStep, OneBitStep, ScanStep, FindStep

\* The bit instructions agree on what a bit is, for every word and position
\* (Core.cc:780-785, 832-866 and 942-962, sxbit in Core.h:587-624).
THEOREM BitsCorrect == Spec => []BitsAgree
<1>1. Init => CopyBitState /\ OneBitState /\ ScanState /\ FindState
  BY DEF Init, CopyBitState, OneBitState, ScanState, FindState
<1>2. IInv /\ CopyBitState /\ OneBitState /\ ScanState /\ FindState => BitsAgree
  <2> SUFFICES ASSUME IInv, CopyBitState, OneBitState, ScanState, FindState PROVE BitsAgree
    OBVIOUS
  <2>1. /\ Len(CopyBit.code) = 2 /\ Len(OneBit.code) = 5 /\ Len(Scan.code) = 4
        /\ Len(FindByte.code) = 2
    BY DEF CopyBit, OneBit, Scan, FindByte, Program
  <2>2. \A p : Done({p}) => program = p /\ pc = Len(p.code) + 1
    BY DEF Done
  <2>3. /\ was(0) \in Word /\ was(1) \in Word /\ was(2) \in Word
        /\ was(0) = start.r[0] /\ was(1) = start.r[1] /\ was(2) = start.r[2]
    BY RegisterWords DEF was
  <2>4. ASSUME Done({CopyBit})
        PROVE  LET pos        == was(0) % Width
                   Without(a) == a - Bit(a, pos) * bitPositions[pos]
               IN Bit(r[2], pos) = Bit(was(1), pos) /\ Without(r[2]) = Without(was(2))
    <3> DEFINE k == was(0) % Width
    <3>1. program = CopyBit /\ pc = Len(CopyBit.code) + 1
      BY <2>2, <2>4
    <3>2. pc = 3
      BY <2>1, <3>1
    <3>3. r[2] = IF Bit(was(1), k) = 1 THEN setbit(was(2), was(0)) ELSE clrbit(was(2), was(0))
      BY <2>3, <3>1, <3>2 DEF CopyBitState
    <3>4. r[2] - Bit(r[2], k) * bitPositions[k] = was(2) - Bit(was(2), k) * bitPositions[k]
      BY <2>3, <3>3, OtherBitsStay
    <3>5. k \in Positions /\ r[2] \in Word
          /\ BitsOf(setbit(was(2), was(0))) = BitsOf(was(2)) \union {k}
          /\ BitsOf(clrbit(was(2), was(0))) = BitsOf(was(2)) \ {k}
      BY <2>3, <3>3, ChangedBits
    <3>6. Bit(r[2], k) = (IF k \in BitsOf(r[2]) THEN 1 ELSE 0) /\ Bit(was(1), k) \in {0, 1}
      <4>1. k \in Nat /\ was(1) \in Int
        BY <2>3, <3>5, WordFacts
      <4> QED
        BY <3>5, <4>1, BitOfWord, BitValue
    <3>7. Bit(r[2], k) = Bit(was(1), k)
      BY <3>3, <3>5, <3>6
    <3> QED
      BY <3>4, <3>7
  <2>5. ASSUME Done({OneBit}) PROVE r[2] = r[3] /\ r[2] = bitPositions[was(0) % Width]
    <3>1. program = OneBit /\ pc = Len(OneBit.code) + 1
      BY <2>2, <2>5
    <3>2. pc = 6
      BY <2>1, <3>1
    <3> QED
      BY <2>3, <3>1, <3>2 DEF OneBitState
  <2>6. ASSUME Done({Scan})
        PROVE  /\ r[1] = r[2]
               /\ getConditionCode = (IF was(0) = 0 THEN 0 ELSE 2)
               /\ was(0) = 0 => r[1] = AllOnes
               /\ was(0) # 0 => was(0) = bitPositions[r[1]] + r[3] /\ r[3] < bitPositions[r[1]]
    <3> DEFINE h == Highest(was(0))
               c == clrbit(was(0), h)
    <3>1. program = Scan /\ pc = Len(Scan.code) + 1
      BY <2>2, <2>6
    <3>2. pc = 5
      BY <2>1, <3>1
    <3>3. r[1] = h /\ r[2] = h /\ r[3] = c /\ ac % 8 = (IF was(0) = 0 THEN 0 ELSE 2)
      BY <2>3, <3>1, <3>2 DEF ScanState
    <3>4. /\ was(0) = 0 => h = AllOnes
          /\ was(0) # 0 => was(0) = bitPositions[h] + c /\ c < bitPositions[h]
      BY <2>3, HighestPosition
    <3> HIDE DEF h, c
    <3> QED
      BY <3>3, <3>4 DEF getConditionCode
  <2>7. ASSUME Done({FindByte})
        PROVE  getConditionCode = 2 <=> \E n \in 0 .. 3 : byteOf(r[2], n) = 0
    <3>1. program = FindByte /\ pc = Len(FindByte.code) + 1
      BY <2>2, <2>7
    <3>2. pc = 3
      BY <2>1, <3>1
    <3>3. r[2] = Xor(was(1), was(0))
          /\ (ac % 8 = 2 <=> \E n \in 0 .. 3 : byteOf(was(0), n) = byteOf(was(1), n))
      BY <2>3, <3>1, <3>2 DEF FindState
    <3>4. \A n \in 0 .. 3 : byteOf(r[2], n) = 0 <=> byteOf(was(0), n) = byteOf(was(1), n)
      BY <2>3, <3>3, SameByte
    <3> QED
      BY <3>3, <3>4 DEF getConditionCode
  <2> QED
    BY <2>4, <2>5, <2>6, <2>7 DEF BitsAgree
<1> QED
  BY <1>1, <1>2, BitsStep, Invariant, PTL DEF Spec

-------------------------------------------------------------------------------
(* Fields of bits.                                                           *)

LEMMA OnesBits ==
  ASSUME NEW len \in Nat, len <= Width
  PROVE  /\ Ones(len) \in Word /\ Ones(len) \in Nat
         /\ BitsOf(Ones(len)) = {n \in Positions : n < len}
<1> DEFINE m == Width - len
           p == bitPositions[len]
           s == bitPositions[m]
           t == p - 1
           q == s - 1
<1>1. m \in Nat /\ len + m = Width
  BY WordFacts
<1> HIDE DEF m
<1>2. p \in Nat /\ p > 0 /\ s \in Nat /\ s > 0
  BY <1>1, PowerPositive
<1>3. Modulus = p * s
  BY <1>1, PowerSum DEF Modulus
<1>4. t \in 0 .. p - 1 /\ q \in Int /\ t \in Nat
  <2> HIDE DEF p, s
  <2> QED
    BY <1>2
<1>5. AllOnes = p * q + t
  <2> HIDE DEF p, s
  <2> QED
    BY <1>2, <1>3 DEF AllOnes
<1> HIDE DEF t, q
<1>6. (p * q + t) % p = t
  BY <1>4, Composed
<1>7. AllOnes % p = t
  BY <1>5, <1>6
<1>8. AllOnes % p \in Word /\ BitsOf(AllOnes % p) = {n \in BitsOf(AllOnes) : n < len}
  BY WordFacts, RestBits
<1> QED
  BY <1>4, <1>7, <1>8, AllBits DEF Ones, t

LEMMA MaskBits ==
  ASSUME NEW len \in Nat, NEW pos \in Nat, len + pos <= Width
  PROVE  /\ Ones(len) * bitPositions[pos] \in Word
         /\ BitsOf(Ones(len) * bitPositions[pos]) = {n \in Positions : n >= pos /\ n - pos < len}
<1> DEFINE p == bitPositions[len]
           s == bitPositions[pos]
           o == Ones(len)
           x == o * s
<1>1. len <= Width /\ len + pos \in Nat /\ Width \in Nat
  BY WordFacts
<1>2. p \in Nat /\ p > 0 /\ s \in Nat /\ s > 0
  BY PowerPositive
<1>3. bitPositions[len + pos] = p * s /\ bitPositions[len + pos] <= Modulus
  BY <1>1, PowerSum, PowerLess DEF Modulus
<1>4. o \in Word /\ BitsOf(o) = {n \in Positions : n < len}
  BY <1>1, OnesBits
<1>5. o = p - 1
  BY DEF Ones
<1> HIDE DEF p, s, o
<1>6. x \in Word
  <2>1. x = p * s - s /\ p * s <= Modulus /\ p * s \in Int
    BY <1>2, <1>3, <1>5
  <2>2. o >= 0
    BY <1>2, <1>5
  <2>3. x \in Nat
    BY <1>2, <1>5, <2>2
  <2>4. x < Modulus
    BY <1>2, <2>1, <2>3, WordFacts
  <2> QED
    BY <2>3, <2>4, ByteFacts
<1>7. Wrap(x) = x
  BY <1>6, WrapOfWord
<1>8. BitsOf(Wrap(o * s)) = {n \in Positions : n >= pos /\ n - pos \in BitsOf(o)}
  BY <1>4, ProductBits DEF s
<1>9. \A n \in Positions : n >= pos => (n - pos \in BitsOf(o) <=> n - pos < len)
  <2>1. SUFFICES ASSUME NEW n \in Positions, n >= pos PROVE n - pos \in Positions
    BY <1>4
  <2> QED
    BY <2>1, WordFacts DEF Positions
<1>10. BitsOf(x) = {n \in Positions : n >= pos /\ n - pos < len}
  BY <1>7, <1>8, <1>9
<1> QED
  BY <1>6, <1>10 DEF x, o, s

\* The mask that extract puts on a field.
LEMMA BelowBits ==
  ASSUME NEW len \in Nat
  PROVE  LET m == Complement(Wrap(AllOnes * bitPositions[len]))
         IN m \in Word /\ BitsOf(m) = {n \in Positions : n < len}
<1> DEFINE w == Wrap(AllOnes * bitPositions[len])
           m == Complement(w)
<1>1. w \in Word /\ BitsOf(w) = {n \in Positions : n >= len /\ n - len \in BitsOf(AllOnes)}
  BY WordFacts, ProductBits
<1> HIDE DEF w
<1>2. m \in Word /\ BitsOf(m) = Positions \ BitsOf(w)
  BY <1>1, ComplementBits
<1>3. \A n \in Positions : n >= len => n - len \in BitsOf(AllOnes)
  BY AllBits, WordFacts DEF Positions
<1>4. \A n \in Positions : n < len <=> ~(n >= len)
  BY WordFacts
<1>5. BitsOf(m) = {n \in Positions : n < len}
  BY <1>1, <1>2, <1>3, <1>4
<1> QED
  BY <1>2, <1>5 DEF w

\* Where a field may be, and how long.
Lengths(pos) == 1 .. Width - (IF pos = 0 THEN 1 ELSE pos)

Inserted(pos, len) == modify(Ones(len) * bitPositions[pos], start.r[0], start.r[1])
Extracted(pos, len) ==
  And(Inserted(pos, len) \div bitPositions[pos],
      Complement(Wrap(AllOnes * bitPositions[len])))

LEMMA FieldFacts ==
  ASSUME NEW pos \in Positions, NEW len \in Lengths(pos)
  PROVE  /\ pos \in Nat /\ len \in Nat /\ len + pos <= Width /\ len < Width /\ pos < Width
         /\ pos \in Word /\ len \in Word
<1>1. pos \in Nat /\ pos < Width /\ pos \in Word /\ Width \in Nat
  BY PositionIsWord, WordFacts
<1>2. len \in Nat /\ len + pos <= Width /\ len < Width
  BY <1>1 DEF Lengths
<1>3. len \in Positions
  BY <1>1, <1>2 DEF Positions
<1> QED
  BY <1>1, <1>2, <1>3, PositionIsWord

LEMMA FieldTaken ==
  ASSUME IInv, NEW pos \in Positions, NEW len \in Lengths(pos)
  PROVE  /\ Ones(len) * bitPositions[pos] \in Word /\ Ones(len) \in Word
         /\ Inserted(pos, len) \in Word /\ Extracted(pos, len) \in Word
         /\ start.r[0] \div bitPositions[pos] \in Word
         /\ Extracted(pos, len) = And(Ones(len), start.r[0] \div bitPositions[pos])
<1> DEFINE a == start.r[0]
           b == start.r[1]
           o == Ones(len)
           p == bitPositions[pos]
           mask == o * p
           m == modify(mask, a, b)
           u == m \div p
           v == a \div p
           below == Complement(Wrap(AllOnes * bitPositions[len]))
           x == And(u, below)
           y == And(o, v)
<1>1. a \in Word /\ b \in Word
  BY RegisterWords
<1>2. pos \in Nat /\ len \in Nat /\ len + pos <= Width /\ len <= Width /\ Width \in Nat
  BY FieldFacts, WordFacts
<1>3. mask \in Word /\ BitsOf(mask) = {n \in Positions : n >= pos /\ n - pos < len}
  BY <1>2, MaskBits
<1>4. o \in Word /\ BitsOf(o) = {n \in Positions : n < len}
  BY <1>2, OnesBits
<1>5. below \in Word /\ BitsOf(below) = {n \in Positions : n < len}
  BY <1>2, BelowBits
<1> HIDE DEF a, b, o, below, mask
<1>6. m \in Word /\ BitsOf(m) = (BitsOf(a) \intersect BitsOf(mask)) \union (BitsOf(b) \ BitsOf(mask))
  BY <1>1, <1>3, ModifiedBits
<1> HIDE DEF m
<1>7. u \in Word /\ BitsOf(u) = {n \in Positions : n + pos \in BitsOf(m)}
  BY <1>2, <1>6, QuotientBits
<1>8. v \in Word /\ BitsOf(v) = {n \in Positions : n + pos \in BitsOf(a)}
  BY <1>1, <1>2, QuotientBits
<1> HIDE DEF u, v
<1>9. u \in Int /\ v \in Int /\ o \in Int /\ below \in Int
  BY <1>4, <1>5, <1>7, <1>8, WordFacts
<1>10. x \in Word /\ BitsOf(x) = BitsOf(u) \intersect BitsOf(below)
  BY <1>9, BitwiseBits
<1>11. y \in Word /\ BitsOf(y) = BitsOf(o) \intersect BitsOf(v)
  BY <1>9, BitwiseBits
<1> HIDE DEF x, y
<1>12. ASSUME NEW n \in Positions, n < len
       PROVE  n + pos \in BitsOf(m) <=> n + pos \in BitsOf(a)
  <2>1. n \in Nat /\ n + pos \in Positions /\ n + pos >= pos /\ (n + pos) - pos < len
    BY <1>2, <1>12, WordFacts DEF Positions
  <2>2. n + pos \in BitsOf(mask)
    <3> DEFINE k == n + pos
    <3>1. k \in Positions /\ k >= pos /\ k - pos < len
      BY <2>1
    <3> HIDE DEF k
    <3>2. k \in BitsOf(mask)
      BY <1>3, <3>1
    <3> QED
      BY <3>2 DEF k
  <2> QED
    BY <1>6, <2>2
<1>13. BitsOf(x) = BitsOf(y)
  BY <1>4, <1>5, <1>7, <1>8, <1>10, <1>11, <1>12
<1>14. x = y
  BY <1>10, <1>11, <1>13, EqualBits
<1> QED
  BY <1>3, <1>4, <1>6, <1>8, <1>10, <1>14
     DEF Inserted, Extracted, a, b, o, mask, m, u, v, x, y, below

FieldState ==
  \A pos \in Positions : \A len \in Lengths(pos) :
    program = Field(pos, len) =>
      LET m == Inserted(pos, len)
          x == Extracted(pos, len)
          v == start.r[0] \div bitPositions[pos]
      IN /\ pc = 2 => r = [start.r EXCEPT ![1] = m]
         /\ pc = 3 => r = [start.r EXCEPT ![1] = x]
         /\ pc = 4 => r = [start.r EXCEPT ![1] = x, ![0] = v]
         /\ pc = 5 => r[1] = x /\ r[0] = x

LEMMA FieldStep ==
  ASSUME IInv, Next, FieldState
  PROVE  FieldState'
<1>1. /\ pc \in 1 .. Len(program.code) /\ pc' = pc + 1 /\ program' = program /\ start' = start
      /\ program.code[pc] \in Instruction /\ Execute(program.code[pc])
  BY StepExecutes
<1>2. Registers = 0 .. 7 /\ start.r \in [Registers -> Word] /\ r \in [Registers -> Word]
  BY RegisterWords
<1>3. ASSUME NEW pos \in Positions, NEW len \in Lengths(pos), program = Field(pos, len)
      PROVE  LET m == Inserted(pos, len)
                 x == Extracted(pos, len)
                 v == start.r[0] \div bitPositions[pos]
             IN /\ pc' = 2 => r' = [start.r EXCEPT ![1] = m]
                /\ pc' = 3 => r' = [start.r EXCEPT ![1] = x]
                /\ pc' = 4 => r' = [start.r EXCEPT ![1] = x, ![0] = v]
                /\ pc' = 5 => r'[1] = x /\ r'[0] = x
  <2> DEFINE a == start.r[0]
             b == start.r[1]
             o == Ones(len)
             p == bitPositions[pos]
             mask == o * p
             m == Inserted(pos, len)
             x == Extracted(pos, len)
             v == a \div p
  <2>1. /\ Len(program.code) = 4
        /\ program.code[1] = I("modify", Lit(mask), 0, 1)
        /\ program.code[2] = I("extract", Lit(pos), Lit(len), 1)
        /\ program.code[3] = I("shro", Lit(pos), 0, 0)
        /\ program.code[4] = I("And", 0, Lit(o), 0)
    BY <1>3 DEF Field, Program, I
  <2>2. pc \in 1 .. 4
    BY <1>1, <2>1
  <2>3. /\ mask \in Word /\ o \in Word /\ m \in Word /\ x \in Word /\ v \in Word
        /\ x = And(o, v)
    BY FieldTaken
  <2>4. /\ pos \in Word /\ len \in Word /\ ~(pos >= Width) /\ ~(len >= Width)
    <3>1. pos \in Nat /\ len \in Nat /\ pos < Width /\ len < Width /\ Width \in Nat
      BY FieldFacts, WordFacts
    <3> QED
      BY <3>1, FieldFacts
  <2>5. a \in Word /\ b \in Word
    BY <1>2
  <2>6. m = modify(mask, a, b) /\ x = And(m \div p, Complement(Wrap(AllOnes * bitPositions[len])))
    BY DEF Inserted, Extracted
  <2>7. /\ pc = 2 => r = [start.r EXCEPT ![1] = m]
        /\ pc = 3 => r = [start.r EXCEPT ![1] = x]
        /\ pc = 4 => r = [start.r EXCEPT ![1] = x, ![0] = v]
    BY <1>3 DEF FieldState
  <2> HIDE DEF o, mask, m, x, v
  <2>8. CASE pc = 1
    <3> DEFINE i == program.code[1]
    <3>1. i.op = "modify" /\ i.src1 = Lit(mask) /\ i.src2 = 0 /\ i.dest = 1
          /\ i \in Instruction /\ Execute(i)
      BY <1>1, <2>1, <2>8 DEF I
    <3> HIDE DEF i
    <3>2. r = start.r
      BY <2>8 DEF IInv, Started
    <3>3. Src1(i) = mask /\ Src2(i) = a /\ r[i.dest] = b
      BY <1>2, <2>3, <3>1, <3>2, OperandValues DEF Src1, Src2
    <3>4. i.op \in OneResult /\ Results(i) = {m}
      BY <2>6, <3>1, <3>3 DEF Results, OneResult, LogicalOps, ArithmeticOps
    <3>5. r' = [start.r EXCEPT ![1] = m]
      BY <2>3, <3>1, <3>2, <3>4, Computed
    <3> QED
      BY <1>1, <2>8, <3>5 DEF m
  <2>9. CASE pc = 2
    <3> DEFINE i == program.code[2]
    <3>1. i.op = "extract" /\ i.src1 = Lit(pos) /\ i.src2 = Lit(len) /\ i.dest = 1
          /\ i \in Instruction /\ Execute(i)
      BY <1>1, <2>1, <2>9 DEF I
    <3> HIDE DEF i
    <3>2. r = [start.r EXCEPT ![1] = m]
      BY <2>7, <2>9
    <3>3. Src1(i) = pos /\ Src2(i) = len /\ r[i.dest] = m
      BY <1>2, <2>4, <3>1, <3>2, OperandValues DEF Src1, Src2
    <3>4. extract(m, pos, len) = {x}
      BY <2>4, <2>6 DEF extract
    <3>5. i.op \in OneResult /\ Results(i) = {x}
      BY <3>1, <3>3, <3>4 DEF Results, OneResult, LogicalOps, ArithmeticOps
    <3>6. r' = [r EXCEPT ![1] = x]
      BY <2>3, <3>1, <3>5, Computed
    <3>7. r' = [start.r EXCEPT ![1] = x]
      BY <1>2, <3>2, <3>6
    <3> QED
      BY <1>1, <2>9, <3>7 DEF x
  <2>10. CASE pc = 3
    <3> DEFINE i == program.code[3]
    <3>1. i.op = "shro" /\ i.src1 = Lit(pos) /\ i.src2 = 0 /\ i.dest = 0
          /\ i \in Instruction /\ Execute(i)
      BY <1>1, <2>1, <2>10 DEF I
    <3> HIDE DEF i
    <3>2. r = [start.r EXCEPT ![1] = x]
      BY <2>7, <2>10
    <3>3. Src1(i) = pos /\ Src2(i) = a
      BY <1>2, <2>4, <3>1, <3>2, OperandValues DEF Src1, Src2
    <3>4. shxo("shro", a, pos) = v
      BY <2>4 DEF shxo, v
    <3>5. i.op \in OneResult /\ Results(i) = {v}
      BY <3>1, <3>3, <3>4 DEF Results, OneResult, LogicalOps, ArithmeticOps
    <3>6. r' = [r EXCEPT ![0] = v]
      BY <2>3, <3>1, <3>5, Computed
    <3>7. r' = [start.r EXCEPT ![1] = x, ![0] = v]
      BY <3>2, <3>6
    <3> QED
      BY <1>1, <2>10, <3>7 DEF x, v
  <2>11. CASE pc = 4
    <3> DEFINE i == program.code[4]
    <3>1. i.op = "And" /\ i.src1 = 0 /\ i.src2 = Lit(o) /\ i.dest = 0
          /\ i \in Instruction /\ Execute(i)
      BY <1>1, <2>1, <2>11 DEF I
    <3> HIDE DEF i
    <3>2. r = [start.r EXCEPT ![1] = x, ![0] = v]
      BY <2>7, <2>11
    <3>3. Src1(i) = v /\ Src2(i) = o
      BY <1>2, <2>3, <3>1, <3>2, OperandValues DEF Src1, Src2
    <3>4. i.op \in OneResult /\ Results(i) = {x}
      BY <2>3, <3>1, <3>3, AndResult
    <3>5. r' = [r EXCEPT ![0] = x]
      BY <2>3, <3>1, <3>4, Computed
    <3>6. r'[1] = x /\ r'[0] = x
      BY <1>2, <3>2, <3>5
    <3> QED
      BY <1>1, <2>11, <3>6 DEF x
  <2> QED
    BY <2>2, <2>8, <2>9, <2>10, <2>11
<1>4. ASSUME NEW pos \in Positions, NEW len \in Lengths(pos)
      PROVE  Inserted(pos, len)' = Inserted(pos, len) /\ Extracted(pos, len)' = Extracted(pos, len)
  BY <1>1 DEF Inserted, Extracted
<1> QED
  BY <1>1, <1>3, <1>4 DEF FieldState

\* A rotation puts together what two shifts leave.
LEMMA RotatedByShifts ==
  ASSUME NEW a \in Word, NEW k \in Positions
  PROVE  /\ rotate(a, k) \in Word /\ Wrap(a * bitPositions[k]) \in Word
         /\ Width - k \in Word /\ shxo("shro", a, Width - k) \in Word
         /\ rotate(a, k) = Or(Wrap(a * bitPositions[k]), shxo("shro", a, Width - k))
<1> DEFINE l == Width - k
           up == Wrap(a * bitPositions[k])
           turned == a \div bitPositions[(-k) % Width]
           down == shxo("shro", a, l)
<1>1. k \in Nat /\ k < Width /\ Width \in Nat /\ a \in Int
  BY PositionIsWord, WordFacts
<1>2. up \in Word
  BY <1>1, ProductBits
<1>3. l \in Word
  <2>1. l \in Nat /\ l <= Width
    BY <1>1
  <2>2. Width \in Word
    BY WidthFits
  <2> HIDE DEF l
  <2> QED
    BY <1>1, <2>1, <2>2, ByteFacts
<1>4. rotate(a, k) = Or(up, turned)
  BY DEF rotate
<1>5. CASE k = 0
  <2>1. (-k) % Width = 0
    BY <1>1, <1>5
  <2>2. turned = a /\ up = a
    <3>1. a \div 1 = a /\ a * 1 = a
      BY <1>1
    <3> QED
      BY <1>5, <2>1, <3>1, Powers, WrapOfWord
  <2>3. down = 0 /\ 0 \in Word /\ 0 \in Int
    BY <1>1, <1>5, ByteFacts DEF shxo
  <2> HIDE DEF up, turned, down
  <2>4. Or(a, a) \in Word /\ BitsOf(Or(a, a)) = BitsOf(a)
    <3>1. Or(a, a) \in Word /\ BitsOf(Or(a, a)) = BitsOf(a) \union BitsOf(a)
      BY <1>1, BitwiseBits
    <3> QED
      BY <3>1
  <2>5. Or(a, 0) \in Word /\ BitsOf(Or(a, 0)) = BitsOf(a)
    <3>1. Or(a, 0) \in Word /\ BitsOf(Or(a, 0)) = BitsOf(a) \union BitsOf(0)
      BY <1>1, <2>3, BitwiseBits
    <3> QED
      BY <3>1, ZeroBits
  <2>6. Or(a, a) = Or(a, 0)
    BY <2>4, <2>5, EqualBits
  <2> QED
    BY <1>2, <1>3, <1>4, <2>2, <2>3, <2>4, <2>6 DEF up, turned, down, l
<1>6. CASE k # 0
  <2>1. (-k) % Width = l
    <3>1. l \in 0 .. Width - 1 /\ -k = Width * (-1) + l /\ -1 \in Int /\ Width > 0 /\ -k \in Int
      BY <1>1, <1>6
    <3> HIDE DEF l
    <3> DEFINE n == -k
    <3> HIDE DEF n
    <3>2. n % Width = l
      BY <1>1, <3>1, UniqueQuotient DEF n
    <3> QED
      BY <3>2 DEF n
  <2>2. ~(l >= Width) /\ l \in Nat
    BY <1>1, <1>6
  <2> HIDE DEF l
  <2>3. down = turned
    BY <2>1, <2>2 DEF shxo
  <2>4. turned \in Word
    BY <2>1, <2>2, QuotientBits
  <2> HIDE DEF up, turned, down
  <2>5. up \in Int /\ turned \in Int
    BY <1>2, <2>4, WordFacts
  <2>6. Or(up, turned) \in Word
    BY <2>5, BitwiseBits
  <2> QED
    BY <1>2, <1>3, <1>4, <2>3, <2>4, <2>6 DEF up, turned, down, l
<1> QED
  BY <1>5, <1>6

RotateState ==
  program = RotateByShifts /\ start.r[0] < Width =>
    LET k == start.r[0]
        a == start.r[1]
        up == Wrap(a * bitPositions[k])
        down == shxo("shro", a, Width - k)
    IN /\ pc = 2 => r = [start.r EXCEPT ![2] = rotate(a, k)]
       /\ pc = 3 => r = [start.r EXCEPT ![2] = rotate(a, k), ![3] = up]
       /\ pc = 4 => r = [start.r EXCEPT ![2] = rotate(a, k), ![3] = up, ![0] = Width - k]
       /\ pc = 5 => r[1] = down /\ r[2] = rotate(a, k) /\ r[3] = up
       /\ pc = 6 => r[2] = r[3]

LEMMA RotateStep ==
  ASSUME IInv, Next, RotateState
  PROVE  RotateState'
<1>1. SUFFICES ASSUME program = RotateByShifts, start.r[0] < Width PROVE RotateState'
  BY StepExecutes DEF RotateState
<1>2. /\ Len(program.code) = 5
      /\ program.code[1] = I("Rotate", 0, 1, 2) /\ program.code[2] = I("shlo", 0, 1, 3)
      /\ program.code[3] = I("Subtract", 0, Lit(Width), 0) /\ program.code[4] = I("shro", 0, 1, 1)
      /\ program.code[5] = I("Or", 1, 3, 3)
  BY <1>1 DEF RotateByShifts, Program, I
<1>3. /\ pc \in 1 .. 5 /\ pc' = pc + 1 /\ program' = program /\ start' = start
      /\ program.code[pc] \in Instruction /\ Execute(program.code[pc])
  BY <1>2, StepExecutes
<1>4. Registers = 0 .. 7 /\ start.r \in [Registers -> Word] /\ r \in [Registers -> Word]
  BY RegisterWords
<1> DEFINE k == start.r[0]
           a == start.r[1]
           x == rotate(a, k)
           up == Wrap(a * bitPositions[k])
           l == Width - k
           down == shxo("shro", a, l)
<1>5. k \in Positions /\ a \in Word /\ ~(k >= Width) /\ k \in Word
  <2>1. k \in Word /\ a \in Word /\ k < Width
    BY <1>1, <1>4
  <2> HIDE DEF k, a
  <2> QED
    BY <2>1, InPositions
<1>6. x' = x /\ up' = up /\ l' = l /\ down' = down
  BY <1>3 DEF rotate, shxo
<1>7. x \in Word /\ up \in Word /\ l \in Word /\ down \in Word /\ x = Or(up, down)
  <2> HIDE DEF k, a
  <2> QED
    BY <1>5, RotatedByShifts
<1> DEFINE Now == /\ pc = 2 => r = [start.r EXCEPT ![2] = x]
                  /\ pc = 3 => r = [start.r EXCEPT ![2] = x, ![3] = up]
                  /\ pc = 4 => r = [start.r EXCEPT ![2] = x, ![3] = up, ![0] = l]
                  /\ pc = 5 => r[1] = down /\ r[2] = x /\ r[3] = up
           Then == /\ pc' = 2 => r' = [start.r EXCEPT ![2] = x]
                   /\ pc' = 3 => r' = [start.r EXCEPT ![2] = x, ![3] = up]
                   /\ pc' = 4 => r' = [start.r EXCEPT ![2] = x, ![3] = up, ![0] = l]
                   /\ pc' = 5 => r'[1] = down /\ r'[2] = x /\ r'[3] = up
                   /\ pc' = 6 => r'[2] = r'[3]
<1>8. Now
  BY <1>1 DEF RotateState
<1>9. SUFFICES Then
  BY <1>3, <1>6 DEF RotateState
<1> HIDE DEF x, up, l, down
<1>10. CASE pc = 1
  <2> DEFINE i == program.code[1]
  <2>1. i.op = "Rotate" /\ i.src1 = 0 /\ i.src2 = 1 /\ i.dest = 2 /\ i \in Instruction /\ Execute(i)
    BY <1>2, <1>3, <1>10 DEF I
  <2> HIDE DEF i
  <2>2. r = start.r
    BY <1>10 DEF IInv, Started
  <2>3. Src1(i) = k /\ Src2(i) = a
    BY <1>4, <2>1, <2>2, OperandValues DEF Src1, Src2
  <2>4. arithmeticOp(i.op, i.type, Src2(i), Src1(i)) = {x}
    BY <1>5, <2>1, <2>3 DEF arithmeticOp, x
  <2>5. r' = [start.r EXCEPT ![2] = x]
    BY <1>7, <2>1, <2>2, <2>4, ArithmeticDone DEF ArithmeticOps
  <2> QED
    BY <1>3, <1>10, <2>5
<1>11. CASE pc = 2
  <2> DEFINE i == program.code[2]
  <2>1. i.op = "shlo" /\ i.src1 = 0 /\ i.src2 = 1 /\ i.dest = 3 /\ i \in Instruction /\ Execute(i)
    BY <1>2, <1>3, <1>11 DEF I
  <2> HIDE DEF i
  <2>2. r = [start.r EXCEPT ![2] = x]
    BY <1>8, <1>11
  <2>3. Src1(i) = k /\ Src2(i) = a
    BY <1>4, <2>1, <2>2, OperandValues DEF Src1, Src2
  <2>4. shxo("shlo", a, k) = up
    BY <1>5 DEF shxo, up
  <2>5. i.op \in OneResult /\ Results(i) = {up}
    BY <2>1, <2>3, <2>4 DEF Results, OneResult, LogicalOps, ArithmeticOps
  <2>6. r' = [r EXCEPT ![3] = up]
    BY <1>7, <2>1, <2>5, Computed
  <2>7. r' = [start.r EXCEPT ![2] = x, ![3] = up]
    BY <2>2, <2>6
  <2> QED
    BY <1>3, <1>11, <2>7
<1>12. CASE pc = 3
  <2> DEFINE i == program.code[3]
  <2>1. i.op = "Subtract" /\ i.type = "Ordinal" /\ i.src1 = 0 /\ i.src2 = Lit(Width) /\ i.dest = 0
        /\ i \in Instruction /\ Execute(i)
    BY <1>2, <1>3, <1>12 DEF I
  <2> HIDE DEF i
  <2>2. r = [start.r EXCEPT ![2] = x, ![3] = up]
    BY <1>8, <1>12
  <2>3. Src1(i) = k /\ Src2(i) = Width
    BY <1>4, <2>1, <2>2, WidthFits, OperandValues DEF Src1, Src2
  <2>4. Wrap(l) = l
    BY <1>7, WrapOfWord
  <2>5. arithmeticOp(i.op, i.type, Src2(i), Src1(i)) = {l}
    BY <2>1, <2>3, <2>4 DEF arithmeticOp, As, l
  <2>6. r' = [r EXCEPT ![0] = l]
    BY <1>7, <2>1, <2>5, ArithmeticDone DEF ArithmeticOps
  <2>7. r' = [start.r EXCEPT ![2] = x, ![3] = up, ![0] = l]
    BY <2>2, <2>6
  <2> QED
    BY <1>3, <1>12, <2>7
<1>13. CASE pc = 4
  <2> DEFINE i == program.code[4]
  <2>1. i.op = "shro" /\ i.src1 = 0 /\ i.src2 = 1 /\ i.dest = 1 /\ i \in Instruction /\ Execute(i)
    BY <1>2, <1>3, <1>13 DEF I
  <2> HIDE DEF i
  <2>2. r = [start.r EXCEPT ![2] = x, ![3] = up, ![0] = l]
    BY <1>8, <1>13
  <2>3. r[0] = l /\ r[1] = a /\ r[2] = x /\ r[3] = up
    BY <1>4, <2>2
  <2>4. Src1(i) = l /\ Src2(i) = a
    BY <1>4, <2>1, <2>3, OperandValues DEF Src1, Src2
  <2> HIDE DEF a
  <2>5. i.op \in OneResult /\ Results(i) = {shxo("shro", a, l)}
    BY <2>1, <2>4 DEF Results, OneResult, LogicalOps, ArithmeticOps
  <2>6. r' = [r EXCEPT ![1] = down]
    BY <1>7, <2>1, <2>5, Computed DEF down
  <2>7. r'[1] = down /\ r'[2] = x /\ r'[3] = up
    BY <1>4, <2>3, <2>6
  <2> QED
    BY <1>3, <1>13, <2>7
<1>14. CASE pc = 5
  <2> DEFINE i == program.code[5]
  <2>1. i.op = "Or" /\ i.src1 = 1 /\ i.src2 = 3 /\ i.dest = 3 /\ i \in Instruction /\ Execute(i)
    BY <1>2, <1>3, <1>14 DEF I
  <2> HIDE DEF i
  <2>2. r[1] = down /\ r[2] = x /\ r[3] = up
    BY <1>8, <1>14
  <2>3. Src1(i) = down /\ Src2(i) = up
    BY <1>4, <2>1, <2>2, OperandValues DEF Src1, Src2
  <2>4. i.op \in OneResult /\ Results(i) = {x}
    BY <1>7, <2>1, <2>3, OrResult
  <2>5. r' = [r EXCEPT ![3] = x]
    BY <1>7, <2>1, <2>4, Computed
  <2>6. r'[2] = x /\ r'[3] = x
    BY <1>4, <2>2, <2>5
  <2> QED
    BY <1>3, <1>14, <2>6
<1> QED
  BY <1>3, <1>10, <1>11, <1>12, <1>13, <1>14

\* A word shifted left and back keeps the bits that fit.
LEMMA ShiftedBack ==
  ASSUME NEW a \in Word, NEW k \in Word
  PROVE  /\ shxo("shlo", a, k) \in Word /\ shxo("shro", shxo("shlo", a, k), k) \in Word
         /\ shxo("shro", shxo("shlo", a, k), k) =
              IF k >= Width THEN 0 ELSE a % bitPositions[Width - k]
<1>1. k \in Nat /\ Width \in Nat /\ 0 \in Word
  BY WordFacts, ByteFacts
<1>2. CASE k >= Width
  BY <1>1, <1>2 DEF shxo
<1>3. CASE ~(k >= Width)
  <2> DEFINE x == Wrap(a * bitPositions[k])
             y == x \div bitPositions[k]
             z == a % bitPositions[Width - k]
  <2>1. x \in Word /\ BitsOf(x) = {n \in Positions : n >= k /\ n - k \in BitsOf(a)}
    BY <1>1, ProductBits
  <2>2. shxo("shlo", a, k) = x /\ shxo("shro", x, k) = y
    BY <1>3 DEF shxo
  <2>3. Width - k \in Nat
    BY <1>1, <1>3
  <2>4. z \in Word /\ BitsOf(z) = {n \in BitsOf(a) : n < Width - k}
    BY <2>3, RestBits
  <2> HIDE DEF x
  <2>5. y \in Word /\ BitsOf(y) = {n \in Positions : n + k \in BitsOf(x)}
    BY <1>1, <2>1, QuotientBits
  <2> HIDE DEF y, z
  <2>6. ASSUME NEW n \in Positions
        PROVE  n + k \in BitsOf(x) <=> n \in BitsOf(a) /\ n < Width - k
    <3> DEFINE m == n + k
    <3>1. m \in Nat /\ m >= k /\ m - k = n /\ (m \in Positions <=> n < Width - k)
      BY <1>1, <1>3, WordFacts DEF Positions
    <3> HIDE DEF m
    <3>2. m \in BitsOf(x) <=> n \in BitsOf(a) /\ n < Width - k
      BY <2>1, <3>1
    <3> QED
      BY <3>2 DEF m
  <2>7. BitsOf(a) \subseteq Positions
    BY DEF BitsOf
  <2>8. BitsOf(y) = BitsOf(z)
    BY <2>4, <2>5, <2>6, <2>7
  <2>9. y = z
    BY <2>4, <2>5, <2>8, EqualBits
  <2> QED
    BY <1>3, <2>1, <2>2, <2>5, <2>9 DEF z
<1> QED
  BY <1>2, <1>3

LowBitsState ==
  program = LowBits =>
    LET k == start.r[0]
        a == start.r[1]
    IN /\ pc = 2 => r = [start.r EXCEPT ![2] = shxo("shlo", a, k)]
       /\ pc = 3 => r[2] = shxo("shro", shxo("shlo", a, k), k)

LEMMA LowBitsStep ==
  ASSUME IInv, Next, LowBitsState
  PROVE  LowBitsState'
<1>1. SUFFICES ASSUME program = LowBits PROVE LowBitsState'
  BY StepExecutes DEF LowBitsState
<1>2. /\ Len(program.code) = 2
      /\ program.code[1] = I("shlo", 0, 1, 2) /\ program.code[2] = I("shro", 0, 2, 2)
  BY <1>1 DEF LowBits, Program, I
<1>3. /\ pc \in 1 .. 2 /\ pc' = pc + 1 /\ program' = program /\ start' = start
      /\ program.code[pc] \in Instruction /\ Execute(program.code[pc])
  BY <1>2, StepExecutes
<1>4. Registers = 0 .. 7 /\ start.r \in [Registers -> Word] /\ r \in [Registers -> Word]
  BY RegisterWords
<1> DEFINE k == start.r[0]
           a == start.r[1]
           x == shxo("shlo", a, k)
           y == shxo("shro", x, k)
<1>5. x' = x /\ y' = y
  BY <1>3 DEF shxo
<1>6. x \in Word /\ y \in Word
  <2>1. k \in Word /\ a \in Word
    BY <1>4
  <2> HIDE DEF k, a
  <2> QED
    BY <2>1, ShiftedBack
<1> HIDE DEF x, y
<1>7. CASE pc = 1
  <2> DEFINE i == program.code[1]
  <2>1. i.op = "shlo" /\ i.src1 = 0 /\ i.src2 = 1 /\ i.dest = 2 /\ i \in Instruction /\ Execute(i)
    BY <1>2, <1>3, <1>7 DEF I
  <2> HIDE DEF i
  <2>2. r = start.r
    BY <1>7 DEF IInv, Started
  <2>3. Src1(i) = k /\ Src2(i) = a
    BY <1>4, <2>1, <2>2, OperandValues DEF Src1, Src2
  <2>4. i.op \in OneResult /\ Results(i) = {x}
    BY <2>1, <2>3 DEF Results, OneResult, LogicalOps, ArithmeticOps, x
  <2>5. r' = [start.r EXCEPT ![2] = x]
    BY <1>6, <2>1, <2>2, <2>4, Computed
  <2>6. pc' = 2 /\ r' = [start'.r EXCEPT ![2] = x']
    BY <1>3, <1>5, <1>7, <2>5
  <2> QED
    BY <2>6 DEF LowBitsState, x
<1>8. CASE pc = 2
  <2> DEFINE i == program.code[2]
  <2>1. i.op = "shro" /\ i.src1 = 0 /\ i.src2 = 2 /\ i.dest = 2 /\ i \in Instruction /\ Execute(i)
    BY <1>2, <1>3, <1>8 DEF I
  <2> HIDE DEF i
  <2>2. r = [start.r EXCEPT ![2] = x]
    BY <1>1, <1>8 DEF LowBitsState, x
  <2>3. Src1(i) = k /\ Src2(i) = x
    BY <1>4, <2>1, <2>2, OperandValues DEF Src1, Src2
  <2>4. i.op \in OneResult /\ Results(i) = {y}
    BY <2>1, <2>3 DEF Results, OneResult, LogicalOps, ArithmeticOps, y
  <2>5. r' = [r EXCEPT ![2] = y]
    BY <1>6, <2>1, <2>4, Computed
  <2>6. pc' = 3 /\ r'[2] = y'
    BY <1>3, <1>4, <1>5, <1>8, <2>5
  <2> QED
    BY <2>6 DEF LowBitsState, x, y
<1> QED
  BY <1>3, <1>7, <1>8

-------------------------------------------------------------------------------
(* bswap, to another register.                                               *)

LEMMA BswapDone ==
  ASSUME IInv, NEW i \in Instruction, Execute(i), i.op = "bswap"
  PROVE  /\ i.src1 \in Registers /\ i.src2 \in Registers /\ halted' = halted
         /\ \A j \in Registers : j # i.src2 => r'[j] = r[j]
         /\ i.src1 # i.src2 => \A k \in 0 .. 3 : byteOf(r'[i.src2], k) = byteOf(r[i.src1], 3 - k)
<1> DEFINE s1 == swapByte(r, i, 0)
           s2 == swapByte(s1, i, 1)
           s3 == swapByte(s2, i, 2)
           s4 == swapByte(s3, i, 3)
           to == i.src2
           from == i.src1
<1>1. bswap(i)
  BY HandlerOf DEF OneResult, LogicalOps, ArithmeticOps
<1>2. r' = s4 /\ halted' = halted /\ to \in Registers /\ from \in Registers
  BY <1>1 DEF bswap, Instruction
<1>3. r \in [Registers -> Word]
  BY RegisterWords
<1>4. /\ s1 \in [Registers -> Word]
      /\ \A j \in Registers : j # to => s1[j] = r[j]
      /\ \A k \in 0 .. 3 : byteOf(s1[to], k) = IF k = 3 THEN byteOf(r[from], 0) ELSE byteOf(r[to], k)
  BY <1>3, ByteSwapped
<1> HIDE DEF s1
<1>5. /\ s2 \in [Registers -> Word]
      /\ \A j \in Registers : j # to => s2[j] = s1[j]
      /\ \A k \in 0 .. 3 : byteOf(s2[to], k) = IF k = 2 THEN byteOf(s1[from], 1) ELSE byteOf(s1[to], k)
  BY <1>4, ByteSwapped
<1> HIDE DEF s2
<1>6. /\ s3 \in [Registers -> Word]
      /\ \A j \in Registers : j # to => s3[j] = s2[j]
      /\ \A k \in 0 .. 3 : byteOf(s3[to], k) = IF k = 1 THEN byteOf(s2[from], 2) ELSE byteOf(s2[to], k)
  BY <1>5, ByteSwapped
<1> HIDE DEF s3
<1>7. /\ s4 \in [Registers -> Word]
      /\ \A j \in Registers : j # to => s4[j] = s3[j]
      /\ \A k \in 0 .. 3 : byteOf(s4[to], k) = IF k = 0 THEN byteOf(s3[from], 3) ELSE byteOf(s3[to], k)
  BY <1>6, ByteSwapped
<1> HIDE DEF s4
<1>8. \A j \in Registers : j # to => r'[j] = r[j]
  BY <1>2, <1>4, <1>5, <1>6, <1>7
<1>9. ASSUME from # to, NEW k \in 0 .. 3 PROVE byteOf(r'[to], k) = byteOf(r[from], 3 - k)
  <2>1. s1[from] = r[from] /\ s2[from] = r[from] /\ s3[from] = r[from]
    BY <1>2, <1>4, <1>5, <1>6, <1>9
  <2>2. /\ byteOf(s4[to], 0) = byteOf(r[from], 3) /\ byteOf(s4[to], 1) = byteOf(r[from], 2)
        /\ byteOf(s4[to], 2) = byteOf(r[from], 1) /\ byteOf(s4[to], 3) = byteOf(r[from], 0)
    BY <1>4, <1>5, <1>6, <1>7, <2>1
  <2>3. k = 0 \/ k = 1 \/ k = 2 \/ k = 3
    OBVIOUS
  <2> QED
    BY <1>2, <2>2, <2>3
<1> QED
  BY <1>2, <1>8, <1>9

SwapState ==
  /\ program = SwapTwice =>
       /\ pc = 2 => r[0] = start.r[0] /\ Reversed(r[1], start.r[0])
       /\ pc = 3 => r[2] = start.r[0] /\ Reversed(r[1], start.r[0])

LEMMA SwapTwiceStep ==
  ASSUME IInv, Next, SwapState, program = SwapTwice
  PROVE  SwapState'
<1>1. /\ Len(program.code) = 2
      /\ program.code[1] = I("bswap", 0, 1, 7) /\ program.code[2] = I("bswap", 1, 2, 7)
  BY DEF SwapTwice, Program, I
<1>2. /\ pc \in 1 .. 2 /\ pc' = pc + 1 /\ program' = program /\ start' = start
      /\ program.code[pc] \in Instruction /\ Execute(program.code[pc])
  BY <1>1, StepExecutes
<1>3. Registers = 0 .. 7 /\ start.r \in [Registers -> Word] /\ r \in [Registers -> Word]
  BY RegisterWords
<1>4. CASE pc = 1
  <2> DEFINE i == program.code[1]
  <2>1. i.op = "bswap" /\ i.src1 = 0 /\ i.src2 = 1 /\ i \in Instruction /\ Execute(i)
    BY <1>1, <1>2, <1>4 DEF I
  <2> HIDE DEF i
  <2>2. r = start.r
    BY <1>4 DEF IInv, Started
  <2>3. r'[0] = start.r[0] /\ \A k \in 0 .. 3 : byteOf(r'[1], k) = byteOf(start.r[0], 3 - k)
    BY <1>3, <2>1, <2>2, BswapDone
  <2>4. Reversed(r'[1], start.r[0])
    BY <2>3 DEF Reversed
  <2>5. Reversed(r[1], start.r[0])' <=> Reversed(r'[1], start.r[0])
    BY <1>2 DEF Reversed, byteOf
  <2> QED
    BY <1>1, <1>2, <1>4, <2>3, <2>4, <2>5 DEF SwapState
<1>5. CASE pc = 2
  <2> DEFINE i == program.code[2]
             a == start.r[0]
  <2>1. i.op = "bswap" /\ i.src1 = 1 /\ i.src2 = 2 /\ i \in Instruction /\ Execute(i)
    BY <1>1, <1>2, <1>5 DEF I
  <2> HIDE DEF i
  <2>2. Reversed(r[1], a)
    BY <1>5 DEF SwapState
  <2>3. r'[1] = r[1] /\ \A k \in 0 .. 3 : byteOf(r'[2], k) = byteOf(r[1], 3 - k)
    BY <1>3, <2>1, BswapDone
  <2>4. r'[2] \in Word /\ a \in Word
    <3>1. IInv'
      BY NextInvariant
    <3>2. r' \in [Registers -> Word]
      BY <3>1 DEF IInv, Contents
    <3> QED
      BY <1>3, <3>2
  <2>5. \A n \in 0 .. 3 : byteOf(r[1], n) = byteOf(a, 3 - n)
    BY <2>2 DEF Reversed
  <2> HIDE DEF a
  <2>6. ASSUME NEW n \in 0 .. 3 PROVE byteOf(r'[2], n) = byteOf(a, n)
    <3>1. 3 - n \in 0 .. 3 /\ 3 - (3 - n) = n
      OBVIOUS
    <3> QED
      BY <2>3, <2>5, <3>1
  <2>7. r'[2] = a
    BY <2>4, <2>6, EqualBytes
  <2>8. Reversed(r[1], a)' <=> Reversed(r'[1], a)
    BY <1>2 DEF Reversed, byteOf, a
  <2> QED
    BY <1>1, <1>2, <1>5, <2>2, <2>3, <2>7, <2>8 DEF SwapState, a
<1> QED
  BY <1>2, <1>4, <1>5

LEMMA FieldsStep ==
  IInv /\ FieldState /\ RotateState /\ LowBitsState /\ SwapState /\ [Next]_vars
  => FieldState' /\ RotateState' /\ LowBitsState' /\ SwapState'
<1>1. ASSUME UNCHANGED vars, FieldState PROVE FieldState'
  BY <1>1 DEF vars, FieldState, Inserted, Extracted
<1>2. ASSUME UNCHANGED vars, RotateState PROVE RotateState'
  BY <1>2 DEF vars, RotateState, rotate, shxo
<1>3. ASSUME UNCHANGED vars, LowBitsState PROVE LowBitsState'
  BY <1>3 DEF vars, LowBitsState, shxo
<1>4. ASSUME UNCHANGED vars, SwapState PROVE SwapState'
  BY <1>4 DEF vars, SwapState, Reversed, byteOf
<1>5. ASSUME IInv, Next, SwapState, program # SwapTwice PROVE SwapState'
  BY <1>5, StepExecutes DEF SwapState
<1>6. ASSUME IInv, Next, SwapState PROVE SwapState'
  BY <1>5, <1>6, SwapTwiceStep
<1> QED
  BY <1>1, <1>2, <1>3, <1>4, <1>6, FieldStep, RotateStep, LowBitsStep

\* A field that modify puts in is what extract takes out (Core.cc:803-811 and
\* 867-874), a rotation is two shifts (Types.h:307-309), shlo undone by shro
\* keeps the bits that fit (Core.h:677-688), and bswap reverses the bytes of a
\* word into another register (ExtendedInstructions.cc:37-52).
THEOREM FieldsCorrect == Spec => []FieldsMove
<1>1. Init => FieldState /\ RotateState /\ LowBitsState /\ SwapState
  BY DEF Init, FieldState, RotateState, LowBitsState, SwapState
<1>2. IInv /\ FieldState /\ RotateState /\ LowBitsState /\ SwapState => FieldsMove
  <2> SUFFICES ASSUME IInv, FieldState, RotateState, LowBitsState, SwapState PROVE FieldsMove
    OBVIOUS
  <2>1. /\ Len(RotateByShifts.code) = 5 /\ Len(LowBits.code) = 2
        /\ Len(SwapTwice.code) = 2
    BY DEF RotateByShifts, LowBits, SwapTwice, Program
  <2>2. \A p : Done({p}) => program = p /\ pc = Len(p.code) + 1
    BY DEF Done
  <2>3. ASSUME Done(Fields) PROVE r[1] = r[0]
    <3>1. program \in Fields /\ pc = Len(program.code) + 1
      BY <2>3 DEF Done
    <3>2. PICK pos \in Positions : \E len \in Lengths(pos) : program = Field(pos, len)
      BY <3>1 DEF Fields, Lengths
    <3>3. PICK len \in Lengths(pos) : program = Field(pos, len)
      BY <3>2
    <3>4. Len(program.code) = 4
      BY <3>3 DEF Field, Program
    <3>5. pc = 5
      BY <3>1, <3>4
    <3> QED
      BY <3>3, <3>5 DEF FieldState
  <2>4. ASSUME Done({RotateByShifts}), was(0) < Width PROVE r[2] = r[3]
    <3>1. program = RotateByShifts /\ pc = Len(RotateByShifts.code) + 1
      BY <2>2, <2>4
    <3>2. pc = 6
      BY <2>1, <3>1
    <3> QED
      BY <2>4, <3>1, <3>2 DEF RotateState, was
  <2>5. ASSUME Done({LowBits})
        PROVE  r[2] = IF was(0) >= Width THEN 0 ELSE was(1) % bitPositions[Width - was(0)]
    <3>1. program = LowBits /\ pc = Len(LowBits.code) + 1
      BY <2>2, <2>5
    <3>2. pc = 3
      BY <2>1, <3>1
    <3>3. r[2] = shxo("shro", shxo("shlo", was(1), was(0)), was(0))
      BY <3>1, <3>2 DEF LowBitsState, was
    <3>4. was(0) \in Word /\ was(1) \in Word
      BY RegisterWords DEF was
    <3> QED
      BY <3>3, <3>4, ShiftedBack
  <2>6. ASSUME Done({SwapTwice}) PROVE r[2] = was(0) /\ Reversed(r[1], was(0))
    <3>1. program = SwapTwice /\ pc = Len(SwapTwice.code) + 1
      BY <2>2, <2>6
    <3>2. pc = 3
      BY <2>1, <3>1
    <3> QED
      BY <3>1, <3>2 DEF SwapState, was
  <2> QED
    BY <2>3, <2>4, <2>5, <2>6 DEF FieldsMove
<1> QED
  BY <1>1, <1>2, FieldsStep, Invariant, PTL DEF Spec
====
