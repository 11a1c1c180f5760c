------------------------------ MODULE Arithmetic ------------------------------
(*****************************************************************************)
(* The instructions that compute: logical, arithmetic, shift, bit, compare   *)
(* and move handlers (src/src/Core.cc, src/include/Core.h,                   *)
(* src/src/ExtendedInstructions.cc), on the registers and the arithmetic     *)
(* controls (src/include/Register.h).                                        *)
(*                                                                           *)
(* The machine runs one short program from any contents of some registers.   *)
(* Words have four bytes as in the code, of as many bits as Width allows.    *)
(* Where C++ leaves a result undefined, any word may come out of it; signed  *)
(* overflow of +, - and * wraps, as on the AVR.                              *)
(*****************************************************************************)
EXTENDS Words, Sequences

CONSTANT
  Programs    \* records [inputs, acs, code]: inputs registers may start with
              \* any word, the two controls with any of acs

VARIABLES
  r,         \* the registers
  ac, tc,    \* arithmetic and trace controls; the condition code is ac % 8
  program,   \* the program that runs
  pc,        \* the position of the next instruction in it
  halted,    \* generateFault was called
  start      \* what r and ac were before the program

vars == <<r, ac, tc, program, pc, halted, start>>

ASSUME ByteAssumption == Width % 4 = 0

ByteBits == Width \div 4   \* 8 in the code
LongWord == Modulus * Modulus

\* A register index past the registers is a literal.
NumRegisters == 8
Registers == 0 .. NumRegisters - 1

-------------------------------------------------------------------------------
(* Words.                                                                    *)

\* An operand of type T: "Ordinal" or "Integer".
As(T, a) == IF T = "Integer" THEN Integer(a) ELSE a

\* Division and remainder of C++, which round toward zero.
Magnitude(n) == IF n < 0 THEN -n ELSE n
Quotient(n, d) ==
  IF (n < 0) = (d < 0)
  THEN Magnitude(n) \div Magnitude(d)
  ELSE -(Magnitude(n) \div Magnitude(d))
Rest(n, d) == n - Quotient(n, d) * d

getBitPosition(value) == bitPositions[value % Width]

byteOf(a, i) == (a \div bitPositions[ByteBits * i]) % bitPositions[ByteBits]
withByte(a, i, b) == a + (b - byteOf(a, i)) * bitPositions[ByteBits * i]

-------------------------------------------------------------------------------
(* Operands: read whole before anything is written.                          *)

getOperand(index) == IF index \in Registers THEN r[index] ELSE index - NumRegisters

\* Groups of registers ignore the last bits of their index.
First(index, n) == index - (index % n)

getLongOperand(index) ==
  IF index \in Registers
  THEN r[First(index, 2)] + Modulus * r[First(index, 2) + 1]
  ELSE index - NumRegisters

Src1(i) == getOperand(i.src1)
Src2(i) == getOperand(i.src2)

setDestination(i, value) == r' = [r EXCEPT ![i.dest] = Wrap(value)]

\* Low word first.
setLongDestination(i, low, high) ==
  r' = [r EXCEPT ![First(i.dest, 2)] = low, ![First(i.dest, 2) + 1] = high]

getConditionCode == ac % 8
\* Fault: the code is written to all of the controls.
WholeControls(value) == value

withConditionCode(value) == ac - getConditionCode + value
setConditionCode(value) == ac' = withConditionCode(value)

-------------------------------------------------------------------------------
(* Handlers with one result, which leave the controls alone.                 *)

\* Fault: the operands of OrNot swapped.
OrNotSwapped(op, src2, src1) ==
  CASE op = "And"    -> And(src2, src1)
    [] op = "Or"     -> Or(src2, src1)
    [] op = "Not"    -> Complement(src1)
    [] op = "Xor"    -> Xor(src2, src1)
    [] op = "Xnor"   -> Complement(Xor(src2, src1))
    [] op = "Nor"    -> Complement(Or(src2, src1))
    [] op = "Nand"   -> Complement(And(src2, src1))
    [] op = "AndNot" -> And(src2, Complement(src1))
    [] op = "NotAnd" -> And(Complement(src2), src1)
    [] op = "OrNot"  -> Or(Complement(src2), src1)
    [] op = "NotOr"  -> Or(Complement(src2), src1)

logicalOp(op, src2, src1) ==
  CASE op = "And"    -> And(src2, src1)
    [] op = "Or"     -> Or(src2, src1)
    [] op = "Not"    -> Complement(src1)
    [] op = "Xor"    -> Xor(src2, src1)
    [] op = "Xnor"   -> Complement(Xor(src2, src1))
    [] op = "Nor"    -> Complement(Or(src2, src1))
    [] op = "Nand"   -> Complement(And(src2, src1))
    [] op = "AndNot" -> And(src2, Complement(src1))
    [] op = "NotAnd" -> And(Complement(src2), src1)
    [] op = "OrNot"  -> Or(src2, Complement(src1))
    [] op = "NotOr"  -> Or(Complement(src2), src1)

LogicalOps == {"And", "Or", "Not", "Xor", "Xnor", "Nor", "Nand",
               "AndNot", "NotAnd", "OrNot", "NotOr"}

rotate(src, length) ==
  Or(Wrap(src * bitPositions[length]), src \div bitPositions[(-length) % Width])

\* What arithmeticGeneric may leave in its destination.
arithmeticOp(op, T, src2, src1) ==
  LET a == As(T, src2)
      b == As(T, src1)
  IN CASE op = "Add"        -> {Wrap(a + b)}
       [] op = "Subtract"   -> {Wrap(a - b)}
       [] op = "Multiply"   -> {Wrap(a * b)}
       [] op = "Divide"     -> IF b = 0 THEN Word ELSE {Wrap(Quotient(a, b))}
       [] op = "Remainder"  -> IF b = 0 THEN Word ELSE {Wrap(Rest(a, b))}
       [] op = "Rotate"     -> IF src1 >= Width THEN Word ELSE {rotate(src2, src1)}
       [] op = "ShiftLeft"  -> IF src1 >= Width THEN Word ELSE {Wrap(src2 * bitPositions[src1])}
       [] op = "ShiftRight" -> IF src1 >= Width THEN Word ELSE {Wrap(a \div bitPositions[src1])}

ArithmeticOps == {"Add", "Subtract", "Multiply", "Divide", "Remainder",
                  "Rotate", "ShiftLeft", "ShiftRight"}

shxo(op, src, len) ==
  IF len >= Width
  THEN 0
  ELSE IF op = "shlo" THEN Wrap(src * bitPositions[len]) ELSE src \div bitPositions[len]

\* Fault: rounds down, as shri does.
ShrdiRoundsDown(src, len) ==
  IF Negative(len) THEN Word
  ELSE IF len >= Width THEN {0}
  ELSE {Wrap(Integer(src) \div bitPositions[len])}

\* The length is signed: a negative one indexes before bitPositions.
shrdi(src, len) ==
  IF Negative(len) THEN Word
  ELSE IF len >= Width THEN {0}
  ELSE {Wrap(Quotient(Integer(src), Integer(bitPositions[len])))}

\* Fault: the length of the field is one more than asked for.
ExtractOneMore(dest, bitpos, len) ==
  IF bitpos >= Width \/ len >= Width
  THEN Word
  ELSE {And(dest \div bitPositions[bitpos], Complement(Wrap(AllOnes * bitPositions[len + 1])))}

extract(dest, bitpos, len) ==
  IF bitpos >= Width \/ len >= Width
  THEN Word
  ELSE {And(dest \div bitPositions[bitpos], Complement(Wrap(AllOnes * bitPositions[len])))}

modify(mask, src, srcDest) == Or(And(src, mask), And(srcDest, Complement(mask)))

notbit(src, pos) == Xor(src, getBitPosition(pos))
setbit(src, pos) == Or(src, getBitPosition(pos))
clrbit(src, pos) == And(src, Complement(getBitPosition(pos)))

\* Fault: the bit follows the lowest bit of the condition code.
AlterByCarryBit(src, pos) ==
  IF Bit(getConditionCode, 0) = 1 THEN setbit(src, pos) ELSE clrbit(src, pos)

alterbit(src, pos) ==
  IF Bit(getConditionCode, 1) = 1 THEN setbit(src, pos) ELSE clrbit(src, pos)

\* The words that an instruction with one result may produce.
Results(i) ==
  CASE i.op \in LogicalOps        -> {logicalOp(i.op, Src2(i), Src1(i))}
    [] i.op \in ArithmeticOps     -> arithmeticOp(i.op, i.type, Src2(i), Src1(i))
    [] i.op \in {"shlo", "shro"}  -> {shxo(i.op, Src2(i), Src1(i))}
    [] i.op = "shrdi"             -> shrdi(Src2(i), Src1(i))
    [] i.op = "extract"           -> extract(r[i.dest], Src1(i), Src2(i))
    [] i.op = "modify"            -> {modify(Src1(i), Src2(i), r[i.dest])}
    [] i.op = "notbit"            -> {notbit(Src2(i), Src1(i))}
    [] i.op = "setbit"            -> {setbit(Src2(i), Src1(i))}
    [] i.op = "clrbit"            -> {clrbit(Src2(i), Src1(i))}
    [] i.op = "alterbit"          -> {alterbit(Src2(i), Src1(i))}
    [] i.op = "mov"               -> {Src1(i)}

OneResult == LogicalOps \union ArithmeticOps
  \union {"shlo", "shro", "shrdi", "extract", "modify", "notbit", "setbit",
          "clrbit", "alterbit", "mov"}

compute(i) ==
  /\ i.op \in OneResult
  /\ \E value \in Results(i) : setDestination(i, value)
  /\ UNCHANGED <<ac, tc, halted>>

-------------------------------------------------------------------------------
(* Handlers that work on more than one register.                             *)

\* Fault: a triple moves its fourth register as well.
TripleMovesFour(i) ==
  /\ i.op \in {"movl", "movt", "movq"}
  /\ LET n      == IF i.op = "movl" THEN 2 ELSE 4
         to     == First(i.dest, n)
         Part(k) == IF i.src1 \in Registers
                    THEN r[First(i.src1, n) + k]
                    ELSE IF k = 0 THEN i.src1 - NumRegisters ELSE 0
     IN r' = [j \in Registers |-> IF j \in to .. to + n - 1 THEN Part(j - to) ELSE r[j]]
  /\ UNCHANGED <<ac, tc, halted>>

\* movl, movt and movq; the fourth register of a triple stays.
move(i) ==
  /\ i.op \in {"movl", "movt", "movq"}
  /\ LET n      == CASE i.op = "movl" -> 2 [] i.op = "movt" -> 3 [] i.op = "movq" -> 4
         group  == IF n = 2 THEN 2 ELSE 4
         to     == First(i.dest, group)
         Part(k) == IF i.src1 \in Registers
                    THEN r[First(i.src1, group) + k]
                    ELSE IF k = 0 THEN i.src1 - NumRegisters ELSE 0
     IN r' = [j \in Registers |-> IF j \in to .. to + n - 1 THEN Part(j - to) ELSE r[j]]
  /\ UNCHANGED <<ac, tc, halted>>

emul(i) ==
  /\ i.op = "emul"
  /\ LET product == Src2(i) * Src1(i)
     IN setLongDestination(i, product % Modulus, product \div Modulus)
  /\ UNCHANGED <<ac, tc, halted>>

\* Fault: the quotient is computed after the remainder is stored.
EdivReadsAgain(i) ==
  /\ i.op = "ediv"
  /\ \/ Src1(i) = 0 /\ halted' = TRUE /\ UNCHANGED r
     \/ /\ Src1(i) # 0
        /\ LET n    == getLongOperand(i.src2)
               rest == n % Src1(i)
               d    == IF i.src1 = First(i.dest, 2) THEN rest ELSE Src1(i)
           IN setLongDestination(i, rest, IF d = 0 THEN 0 ELSE Wrap(n \div d))
        /\ UNCHANGED halted
  /\ UNCHANGED <<ac, tc>>

ediv(i) ==
  /\ i.op = "ediv"
  /\ \/ Src1(i) = 0 /\ halted' = TRUE /\ UNCHANGED r
     \/ /\ Src1(i) # 0
        /\ LET n == getLongOperand(i.src2)
           IN setLongDestination(i, n % Src1(i), Wrap(n \div Src1(i)))
        /\ UNCHANGED halted
  /\ UNCHANGED <<ac, tc>>

\* Fault: the divisor is always added to a remainder that is not zero.
ModiAlwaysAdds(i) ==
  /\ i.op = "modi"
  /\ LET d == Integer(Src1(i))
         n == Integer(Src2(i))
     IN \/ d = 0 /\ halted' = TRUE /\ UNCHANGED r
        \/ /\ d # 0
           /\ setDestination(i, IF Rest(n, d) # 0 THEN Rest(n, d) + d ELSE Rest(n, d))
           /\ UNCHANGED halted
  /\ UNCHANGED <<ac, tc>>

\* The product is only tested for its sign; when it overflows the test may
\* see the wrapped word or the true sign.
modi(i) ==
  /\ i.op = "modi"
  /\ LET d == Integer(Src1(i))
         n == Integer(Src2(i))
     IN \/ d = 0 /\ halted' = TRUE /\ UNCHANGED r
        \/ /\ d # 0
           /\ \E negative \in {n * d < 0, Negative(Wrap(n * d))} :
                setDestination(i, IF negative /\ Rest(n, d) # 0
                                  THEN Rest(n, d) + d
                                  ELSE Rest(n, d))
           /\ UNCHANGED halted
  /\ UNCHANGED <<ac, tc>>

\* From the source register as it then is.
swapByte(registers, i, n) ==
  [registers EXCEPT ![i.src2] = withByte(@, 3 - n, byteOf(registers[i.src1], n))]

bswap(i) ==
  /\ i.op = "bswap"
  /\ r' = swapByte(swapByte(swapByte(swapByte(r, i, 0), i, 1), i, 2), i, 3)
  /\ UNCHANGED <<ac, tc, halted>>

-------------------------------------------------------------------------------
(* Handlers that set the condition code.                                     *)

compareGeneric(a, b) == IF a < b THEN 4 ELSE IF a = b THEN 2 ELSE 1

\* cmpo, cmpi, and the forms that step their second operand.
cmpx(i) ==
  /\ i.op \in {"cmp", "cmpinc", "cmpdec"}
  /\ setConditionCode(compareGeneric(As(i.type, Src1(i)), As(i.type, Src2(i))))
  /\ CASE i.op = "cmp"    -> UNCHANGED r
       [] i.op = "cmpinc" -> setDestination(i, Src2(i) + 1)
       [] i.op = "cmpdec" -> setDestination(i, Src2(i) - 1)
  /\ UNCHANGED <<tc, halted>>

\* Fault: made whatever the comparison before found.
ConcmpAlways(i) ==
  /\ i.op = "concmp"
  /\ setConditionCode(IF As(i.type, Src1(i)) <= As(i.type, Src2(i)) THEN 2 ELSE 1)
  /\ UNCHANGED <<r, tc, halted>>

concmpGeneric(i) ==
  /\ i.op = "concmp"
  /\ IF Bit(getConditionCode, 2) = 0
     THEN setConditionCode(IF As(i.type, Src1(i)) <= As(i.type, Src2(i)) THEN 2 ELSE 1)
     ELSE UNCHANGED ac
  /\ UNCHANGED <<r, tc, halted>>

chkbit(i) ==
  /\ i.op = "chkbit"
  /\ setConditionCode(IF And(Src2(i), getBitPosition(Src1(i))) = 0 THEN 0 ELSE 2)
  /\ UNCHANGED <<r, tc, halted>>

\* scanbit and spanbit: from the top bit down.
sxbit(i) ==
  /\ i.op \in {"scanbit", "spanbit"}
  /\ LET wanted == IF i.op = "scanbit" THEN 1 ELSE 0
         found  == {n \in Positions : Bit(Src1(i), n) = wanted}
     IN IF found = {}
        THEN setDestination(i, AllOnes) /\ setConditionCode(0)
        ELSE /\ setDestination(i, CHOOSE n \in found : \A m \in found : m <= n)
             /\ setConditionCode(2)
  /\ UNCHANGED <<tc, halted>>

\* Takes registers only.
scanbyte(i) ==
  /\ i.op = "scanbyte"
  /\ setConditionCode(IF \E n \in 0 .. 3 : byteOf(r[i.src1], n) = byteOf(r[i.src2], n)
                      THEN 2 ELSE 0)
  /\ UNCHANGED <<r, tc, halted>>

\* Fault: the carry comes out of a sum without the carry that came in.
CarryOfOperands(i) ==
  /\ i.op \in {"addc", "subc"}
  /\ LET carry == getConditionCode % 2
         sum   == Src2(i) + Src1(i) + carry
     IN /\ setDestination(i, sum)
        /\ setConditionCode(IF Src2(i) + Src1(i) >= Modulus THEN 2 ELSE 0)
  /\ UNCHANGED <<tc, halted>>

\* The carry that goes in is read from the bit that overflow is put in.
\* "look for overflow" is the same test for a sum and a difference.
withCarryOperationGeneric(i) ==
  /\ i.op \in {"addc", "subc"}
  /\ LET carry  == getConditionCode % 2
         result == IF i.op = "addc"
                   THEN Src2(i) + Src1(i) + carry
                   ELSE (Src2(i) - (Src1(i) - 1) + carry) % LongWord
         over   == /\ Negative(Src1(i)) = Negative(Src2(i))
                   /\ Negative(Src2(i)) # Negative(Wrap(result))
     IN /\ setDestination(i, result)
        /\ setConditionCode((IF over THEN 1 ELSE 0) + (IF result >= Modulus THEN 2 ELSE 0))
  /\ UNCHANGED <<tc, halted>>

-------------------------------------------------------------------------------
(* Handlers that exchange the controls with registers.                       *)

\* Fault: the new value of the controls is what the register gets.
ModacReturnsNew(i) ==
  /\ i.op = "modac"
  /\ ac' = modify(getOperand(i.dest), Src2(i), ac)
  /\ r' = [r EXCEPT ![i.src1] = ac']
  /\ UNCHANGED <<tc, halted>>

\* The register that gets the old controls is src1.
modac(i) ==
  /\ i.op = "modac"
  /\ ac' = modify(getOperand(i.dest), Src2(i), ac)
  /\ r' = [r EXCEPT ![i.src1] = ac]
  /\ UNCHANGED <<tc, halted>>

modtc(i) ==
  /\ i.op = "modtc"
  /\ tc' = modify(getOperand(i.dest), Src2(i), tc)
  /\ r' = [r EXCEPT ![i.src1] = tc]
  /\ UNCHANGED <<ac, halted>>

-------------------------------------------------------------------------------
(* Programs.                                                                 *)

Types == {"Ordinal", "Integer"}
Ops == OneResult \union
  {"movl", "movt", "movq", "emul", "ediv", "modi", "bswap", "cmp", "cmpinc", "cmpdec", "concmp",
   "chkbit", "scanbit", "spanbit", "scanbyte", "addc", "subc", "modac", "modtc"}

\* What the tables dispatch: only modac and modtc take a literal for dest, and
\* fields that name a register to work on name one (Dispatch).
Operands == 0 .. NumRegisters + AllOnes
Instruction ==
  {i \in [op : Ops, type : Types, src1 : Operands, src2 : Operands, dest : Operands] :
     /\ i.op \in {"modac", "modtc"} \/ i.dest \in Registers
     /\ i.op \in {"modac", "modtc", "bswap", "scanbyte"} => i.src1 \in Registers
     /\ i.op \in {"bswap", "scanbyte"} => i.src2 \in Registers}

ASSUME ProgramAssumption ==
  \A p \in Programs :
    p.inputs \in 0 .. NumRegisters /\ p.acs \subseteq Word /\ p.code \in Seq(Instruction)

-------------------------------------------------------------------------------
(* Running a program.                                                        *)

Init ==
  /\ program \in Programs
  /\ \E inputs \in [0 .. program.inputs - 1 -> Word] :
       r = [n \in Registers |-> IF n \in DOMAIN inputs THEN inputs[n] ELSE 0]
  /\ ac \in program.acs
  /\ tc = ac
  /\ pc = 1
  /\ halted = FALSE
  /\ start = [r |-> r, ac |-> ac]

Execute(i) ==
  \/ compute(i) \/ move(i) \/ emul(i) \/ ediv(i) \/ modi(i) \/ bswap(i)
  \/ cmpx(i) \/ concmpGeneric(i) \/ chkbit(i) \/ sxbit(i) \/ scanbyte(i)
  \/ withCarryOperationGeneric(i) \/ modac(i) \/ modtc(i)

Next ==
  /\ ~halted
  /\ pc <= Len(program.code)
  /\ Execute(program.code[pc])
  /\ pc' = pc + 1
  /\ UNCHANGED <<program, start>>

Spec == Init /\ [][Next]_vars
====
