------------------------------- MODULE Idioms ---------------------------------
(*****************************************************************************)
(* Idioms of the instruction set, and what each of them has to leave behind. *)
(*                                                                           *)
(* An idiom is a program for Arithmetic: instructions whose results are      *)
(* known from each other, so that what they compute together is judged, and  *)
(* not one definition by its like.  Every word is tried in every register a  *)
(* program reads.                                                            *)
(*****************************************************************************)
EXTENDS Arithmetic

Lit(n) == NumRegisters + n

\* op with operands src1 and src2 to dest; the ordinal form where two exist.
I(op, src1, src2, dest) ==
  [op |-> op, type |-> "Ordinal", src1 |-> src1, src2 |-> src2, dest |-> dest]
T(type, op, src1, src2, dest) ==
  [op |-> op, type |-> type, src1 |-> src1, src2 |-> src2, dest |-> dest]

Program(inputs, acs, code) == [inputs |-> inputs, acs |-> acs, code |-> code]

Duals == {<<"And", "Nand">>, <<"Or", "Nor">>, <<"Xor", "Xnor">>,
          <<"AndNot", "NotOr">>, <<"NotAnd", "OrNot">>, <<"mov", "Not">>}

Complements == {Program(2, {0}, <<I(d[1], 0, 1, 2), I(d[2], 0, 1, 3)>>) : d \in Duals}

CopyBit == Program(3, {0, 15}, <<I("chkbit", 0, 1, 7), I("alterbit", 0, 2, 2)>>)

OneBit ==
  Program(2, {0},
    <<I("setbit", 0, 1, 2), I("clrbit", 0, 1, 3), I("Xor", 2, 3, 2),
      I("notbit", 0, 1, 3), I("Xor", 3, 1, 3)>>)

Scan ==
  Program(1, 0 .. 15,
    <<I("Not", 0, 0, 3), I("spanbit", 3, 0, 2), I("scanbit", 0, 0, 1), I("clrbit", 1, 0, 3)>>)

FindByte == Program(2, 0 .. 15, <<I("Xor", 0, 1, 2), I("scanbyte", 0, 1, 7)>>)

SwapTwice == Program(1, {0}, <<I("bswap", 0, 1, 7), I("bswap", 1, 2, 7)>>)

RotateByShifts ==
  Program(2, {0},
    <<I("Rotate", 0, 1, 2), I("shlo", 0, 1, 3), I("Subtract", 0, Lit(Width), 0),
      I("shro", 0, 1, 1), I("Or", 1, 3, 3)>>)

\* A field of len bits at pos is put in and taken out.
Ones(len) == bitPositions[len] - 1
Field(pos, len) ==
  Program(2, {0},
    <<I("modify", Lit(Ones(len) * bitPositions[pos]), 0, 1),
      I("extract", Lit(pos), Lit(len), 1),
      I("shro", Lit(pos), 0, 0), I("And", 0, Lit(Ones(len)), 0)>>)
Fields == UNION {{Field(pos, len) : len \in 1 .. Width - (IF pos = 0 THEN 1 ELSE pos)}
                 : pos \in Positions}

Product == Program(2, {0}, <<I("emul", 0, 1, 2), I("ediv", 0, 2, 2)>>)

ProductInPlace ==
  Program(2, {0}, <<I("mov", 0, 0, 4), I("emul", 0, 1, 1), I("ediv", 4, 1, 0)>>)

LongQuotient ==
  Program(3, {0},
    <<I("movl", 1, 0, 5), I("ediv", 2, 0, 1), I("emul", 1, 2, 6), I("addc", 0, 6, 6)>>)

QuotientByHalf == Program(2, {0}, <<I("movl", 0, 0, 4), I("ediv", 0, 1, 0)>>)

Quotients ==
  {Program(2, {0},
     <<T(type, "Divide", 0, 1, 2), T(type, "Remainder", 0, 1, 3),
       T(type, "Multiply", 2, 0, 2), T(type, "Add", 2, 3, 2)>>) : type \in Types}

Modulo == Program(2, {0}, <<T("Integer", "Remainder", 0, 1, 2), I("modi", 0, 1, 3)>>)

Ranges ==
  {Program(3, {0, 7, 8}, <<T(type, "cmp", 0, 1, 7), T(type, "concmp", 2, 1, 7)>>) : type \in Types}

Counts ==
  {Program(2, {0, 15}, <<T(type, ops[1], 0, 1, dest), T(type, ops[2], 0, dest, 3)>>)
   : type \in Types, ops \in {<<"cmpinc", "cmpdec">>, <<"cmpdec", "cmpinc">>}, dest \in {1, 2}}

LowBits == Program(2, {0}, <<I("shlo", 0, 1, 2), I("shro", 0, 2, 2)>>)

ShiftRight ==
  Program(2, {0},
    <<T("Integer", "ShiftRight", 0, 1, 2), T("Integer", "ShiftLeft", 0, 2, 2),
      I("Subtract", 2, 1, 2)>>)

ShiftDivide ==
  Program(2, {0},
    <<I("shlo", 0, Lit(1), 2), T("Integer", "Divide", 2, 1, 3), I("shrdi", 0, 1, 2)>>)

AddTwoWords == Program(4, {0}, <<I("addc", 0, 2, 4), I("addc", 1, 3, 5)>>)

SubtractWords == Program(2, {0, 1}, <<I("subc", 0, 1, 2), I("Subtract", 0, 1, 3)>>)

ChangeControls == Program(3, {0, 5, 10, 15}, <<I("modac", 3, 1, 2), I("modac", 4, 3, 2)>>)

ChangeTrace == Program(2, 0 .. 15, <<I("modtc", 3, 1, 0), I("modtc", 4, 3, 0)>>)

Blocks == {Program(3, {0}, <<I("mov", 0, 0, 7), I(op, src, 0, 6)>>)
           : op \in {"movl", "movt", "movq"}, src \in {0, 3, Lit(5)}}

IdiomPrograms ==
  Complements \union Fields \union Quotients \union Ranges \union Counts \union Blocks \union
  {CopyBit, OneBit, Scan, FindByte, SwapTwice, RotateByShifts, Product,
   ProductInPlace, LongQuotient, QuotientByHalf, Modulo, LowBits, ShiftRight, ShiftDivide,
   AddTwoWords, SubtractWords, ChangeControls, ChangeTrace}

-------------------------------------------------------------------------------
(* Properties.                                                               *)

\* One of the programs has come to its end.
Done(programs) == program \in programs /\ pc = Len(program.code) + 1 /\ ~halted

\* What a register held before the program.
was(n) == start.r[n]

TypeOK ==
  /\ r \in [Registers -> Word] /\ {ac, tc} \subseteq Word
  /\ pc \in 1 .. Len(program.code) + 1
  /\ halted \in BOOLEAN

Reversed(a, b) == \A n \in 0 .. 3 : byteOf(a, n) = byteOf(b, 3 - n)

\* The two operations of each pair take their operands in the same order and
\* are complements (logicalOpGeneric).
ComplementaryOperations == Done(Complements) => r[2] + r[3] = AllOnes

\* The bit instructions agree on what a bit is: chkbit and alterbit copy one,
\* setbit and clrbit differ in the one notbit flips, scanbit finds the
\* highest one, which clrbit takes away, and spanbit the same among zeros.
BitsAgree ==
  /\ Done({CopyBit}) =>
       LET pos        == was(0) % Width
           Without(a) == a - Bit(a, pos) * bitPositions[pos]
       IN Bit(r[2], pos) = Bit(was(1), pos) /\ Without(r[2]) = Without(was(2))
  /\ Done({OneBit}) => r[2] = r[3] /\ r[2] = bitPositions[was(0) % Width]
  /\ Done({Scan}) =>
       /\ r[1] = r[2]
       /\ getConditionCode = (IF was(0) = 0 THEN 0 ELSE 2)
       /\ was(0) = 0 => r[1] = AllOnes
       /\ was(0) # 0 => was(0) = bitPositions[r[1]] + r[3] /\ r[3] < bitPositions[r[1]]
  /\ Done({FindByte}) => (getConditionCode = 2 <=> \E n \in 0 .. 3 : byteOf(r[2], n) = 0)

\* Shifts, rotation, modify and extract move fields without losing bits:
\* a field that modify inserts is what extract takes out, a rotation is two
\* shifts, and shlo undone by shro keeps the bits that fit.  bswap reverses the
\* bytes of one register into another; in place it does not, as its comment
\* would have it (ExtendedInstructions.cc:39-45): the lower two bytes are copied
\* back from where they have just been copied to (line 50).
FieldsMove ==
  /\ Done(Fields) => r[1] = r[0]
  /\ Done({RotateByShifts}) /\ was(0) < Width => r[2] = r[3]
  /\ Done({LowBits}) =>
       r[2] = IF was(0) >= Width THEN 0 ELSE was(1) % bitPositions[Width - was(0)]
  /\ Done({SwapTwice}) => r[2] = was(0) /\ Reversed(r[1], was(0))

\* shri rounds down, as its manual's algorithm does (Core.h:483-497), and shrdi is
\* a division by a power of two (Core.cc:789), within the width of a word.
ShiftsDivide ==
  /\ Done({ShiftRight}) /\ was(0) < Width => r[2] < bitPositions[was(0)]
  /\ Done({ShiftDivide}) /\ was(0) < Width => r[2] = r[3]

\* A product and its quotient fit, whichever registers they overwrite; a long
\* dividend is quotient times divisor and remainder if the quotient is a
\* word.  The destination may be what the dividend or the divisor is read from,
\* and only a division by zero faults.
LongDivision ==
  /\ Done({Product}) => r[2] = 0 /\ r[3] = was(1)
  /\ Done({ProductInPlace}) => r[0] = 0 /\ r[1] = was(1)
  /\ Done({LongQuotient}) /\ was(1) < was(2) =>
       r[6] = was(0) /\ r[7] + getConditionCode \div 2 = was(1)
  /\ Done({QuotientByHalf}) =>
       /\ r[0] < was(0)
       /\ (r[4] + Modulus * r[5] - r[0]) % was(0) = 0
       /\ ((r[4] + Modulus * r[5] - r[0]) \div was(0)) % Modulus = r[1]
  /\ halted /\ program \in {Product, ProductInPlace, QuotientByHalf} => was(0) = 0
  /\ halted /\ program = LongQuotient => was(2) = 0

\* Quotient and remainder belong together, and modi differs from the
\* remainder by at most the divisor.  Its sign is the divisor's as long as the
\* product it tests fits a word.
ModuloFollowsDivisor ==
  /\ Done(Quotients) /\ was(0) # 0 => r[2] = was(1)
  /\ halted /\ program = Modulo => was(0) = 0
  /\ Done({Modulo}) =>
       LET d == Integer(was(0))
           n == Integer(was(1))
           m == Integer(r[3])
       IN /\ r[3] \in {r[2], Wrap(r[2] + was(0))}
          /\ n * d \in -(Modulus \div 2) .. Modulus \div 2 - 1 =>
               m = 0 \/ ((m < 0) = (d < 0) /\ Magnitude(m) < Magnitude(d))

\* A conditional compare after a compare tells on which side of a range a
\* value is, and the compares that count judge the values before the step,
\* also when they overwrite one of them.
ComparesCombine ==
  /\ Done(Ranges) =>
       LET V(n) == As(program.code[1].type, was(n))
       IN getConditionCode = IF V(0) < V(1) THEN 4 ELSE IF V(2) <= V(1) THEN 2 ELSE 1
  /\ Done(Counts) =>
       LET type == program.code[1].type
           step == IF program.code[1].op = "cmpinc" THEN 1 ELSE -1
       IN /\ r[3] = was(1)
          /\ getConditionCode =
               compareGeneric(As(type, was(0)), As(type, Wrap(was(1) + step)))

\* addc adds the two words of a sum exactly when its carry and its overflow
\* agree on the lower word: it takes its carry from the overflow bit
\* (Register.h:352).  subc with that bit clear is one more than subtract.
CarryIsOverflow ==
  /\ Done({AddTwoWords}) =>
       LET Sum  == was(0) + was(2)
           over == /\ Negative(was(0)) = Negative(was(2))
                   /\ Negative(was(0)) # Negative(Wrap(Sum))
           top  == Wrap(was(1) + was(3) + Sum \div Modulus)
       IN r[4] = Wrap(Sum) /\ (r[5] = top <=> (over <=> Sum >= Modulus))
  /\ Done({SubtractWords}) => r[2] = Wrap(r[3] + 1 + start.ac)

\* Changing controls under a mask and putting back what the instruction
\* returned under the same mask restores them, and only bits of the mask change.
ControlsRestored ==
  /\ Done({ChangeControls}) =>
       ac = start.ac /\ r[4] = modify(was(2), was(1), start.ac) /\ r[3] = start.ac
  /\ Done({ChangeTrace}) => tc = start.ac /\ r[4] = modify(was(0), was(1), tc) /\ r[3] = tc

\* Only the condition code of the arithmetic controls changes, but for modac.
OtherControlsStay ==
  (\A k \in DOMAIN program.code : program.code[k].op # "modac") =>
    ac \div 8 = start.ac \div 8

\* Blocks move as aligned groups, whatever the last bits of the indexes, and
\* a literal fills the upper words of its group with zeros.
BlocksMoveWhole ==
  Done(Blocks) =>
    LET i    == program.code[2]
        n    == CASE i.op = "movl" -> 2 [] i.op = "movt" -> 3 [] i.op = "movq" -> 4
        to   == IF n = 2 THEN 6 ELSE 4
        from == IF n = 2 /\ i.src1 = 3 THEN 2 ELSE 0
    IN \A j \in Registers :
         r[j] = IF j \notin to .. to + n - 1
                THEN was(IF j = 7 THEN 0 ELSE j)
                ELSE IF i.src1 \in Registers
                     THEN was(from + j - to)
                     ELSE IF j = to THEN 5 ELSE 0
===============================================================================
