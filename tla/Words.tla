-------------------------------- MODULE Words ---------------------------------
(*****************************************************************************)
(* Words of the processor: unsigned and signed, and as sets of bits.         *)
(*                                                                           *)
(* A word has Width bits, 32 in the code.  The bit operations of C++ are     *)
(* defined by the bits of their operands, and so need no recursion.          *)
(*****************************************************************************)
EXTENDS Integers

CONSTANT Width

ASSUME WidthAssumption == Width \in Nat /\ Width >= 2

\* The table bitPositions goes on where the code's ends.
bitPositions[n \in Nat] == IF n = 0 THEN 1 ELSE 2 * bitPositions[n - 1]

Modulus == bitPositions[Width]
AllOnes == Modulus - 1
Word == 0 .. AllOnes

Wrap(n) == n % Modulus
Complement(a) == AllOnes - a
Negative(a) == a >= Modulus \div 2
Integer(a) == IF Negative(a) THEN a - Modulus ELSE a

-------------------------------------------------------------------------------
(* Bits.                                                                     *)

Positions == 0 .. Width - 1

Bit(a, n) == (a \div bitPositions[n]) % 2

BitsOf(a) == {n \in Positions : Bit(a, n) = 1}

WordOf(bits) == CHOOSE a \in Word : BitsOf(a) = bits

And(a, b) == WordOf(BitsOf(a) \intersect BitsOf(b))
Or(a, b) == WordOf(BitsOf(a) \union BitsOf(b))
Xor(a, b) == WordOf((BitsOf(a) \ BitsOf(b)) \union (BitsOf(b) \ BitsOf(a)))
====
