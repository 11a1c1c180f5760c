----------------------------- MODULE Words_proofs -----------------------------
(*****************************************************************************)
(* Powers of two, quotients, and the bits of words of any width.             *)
(*                                                                           *)
(* bitPositions is a recursive function, and a word has Width bits: each     *)
(* fact about all numbers is proved from a least one for which it would not  *)
(* hold.                                                                     *)
(*****************************************************************************)
EXTENDS Words, WellFoundedInduction, TLAPS

-------------------------------------------------------------------------------
(* Powers of two.                                                            *)

\* Induction over numbers, as a fact about sets: what holds nowhere first
\* holds nowhere.
LEMMA LeastNumber ==
  ASSUME NEW S \in SUBSET Nat, S # {}
  PROVE  \E m \in S : \A n \in S : m <= n
<1>1. PICK m \in S : \A n \in S : <<n, m>> \notin OpToRel(<, Nat)
  BY WFMin, NatLessThanWellFounded
<1>2. \A n \in S : <<n, m>> \in OpToRel(<, Nat) <=> n < m
  BY DEF OpToRel
<1>3. \A n \in S : ~(n < m)
  BY <1>1, <1>2, Zenon
<1>4. m \in Nat /\ \A n \in S : n \in Nat
  OBVIOUS
<1> HIDE <1>1, <1>2
<1> QED
  BY <1>3, <1>4

Doubling(n, g) == g \in [0 .. n -> Nat] /\ \A k \in 0 .. n : g[k] = IF k = 0 THEN 1 ELSE 2 * g[k - 1]

LEMMA DoublingExists == ASSUME NEW n \in Nat PROVE \E g : Doubling(n, g)
<1> DEFINE S == {k \in Nat : ~ \E g : Doubling(k, g)}
<1> SUFFICES ASSUME S # {} PROVE FALSE
  OBVIOUS
<1>1. PICK m \in S : \A k \in S : m <= k
  BY LeastNumber
<1>2. m # 0
  <2>1. Doubling(0, [k \in 0 .. 0 |-> 1])
    BY DEF Doubling
  <2> QED
    BY <2>1
<1>3. m \in Nat /\ m - 1 \in Nat /\ m - 1 \notin S
  BY <1>1, <1>2
<1>4. PICK h : Doubling(m - 1, h)
  BY <1>3
<1> DEFINE g == [k \in 0 .. m |-> IF k = m THEN 2 * h[m - 1] ELSE h[k]]
<1>5. Doubling(m, g)
  <2>1. g \in [0 .. m -> Nat]
    BY <1>3, <1>4 DEF Doubling
  <2>2. ASSUME NEW k \in 0 .. m PROVE g[k] = IF k = 0 THEN 1 ELSE 2 * g[k - 1]
    <3>1. CASE k = m
      BY <1>2, <1>3, <3>1
    <3>2. CASE k # m
      BY <1>3, <1>4, <3>2 DEF Doubling
    <3> QED
      BY <3>1, <3>2
  <2> QED
    BY <2>1, <2>2 DEF Doubling
<1> QED
  BY <1>5

LEMMA DoublingUnique ==
  ASSUME NEW m \in Nat, NEW n \in Nat, NEW g, NEW h, Doubling(m, g), Doubling(n, h),
         NEW k \in Nat, k <= m, k <= n
  PROVE  g[k] = h[k]
<1> DEFINE S == {j \in Nat : j <= m /\ j <= n /\ g[j] # h[j]}
<1> SUFFICES ASSUME S # {} PROVE FALSE
  OBVIOUS
<1>1. PICK j \in S : \A i \in S : j <= i
  BY LeastNumber
<1>2. j # 0
  BY <1>1 DEF Doubling
<1>3. g[j - 1] = h[j - 1]
  BY <1>1, <1>2
<1> QED
  BY <1>1, <1>2, <1>3 DEF Doubling

\* The table of powers is what its definition says.
LEMMA Powers ==
  /\ bitPositions \in [Nat -> Nat]
  /\ bitPositions[0] = 1
  /\ \A n \in Nat : bitPositions[n + 1] = 2 * bitPositions[n]
<1> DEFINE f == [n \in Nat |-> (CHOOSE g : Doubling(n, g))[n]]
<1>1. \A n \in Nat : Doubling(n, CHOOSE g : Doubling(n, g))
  BY DoublingExists
<1>2. ASSUME NEW n \in Nat PROVE f[n] \in Nat /\ f[n] = IF n = 0 THEN 1 ELSE 2 * f[n - 1]
  <2> DEFINE h == CHOOSE g : Doubling(n, g)
  <2>1. Doubling(n, h)
    BY <1>1
  <2>2. f[n] = h[n]
    OBVIOUS
  <2>3. CASE n = 0
    BY <2>1, <2>2, <2>3 DEF Doubling
  <2>4. CASE n # 0
    <3> DEFINE h1 == CHOOSE g : Doubling(n - 1, g)
    <3>1. n - 1 \in Nat
      BY <2>4
    <3>2. Doubling(n - 1, h1)
      BY <1>1, <3>1
    <3>3. f[n - 1] = h1[n - 1]
      BY <3>1
    <3> HIDE DEF h, h1, f
    <3>4. h1[n - 1] = h[n - 1]
      BY <2>1, <3>1, <3>2, DoublingUnique
    <3> QED
      BY <2>1, <2>2, <2>4, <3>3, <3>4 DEF Doubling
  <2> QED
    BY <2>3, <2>4
<1> HIDE DEF f
<1>3. f = [n \in Nat |-> IF n = 0 THEN 1 ELSE 2 * f[n - 1]]
  <2>1. f = [n \in Nat |-> f[n]]
    BY DEF f
  <2> QED
    BY <1>2, <2>1
<1> DEFINE Is(g) == g = [n \in Nat |-> IF n = 0 THEN 1 ELSE 2 * g[n - 1]]
<1>4. Is(bitPositions)
  <2>1. bitPositions = CHOOSE g : Is(g)
    BY DEF bitPositions
  <2> HIDE DEF Is
  <2>2. Is(f) => Is(CHOOSE g : Is(g))
    OBVIOUS
  <2> QED
    BY <1>3, <2>1, <2>2 DEF Is
<1>5. \A n \in Nat : bitPositions[n] \in Nat
  <2> DEFINE S == {n \in Nat : bitPositions[n] \notin Nat}
  <2> SUFFICES ASSUME S # {} PROVE FALSE
    OBVIOUS
  <2>1. PICK m \in S : \A n \in S : m <= n
    BY LeastNumber
  <2>2. m # 0
    BY <1>4, <2>1
  <2>3. m - 1 \in Nat /\ bitPositions[m - 1] \in Nat
    BY <2>1, <2>2
  <2> QED
    BY <1>4, <2>1, <2>2, <2>3
<1>6. bitPositions = [n \in Nat |-> bitPositions[n]]
  BY <1>4
<1>7. ASSUME NEW n \in Nat PROVE bitPositions[n + 1] = 2 * bitPositions[n]
  <2>1. n + 1 \in Nat /\ n + 1 # 0 /\ (n + 1) - 1 = n
    OBVIOUS
  <2> HIDE DEF Is
  <2>2. bitPositions[n + 1] = 2 * bitPositions[(n + 1) - 1]
    BY <1>4, <2>1 DEF Is
  <2> QED
    BY <2>1, <2>2
<1>8. bitPositions[0] = 1
  BY <1>4
<1>9. bitPositions \in [Nat -> Nat]
  <2> HIDE DEF Is
  <2> QED
    BY <1>5, <1>6
<1> QED
  BY <1>7, <1>8, <1>9

LEMMA PowerNext ==
  ASSUME NEW n \in Nat
  PROVE  bitPositions[n] \in Nat /\ bitPositions[n + 1] = 2 * bitPositions[n]
BY Powers

LEMMA PowerPositive == ASSUME NEW n \in Nat PROVE bitPositions[n] \in Nat /\ bitPositions[n] > 0
<1> DEFINE S == {k \in Nat : ~(bitPositions[k] > 0)}
<1> SUFFICES ASSUME S # {} PROVE FALSE
  BY Powers
<1>1. PICK m \in S : \A k \in S : m <= k
  BY LeastNumber
<1>2. m # 0
  BY <1>1, Powers
<1>3. m - 1 \in Nat /\ bitPositions[m - 1] > 0 /\ (m - 1) + 1 = m
  BY <1>1, <1>2
<1> QED
  BY <1>1, <1>3, PowerNext

LEMMA PowerSum ==
  ASSUME NEW m \in Nat, NEW n \in Nat
  PROVE  bitPositions[m + n] = bitPositions[m] * bitPositions[n]
<1> DEFINE S == {k \in Nat : bitPositions[m + k] # bitPositions[m] * bitPositions[k]}
<1> SUFFICES ASSUME S # {} PROVE FALSE
  OBVIOUS
<1>1. PICK k \in S : \A j \in S : k <= j
  BY LeastNumber
<1>2. k # 0
  BY <1>1, Powers
<1>3. k - 1 \in Nat /\ bitPositions[m + (k - 1)] = bitPositions[m] * bitPositions[k - 1]
  BY <1>1, <1>2
<1>4. m + (k - 1) \in Nat /\ (m + (k - 1)) + 1 = m + k /\ (k - 1) + 1 = k
  BY <1>1, <1>3
<1>5. bitPositions[m + k] = 2 * bitPositions[m + (k - 1)] /\ bitPositions[k] = 2 * bitPositions[k - 1]
  BY <1>3, <1>4, PowerNext
<1> DEFINE x == bitPositions[m]
           y == bitPositions[k - 1]
<1>6. x \in Nat /\ y \in Nat
  BY <1>3, PowerPositive
<1> HIDE DEF x, y
<1>7. 2 * (x * y) = x * (2 * y)
  BY <1>6
<1> QED
  BY <1>1, <1>3, <1>5, <1>7 DEF x, y

LEMMA PowerLess ==
  ASSUME NEW m \in Nat, NEW n \in Nat, m <= n
  PROVE  bitPositions[m] <= bitPositions[n] /\ (m < n => bitPositions[m] < bitPositions[n])
<1> DEFINE x == bitPositions[m]
           y == bitPositions[n - m]
<1>1. n - m \in Nat /\ m + (n - m) = n
  OBVIOUS
<1>2. bitPositions[n] = x * y /\ x \in Nat /\ x > 0 /\ y \in Nat /\ y > 0
  <2>1. bitPositions[m + (n - m)] = x * y
    BY <1>1, PowerSum
  <2> QED
    BY <1>1, <2>1, PowerPositive
<1>3. m < n => y >= 2
  <2> SUFFICES ASSUME m < n PROVE y >= 2
    OBVIOUS
  <2>1. n - m - 1 \in Nat /\ (n - m - 1) + 1 = n - m
    OBVIOUS
  <2>2. y = 2 * bitPositions[n - m - 1]
    BY <2>1, PowerNext
  <2> QED
    BY <2>1, <2>2, PowerPositive
<1> HIDE DEF x, y
<1>4. x <= x * y /\ (y >= 2 => x < x * y)
  <2>1. x * y >= x * 1
    BY <1>2
  <2>2. y >= 2 => x * y >= x * 2
    BY <1>2
  <2>3. x * y \in Int /\ x * 1 = x /\ x * 2 = x + x
    BY <1>2
  <2> QED
    BY <1>2, <2>1, <2>2, <2>3
<1> QED
  BY <1>2, <1>3, <1>4 DEF x

-------------------------------------------------------------------------------
(* Quotients and remainders.                                                 *)

LEMMA Divided ==
  ASSUME NEW S \in Nat, S > 0, NEW a \in Int
  PROVE  a \div S \in Int /\ a % S \in 0 .. S - 1 /\ a = S * (a \div S) + (a % S)
OBVIOUS

LEMMA Multiples ==
  ASSUME NEW S \in Nat, S > 0, NEW p \in Int, NEW q \in Int, p < q
  PROVE  S * p + S <= S * q
<1>1. S * (q - p) >= S * 1
  OBVIOUS
<1> QED
  BY <1>1

LEMMA UniqueQuotient ==
  ASSUME NEW S \in Nat, S > 0, NEW a \in Int, NEW q \in Int, NEW t \in 0 .. S - 1,
         a = S * q + t
  PROVE  a \div S = q /\ a % S = t
<1> DEFINE p == a \div S
           u == a % S
<1>1. p \in Int /\ u \in 0 .. S - 1 /\ a = S * p + u
  BY Divided
<1> HIDE DEF p, u
<1>2. S * p \in Int /\ S * q \in Int
  BY <1>1
<1>3. ~(p < q) /\ ~(q < p)
  BY <1>1, <1>2, Multiples
<1>4. p = q
  BY <1>1, <1>3
<1> QED
  BY <1>1, <1>2, <1>4 DEF p, u

\* Dividing twice.
LEMMA QuotientOfQuotient ==
  ASSUME NEW x \in Nat, x > 0, NEW y \in Nat, y > 0, NEW a \in Int
  PROVE  (a \div x) \div y = a \div (x * y)
<1> DEFINE q == a \div x
           t == a % x
           p == q \div y
           u == q % y
           z == x * y
<1>1. q \in Int /\ t \in 0 .. x - 1 /\ a = x * q + t
  BY Divided
<1>2. p \in Int /\ u \in 0 .. y - 1 /\ q = y * p + u
  BY <1>1, Divided
<1> HIDE DEF q, t, p, u
<1>3. z \in Nat /\ z > 0
  OBVIOUS
<1>4. a = z * p + (x * u + t)
  <2>1. x * (y * p + u) = x * (y * p) + x * u
    BY <1>2
  <2>2. x * (y * p) = z * p
    BY <1>2
  <2>3. x * u \in Int /\ z * p \in Int
    BY <1>2, <1>3
  <2> HIDE DEF z
  <2> QED
    BY <1>1, <1>2, <2>1, <2>2, <2>3
<1>5. x * u + t \in 0 .. z - 1
  <2>1. x * u >= 0 /\ x * u \in Int
    BY <1>2
  <2>2. x * u + x <= x * y
    BY <1>2, Multiples
  <2>3. x * y \in Int
    OBVIOUS
  <2> QED
    BY <1>1, <2>1, <2>2, <2>3
<1> HIDE DEF z
<1>6. a \div z = p
  BY <1>2, <1>3, <1>4, <1>5, UniqueQuotient
<1> QED
  BY <1>6 DEF z, p, q

-------------------------------------------------------------------------------
(* Single bits.                                                              *)

LEMMA BitValue == ASSUME NEW a \in Int, NEW n \in Nat PROVE Bit(a, n) \in {0, 1}
<1>1. a \div bitPositions[n] \in Int
  BY PowerPositive, Divided
<1> QED
  BY <1>1 DEF Bit

LEMMA FirstBit == ASSUME NEW a \in Int PROVE Bit(a, 0) = a % 2
<1>1. a \div 1 = a
  OBVIOUS
<1> QED
  BY <1>1, Powers DEF Bit

\* Bits of half a number are those of the number, one place further.
LEMMA BitOfHalf == ASSUME NEW a \in Int, NEW n \in Nat PROVE Bit(a \div 2, n) = Bit(a, n + 1)
<1>1. (a \div 2) \div bitPositions[n] = a \div (2 * bitPositions[n])
  BY PowerPositive, QuotientOfQuotient
<1> QED
  BY <1>1, PowerNext DEF Bit

LEMMA HalfBelow ==
  ASSUME NEW n \in Nat, NEW a \in 0 .. bitPositions[n + 1] - 1
  PROVE  /\ a \div 2 \in 0 .. bitPositions[n] - 1
         /\ a % 2 \in {0, 1} /\ a = 2 * (a \div 2) + (a % 2)
BY PowerNext

LEMMA SameBits ==
  ASSUME NEW n \in Nat, NEW a \in 0 .. bitPositions[n] - 1, NEW b \in 0 .. bitPositions[n] - 1,
         \A k \in 0 .. n - 1 : Bit(a, k) = Bit(b, k)
  PROVE  a = b
<1> DEFINE Alike(k, x, y) == \A j \in 0 .. k - 1 : Bit(x, j) = Bit(y, j)
           S == {k \in Nat : \E x, y \in 0 .. bitPositions[k] - 1 : Alike(k, x, y) /\ x # y}
<1> SUFFICES S = {}
  OBVIOUS
<1> SUFFICES ASSUME S # {} PROVE FALSE
  OBVIOUS
<1>1. PICK m \in S : \A k \in S : m <= k
  BY LeastNumber
<1>2. PICK x \in 0 .. bitPositions[m] - 1, y \in 0 .. bitPositions[m] - 1 : Alike(m, x, y) /\ x # y
  BY <1>1
<1>3. m # 0
  BY <1>2, Powers
<1> DEFINE k == m - 1
<1>4. k \in Nat /\ k + 1 = m /\ k \notin S
  BY <1>1, <1>3
<1>5. x \in Int /\ y \in Int
  BY <1>4, PowerPositive
<1> HIDE DEF k
<1>6. x \div 2 \in 0 .. bitPositions[k] - 1 /\ y \div 2 \in 0 .. bitPositions[k] - 1
  BY <1>4, HalfBelow
<1>7. Alike(k, x \div 2, y \div 2)
  <2>1. ASSUME NEW j \in 0 .. k - 1 PROVE Bit(x \div 2, j) = Bit(y \div 2, j)
    <3>1. j \in Nat /\ j + 1 \in 0 .. m - 1
      BY <1>4
    <3>2. Bit(x, j + 1) = Bit(y, j + 1)
      BY <1>2, <3>1
    <3> QED
      BY <1>5, <3>1, <3>2, BitOfHalf
  <2> QED
    BY <2>1
<1>8. x \div 2 = y \div 2
  BY <1>4, <1>6, <1>7
<1>9. x % 2 = y % 2
  <2>1. 0 \in 0 .. m - 1
    BY <1>4
  <2>2. Bit(x, 0) = Bit(y, 0)
    BY <1>2, <2>1
  <2> QED
    BY <1>5, <2>2, FirstBit
<1> QED
  BY <1>2, <1>4, <1>8, <1>9, HalfBelow

LEMMA SomeNumber ==
  ASSUME NEW n \in Nat, NEW bits \in SUBSET (0 .. n - 1)
  PROVE  \E a \in 0 .. bitPositions[n] - 1 : \A k \in 0 .. n - 1 : Bit(a, k) = 1 <=> k \in bits
<1> DEFINE Has(k, x, b) == \A j \in 0 .. k - 1 : Bit(x, j) = 1 <=> j \in b
           S == {k \in Nat : \E b \in SUBSET (0 .. k - 1) :
                   ~ \E x \in 0 .. bitPositions[k] - 1 : Has(k, x, b)}
<1> SUFFICES S = {}
  OBVIOUS
<1> SUFFICES ASSUME S # {} PROVE FALSE
  OBVIOUS
<1>1. PICK m \in S : \A k \in S : m <= k
  BY LeastNumber
<1>2. PICK b \in SUBSET (0 .. m - 1) : ~ \E x \in 0 .. bitPositions[m] - 1 : Has(m, x, b)
  BY <1>1
<1>3. m # 0
  <2> SUFFICES ASSUME m = 0 PROVE FALSE
    OBVIOUS
  <2>1. 0 \in 0 .. bitPositions[m] - 1
    BY Powers
  <2>2. Has(m, 0, b)
    OBVIOUS
  <2> QED
    BY <1>2, <2>1, <2>2
<1> DEFINE k == m - 1
           upper == {j \in 0 .. k - 1 : j + 1 \in b}
<1>4. k \in Nat /\ k + 1 = m /\ k \notin S
  BY <1>1, <1>3
<1>5. PICK y \in 0 .. bitPositions[k] - 1 : Has(k, y, upper)
  BY <1>4
<1> DEFINE x == 2 * y + (IF 0 \in b THEN 1 ELSE 0)
<1>6. y \in Int /\ x \in 0 .. bitPositions[m] - 1
  <2>1. bitPositions[m] = 2 * bitPositions[k] /\ bitPositions[k] \in Nat
    BY <1>4, PowerNext
  <2> QED
    BY <2>1
<1>7. x \in Int /\ x \div 2 = y /\ x % 2 = IF 0 \in b THEN 1 ELSE 0
  BY <1>6
<1>8. ASSUME NEW j \in 0 .. m - 1 PROVE Bit(x, j) = 1 <=> j \in b
  <2>1. CASE j = 0
    <3>1. Bit(x, 0) = x % 2
      BY <1>7, FirstBit
    <3> HIDE DEF x
    <3> QED
      BY <1>7, <2>1, <3>1
  <2>2. CASE j # 0
    <3>1. j - 1 \in 0 .. k - 1 /\ j - 1 \in Nat /\ (j - 1) + 1 = j
      BY <1>4, <2>2
    <3>2. Bit(x \div 2, j - 1) = Bit(x, j)
      BY <1>7, <3>1, BitOfHalf
    <3>3. Bit(y, j - 1) = 1 <=> j - 1 \in upper
      BY <1>5, <3>1
    <3> QED
      BY <1>7, <3>1, <3>2, <3>3
  <2> QED
    BY <2>1, <2>2
<1> HIDE DEF x
<1> QED
  BY <1>2, <1>6, <1>8

-------------------------------------------------------------------------------
(* The bits of a number that is put together from two.                       *)

LEMMA Composed ==
  ASSUME NEW k \in Nat, NEW q \in Int, NEW t \in 0 .. bitPositions[k] - 1
  PROVE  /\ bitPositions[k] * q + t \in Int
         /\ (bitPositions[k] * q + t) \div bitPositions[k] = q
         /\ (bitPositions[k] * q + t) % bitPositions[k] = t
<1> DEFINE p == bitPositions[k]
<1>1. p \in Nat /\ p > 0
  BY PowerPositive
<1> HIDE DEF p
<1>2. p * q + t \in Int
  BY <1>1 DEF p
<1>3. t \in 0 .. p - 1
  BY DEF p
<1>4. (p * q + t) \div p = q /\ (p * q + t) % p = t
  BY <1>1, <1>2, <1>3, UniqueQuotient
<1> QED
  BY <1>2, <1>4 DEF p

LEMMA SplitBits ==
  ASSUME NEW k \in Nat, NEW q \in Int, NEW t \in 0 .. bitPositions[k] - 1, NEW n \in Nat
  PROVE  Bit(bitPositions[k] * q + t, n) = IF n < k THEN Bit(t, n) ELSE Bit(q, n - k)
<1> DEFINE p == bitPositions[k]
           x == p * q + t
           s == bitPositions[n]
<1>1. p \in Nat /\ p > 0 /\ s \in Nat /\ s > 0 /\ t \in Int /\ x \in Int
  BY PowerPositive, Composed
<1>2. CASE n < k
  <2> DEFINE u == bitPositions[k - n - 1]
             d == t \div s
             e == t % s
  <2>1. k - n - 1 \in Nat /\ (k - n - 1) + 1 = k - n /\ k - n \in Nat /\ n + (k - n) = k
    BY <1>2
  <2>2. u \in Nat /\ bitPositions[k - n] = 2 * u
    BY <2>1, PowerNext
  <2>3. p = s * (2 * u)
    BY <2>1, <2>2, PowerSum
  <2>4. d \in Int /\ e \in 0 .. s - 1 /\ t = s * d + e
    BY <1>1, Divided
  <2> HIDE DEF p, s, u, d, e
  <2> DEFINE w == 2 * (u * q) + d
  <2>5. w \in Int /\ x = s * w + e
    <3>1. p * q = s * (2 * (u * q)) /\ u * q \in Int
      BY <1>1, <2>2, <2>3
    <3>2. s * (2 * (u * q) + d) = s * (2 * (u * q)) + s * d
      BY <1>1, <2>2, <2>4, <3>1
    <3>3. s * (2 * (u * q)) \in Int /\ s * d \in Int /\ w \in Int
      BY <1>1, <2>2, <2>4, <3>1
    <3> QED
      BY <2>4, <3>1, <3>2, <3>3
  <2> HIDE DEF x
  <2>6. x \div s = w
    <3> HIDE DEF w
    <3> QED
      BY <1>1, <2>4, <2>5, UniqueQuotient
  <2>7. w % 2 = d % 2
    BY <2>2, <2>4
  <2> QED
    BY <1>2, <2>6, <2>7 DEF Bit, d, s, x, p
<1>3. CASE ~(n < k)
  <2> DEFINE v == bitPositions[n - k]
  <2>1. n - k \in Nat /\ k + (n - k) = n
    BY <1>3
  <2>2. v \in Nat /\ v > 0 /\ s = p * v
    <3>1. bitPositions[k + (n - k)] = p * v
      BY <2>1, PowerSum
    <3> QED
      BY <2>1, <3>1, PowerPositive
  <2>3. x \div p = q
    BY Composed
  <2> HIDE DEF p, s, v, x
  <2>4. x \div s = q \div v
    BY <1>1, <2>2, <2>3, QuotientOfQuotient
  <2> QED
    BY <1>3, <2>4 DEF Bit, s, v, x, p
<1> QED
  BY <1>2, <1>3

LEMMA BitPast ==
  ASSUME NEW k \in Nat, NEW t \in 0 .. bitPositions[k] - 1, NEW n \in Nat, k <= n
  PROVE  Bit(t, n) = 0
<1>1. bitPositions[k] <= bitPositions[n] /\ bitPositions[k] \in Nat /\ bitPositions[n] \in Nat
  BY PowerLess, PowerPositive
<1>2. t \div bitPositions[n] = 0
  BY <1>1
<1> QED
  BY <1>2 DEF Bit

LEMMA BitOfRest ==
  ASSUME NEW a \in Int, NEW k \in Nat, NEW n \in Nat
  PROVE  Bit(a % bitPositions[k], n) = IF n < k THEN Bit(a, n) ELSE 0
<1> DEFINE q == a \div bitPositions[k]
           t == a % bitPositions[k]
<1>1. q \in Int /\ t \in 0 .. bitPositions[k] - 1 /\ a = bitPositions[k] * q + t
  BY PowerPositive, Divided
<1> HIDE DEF q, t
<1>2. Bit(a, n) = IF n < k THEN Bit(t, n) ELSE Bit(q, n - k)
  BY <1>1, SplitBits
<1>3. k <= n => Bit(t, n) = 0
  BY <1>1, BitPast
<1>4. Bit(t, n) = IF n < k THEN Bit(a, n) ELSE 0
  BY <1>2, <1>3
<1> QED
  BY <1>4 DEF t

LEMMA BitOfQuotient ==
  ASSUME NEW a \in Int, NEW k \in Nat, NEW n \in Nat
  PROVE  Bit(a \div bitPositions[k], n) = Bit(a, n + k)
<1>1. (a \div bitPositions[k]) \div bitPositions[n] = a \div (bitPositions[k] * bitPositions[n])
  BY PowerPositive, QuotientOfQuotient
<1>2. bitPositions[k] * bitPositions[n] = bitPositions[n + k]
  <2>1. bitPositions[k + n] = bitPositions[k] * bitPositions[n] /\ k + n = n + k
    BY PowerSum
  <2> QED
    BY <2>1
<1> QED
  BY <1>1, <1>2 DEF Bit

LEMMA BitOfProduct ==
  ASSUME NEW a \in Int, NEW k \in Nat, NEW n \in Nat
  PROVE  Bit(a * bitPositions[k], n) = IF n < k THEN 0 ELSE Bit(a, n - k)
<1>1. 0 \in 0 .. bitPositions[k] - 1 /\ bitPositions[k] * a + 0 = a * bitPositions[k]
  BY PowerPositive
<1>2. Bit(0, n) = 0
  <2>1. 0 \in 0 .. bitPositions[0] - 1
    BY Powers
  <2> QED
    BY <2>1, BitPast
<1> QED
  BY <1>1, <1>2, SplitBits

LEMMA BitOfPower ==
  ASSUME NEW k \in Nat, NEW n \in Nat
  PROVE  Bit(bitPositions[k], n) = IF n = k THEN 1 ELSE 0
<1>1. bitPositions[k] \in Int /\ 1 * bitPositions[k] = bitPositions[k]
  BY PowerPositive
<1>2. Bit(bitPositions[k], n) = IF n < k THEN 0 ELSE Bit(1, n - k)
  BY <1>1, BitOfProduct
<1>3. Bit(1, 0) = 1
  BY FirstBit
<1>4. ASSUME NEW j \in Nat, j >= 1 PROVE Bit(1, j) = 0
  <2>1. bitPositions[1] = 2
    <3>1. bitPositions[0 + 1] = 2 * bitPositions[0]
      BY PowerNext
    <3> QED
      BY <3>1, Powers
  <2>2. 1 \in 0 .. bitPositions[1] - 1
    BY <2>1
  <2> QED
    BY <1>4, <2>2, BitPast
<1>5. CASE n < k
  BY <1>2, <1>5
<1>6. CASE n = k
  BY <1>2, <1>3, <1>6
<1>7. CASE n > k
  <2>1. n - k \in Nat /\ n - k >= 1
    BY <1>7
  <2> QED
    BY <1>2, <1>4, <1>7, <2>1
<1> QED
  BY <1>5, <1>6, <1>7

-------------------------------------------------------------------------------
(* Words.                                                                    *)

LEMMA WordFacts ==
  /\ Width \in Nat /\ Width >= 2 /\ Positions \subseteq Nat
  /\ Modulus \in Nat /\ Modulus >= 4 /\ Modulus % 4 = 0
  /\ Modulus = 2 * bitPositions[Width - 1]
  /\ Modulus \div 2 = bitPositions[Width - 1]
  /\ AllOnes \in Word
  /\ Word = 0 .. bitPositions[Width] - 1 /\ Word \subseteq Nat
<1>1. Width \in Nat /\ Width - 1 \in Nat /\ Width - 2 \in Nat /\ (Width - 1) + 1 = Width
      /\ (Width - 2) + 1 = Width - 1
  BY WidthAssumption
<1>2. Modulus = 2 * bitPositions[Width - 1] /\ bitPositions[Width - 1] = 2 * bitPositions[Width - 2]
  BY <1>1, PowerNext DEF Modulus
<1>3. bitPositions[Width - 2] \in Nat /\ bitPositions[Width - 2] > 0
  BY <1>1, PowerPositive
<1> QED
  BY <1>1, <1>2, <1>3, WidthAssumption DEF Word, AllOnes, Positions, Modulus

LEMMA WrapIsWord == ASSUME NEW n \in Int PROVE Wrap(n) \in Word
BY WordFacts DEF Wrap, Word, AllOnes

LEMMA WrapOfWord == ASSUME NEW a \in Word PROVE Wrap(a) = a
<1>1. Modulus \in Nat /\ Modulus > 0 /\ a \in 0 .. Modulus - 1 /\ a \in Int
  BY WordFacts DEF Word, AllOnes
<1>2. a = Modulus * 0 + a
  BY <1>1
<1>3. a % Modulus = a
  BY <1>1, <1>2, UniqueQuotient
<1> QED
  BY <1>3 DEF Wrap

LEMMA ComplementIsWord == ASSUME NEW a \in Word PROVE Complement(a) \in Word
BY WordFacts DEF Complement, Word, AllOnes

LEMMA BitOfWord ==
  ASSUME NEW a \in Word, NEW n \in Nat
  PROVE  Bit(a, n) = IF n \in BitsOf(a) THEN 1 ELSE 0
<1>1. n >= Width => Bit(a, n) = 0
  BY WordFacts, BitPast
<1>2. Bit(a, n) \in {0, 1}
  BY WordFacts, BitValue
<1> QED
  BY <1>1, <1>2, WordFacts DEF BitsOf, Positions

\* A word is known by its bits,
LEMMA EqualBits ==
  ASSUME NEW a \in Word, NEW b \in Word, BitsOf(a) = BitsOf(b)
  PROVE  a = b
<1>1. \A k \in 0 .. Width - 1 : Bit(a, k) = Bit(b, k)
  BY BitOfWord
<1> QED
  BY <1>1, WordFacts, SameBits

\* and any bits are those of a word.
LEMMA WordOfBits ==
  ASSUME NEW bits \in SUBSET Positions
  PROVE  WordOf(bits) \in Word /\ BitsOf(WordOf(bits)) = bits
<1>1. PICK a \in 0 .. bitPositions[Width] - 1 : \A k \in 0 .. Width - 1 : Bit(a, k) = 1 <=> k \in bits
  BY SomeNumber, WordFacts DEF Positions
<1>2. a \in Word /\ BitsOf(a) = bits
  BY <1>1, WordFacts DEF BitsOf, Positions
<1> QED
  BY <1>2 DEF WordOf

LEMMA WordFromBits == ASSUME NEW a \in Word PROVE WordOf(BitsOf(a)) = a
<1>1. BitsOf(a) \in SUBSET Positions
  BY DEF BitsOf
<1> QED
  BY <1>1, WordOfBits, EqualBits

LEMMA BitwiseBits ==
  ASSUME NEW a \in Int, NEW b \in Int
  PROVE  /\ And(a, b) \in Word /\ BitsOf(And(a, b)) = BitsOf(a) \intersect BitsOf(b)
         /\ Or(a, b) \in Word /\ BitsOf(Or(a, b)) = BitsOf(a) \union BitsOf(b)
         /\ Xor(a, b) \in Word
         /\ BitsOf(Xor(a, b)) = (BitsOf(a) \ BitsOf(b)) \union (BitsOf(b) \ BitsOf(a))
<1>1. BitsOf(a) \subseteq Positions /\ BitsOf(b) \subseteq Positions
  BY DEF BitsOf
<1> QED
  BY <1>1, WordOfBits DEF And, Or, Xor

LEMMA ZeroBits == BitsOf(0) = {}
<1>1. 0 \in 0 .. bitPositions[0] - 1
  BY Powers
<1>2. ASSUME NEW n \in Nat PROVE Bit(0, n) = 0
  BY <1>1, BitPast
<1>3. \A n \in Positions : Bit(0, n) # 1
  BY <1>2, WordFacts
<1> QED
  BY <1>3 DEF BitsOf

LEMMA PowerBits ==
  ASSUME NEW k \in Positions
  PROVE  bitPositions[k] \in Word /\ BitsOf(bitPositions[k]) = {k}
<1>1. k \in Nat /\ k < Width
  BY WordFacts DEF Positions
<1>2. bitPositions[k] \in Word
  BY <1>1, WordFacts, PowerLess, PowerPositive
<1>3. ASSUME NEW n \in Nat PROVE Bit(bitPositions[k], n) = IF n = k THEN 1 ELSE 0
  BY <1>1, BitOfPower
<1>4. \A n \in Positions : Bit(bitPositions[k], n) = 1 <=> n = k
  BY <1>3, WordFacts
<1> QED
  BY <1>2, <1>4 DEF BitsOf

LEMMA BitOfNegated ==
  ASSUME NEW a \in Int, NEW n \in Nat
  PROVE  Bit(-1 - a, n) = 1 - Bit(a, n)
<1> DEFINE p == bitPositions[n]
           q == a \div p
           t == a % p
<1>1. p \in Nat /\ p > 0
  BY PowerPositive
<1>2. q \in Int /\ t \in 0 .. p - 1 /\ a = p * q + t
  BY <1>1, Divided
<1> HIDE DEF p, q, t
<1>3. -1 - a = p * (-1 - q) + (p - 1 - t)
  <2>1. p * (-1 - q) = -p - p * q /\ p * q \in Int
    BY <1>1, <1>2
  <2> QED
    BY <1>1, <1>2, <2>1
<1>4. p - 1 - t \in 0 .. p - 1 /\ -1 - q \in Int /\ -1 - a \in Int
  BY <1>1, <1>2
<1>5. (-1 - a) \div p = -1 - q
  BY <1>1, <1>3, <1>4, UniqueQuotient
<1>6. (-1 - q) % 2 = 1 - (q % 2)
  BY <1>2
<1> QED
  BY <1>5, <1>6 DEF Bit, p, q

LEMMA ComplementBits ==
  ASSUME NEW a \in Word
  PROVE  Complement(a) \in Word /\ BitsOf(Complement(a)) = Positions \ BitsOf(a)
<1> DEFINE x == Complement(a)
<1>1. x \in 0 .. bitPositions[Width] - 1 /\ a \in Int
  BY ComplementIsWord, WordFacts
<1>2. -1 - a = bitPositions[Width] * (-1) + x
  BY WordFacts DEF Complement, AllOnes, Modulus
<1>3. ASSUME NEW n \in Positions PROVE Bit(x, n) = 1 - Bit(a, n)
  <2>1. n \in Nat /\ n < Width /\ Width \in Nat
    BY WordFacts DEF Positions
  <2> HIDE DEF x
  <2>2. \A q \in Int : Bit(bitPositions[Width] * q + x, n) = Bit(x, n)
    BY <1>1, <2>1, SplitBits
  <2>3. Bit(-1 - a, n) = 1 - Bit(a, n)
    BY <1>1, <2>1, BitOfNegated
  <2>4. -1 \in Int
    OBVIOUS
  <2> QED
    BY <1>2, <2>2, <2>3, <2>4
<1>4. \A n \in Positions : Bit(a, n) \in {0, 1}
  BY <1>1, BitValue, WordFacts
<1>5. BitsOf(x) = Positions \ BitsOf(a)
  BY <1>3, <1>4 DEF BitsOf
<1> QED
  BY <1>5, ComplementIsWord

LEMMA AllBits == BitsOf(AllOnes) = Positions
<1>1. 0 \in Word /\ Complement(0) = AllOnes
  BY WordFacts DEF Complement, Word, AllOnes
<1> QED
  BY <1>1, ZeroBits, ComplementBits

LEMMA RestBits ==
  ASSUME NEW a \in Word, NEW k \in Nat
  PROVE  /\ a % bitPositions[k] \in Word
         /\ BitsOf(a % bitPositions[k]) = {n \in BitsOf(a) : n < k}
<1> DEFINE x == a % bitPositions[k]
<1>1. a \in Nat /\ a \in Int /\ bitPositions[k] \in Nat /\ bitPositions[k] > 0
  BY WordFacts, PowerPositive
<1>2. x \in 0 .. a
  <2>1. a \div bitPositions[k] \in Int /\ x \in 0 .. bitPositions[k] - 1
        /\ a = bitPositions[k] * (a \div bitPositions[k]) + x
    BY <1>1, Divided
  <2> DEFINE p == bitPositions[k]
             q == a \div p
  <2> HIDE DEF p, q, x
  <2>2. q >= 0
    <3> SUFFICES ASSUME q <= -1 PROVE FALSE
      BY <2>1 DEF p, q
    <3>1. p * q + p <= p * 0
      BY <1>1, <2>1, Multiples DEF p, q
    <3> QED
      BY <1>1, <2>1, <3>1 DEF p, q
  <2>3. p * q >= 0
    BY <1>1, <2>1, <2>2 DEF p, q
  <2>4. a = p * q + x /\ x >= 0 /\ p * q \in Int
    BY <1>1, <2>1 DEF p, q
  <2>5. x \in Int
    BY <2>1
  <2> QED
    BY <2>3, <2>4, <2>5
<1>3. x \in Word
  BY <1>2, WordFacts DEF Word
<1>4. ASSUME NEW n \in Positions PROVE Bit(x, n) = IF n < k THEN Bit(a, n) ELSE 0
  BY <1>1, BitOfRest, WordFacts
<1> HIDE DEF x
<1>5. BitsOf(x) = {n \in BitsOf(a) : n < k}
  BY <1>4 DEF BitsOf
<1> QED
  BY <1>3, <1>5 DEF x

LEMMA QuotientBits ==
  ASSUME NEW a \in Word, NEW k \in Nat
  PROVE  /\ a \div bitPositions[k] \in Word
         /\ BitsOf(a \div bitPositions[k]) = {n \in Positions : n + k \in BitsOf(a)}
<1> DEFINE x == a \div bitPositions[k]
<1>1. a \in Nat /\ a \in Int /\ bitPositions[k] \in Nat /\ bitPositions[k] > 0
  BY WordFacts, PowerPositive
<1>2. x \in 0 .. a
  <2> DEFINE p == bitPositions[k]
             t == a % p
  <2>1. x \in Int /\ t \in 0 .. p - 1 /\ a = p * x + t
    BY <1>1, Divided
  <2>2. p \in Nat /\ p > 0
    BY <1>1
  <2> HIDE DEF p, t, x
  <2>3. x >= 0
    <3> SUFFICES ASSUME x <= -1 PROVE FALSE
      BY <2>1
    <3>1. p * x + p <= p * 0
      BY <2>1, <2>2, Multiples
    <3> QED
      BY <1>1, <2>1, <2>2, <3>1
  <2>4. p * x >= x /\ p * x \in Int
    BY <2>1, <2>2, <2>3
  <2> QED
    BY <1>1, <2>1, <2>3, <2>4
<1>3. x \in Word
  BY <1>2, WordFacts DEF Word
<1>4. ASSUME NEW n \in Positions PROVE Bit(x, n) = 1 <=> n + k \in BitsOf(a)
  <2>1. n \in Nat /\ n + k \in Nat
    BY WordFacts
  <2>2. Bit(x, n) = Bit(a, n + k)
    BY <1>1, <2>1, BitOfQuotient
  <2> QED
    BY <2>1, <2>2, BitOfWord
<1> HIDE DEF x
<1>5. BitsOf(x) = {n \in Positions : n + k \in BitsOf(a)}
  BY <1>4 DEF BitsOf
<1> QED
  BY <1>3, <1>5 DEF x

LEMMA WrappedBits ==
  ASSUME NEW a \in Int
  PROVE  BitsOf(Wrap(a)) = BitsOf(a)
<1>1. ASSUME NEW n \in Positions PROVE Bit(a % bitPositions[Width], n) = Bit(a, n)
  <2>1. n \in Nat /\ n < Width /\ Width \in Nat
    BY WordFacts DEF Positions
  <2> QED
    BY <2>1, BitOfRest
<1> QED
  BY <1>1 DEF BitsOf, Wrap, Modulus

LEMMA ProductBits ==
  ASSUME NEW a \in Word, NEW k \in Nat
  PROVE  /\ Wrap(a * bitPositions[k]) \in Word
         /\ BitsOf(Wrap(a * bitPositions[k])) = {n \in Positions : n >= k /\ n - k \in BitsOf(a)}
<1> DEFINE x == a * bitPositions[k]
<1>1. a \in Nat /\ x \in Int
  BY WordFacts, PowerPositive
<1>2. ASSUME NEW n \in Positions PROVE Bit(x, n) = 1 <=> n >= k /\ n - k \in BitsOf(a)
  <2>1. n \in Nat
    BY WordFacts
  <2>2. Bit(x, n) = IF n < k THEN 0 ELSE Bit(a, n - k)
    BY <1>1, <2>1, BitOfProduct
  <2>3. CASE n < k
    BY <2>1, <2>2, <2>3
  <2>4. CASE n >= k
    <3>1. n - k \in Nat
      BY <2>1, <2>4
    <3> QED
      BY <2>1, <2>2, <2>4, <3>1, BitOfWord
  <2> QED
    BY <2>1, <2>3, <2>4
<1> HIDE DEF x
<1>3. BitsOf(x) = {n \in Positions : n >= k /\ n - k \in BitsOf(a)}
  BY <1>2 DEF BitsOf
<1> QED
  BY <1>1, <1>3, WrapIsWord, WrappedBits DEF x

\* Clearing a bit takes its value away.
LEMMA WithoutBit ==
  ASSUME NEW a \in Word, NEW k \in Positions
  PROVE  And(a, Complement(bitPositions[k])) = a - Bit(a, k) * bitPositions[k]
<1> DEFINE p == bitPositions[k]
           q == a \div bitPositions[k + 1]
           t == a % p
           b == Bit(a, k)
           x == And(a, Complement(p))
<1>1. k \in Nat /\ k + 1 \in Nat /\ a \in Nat /\ a \in Int /\ p \in Word
  BY WordFacts, PowerBits
<1>2. p \in Nat /\ p > 0 /\ bitPositions[k + 1] = 2 * p
  BY <1>1, PowerPositive, PowerNext
<1>3. b \in {0, 1} /\ b = (a \div p) % 2
  BY <1>1, BitValue DEF Bit
<1>4. q \in Int /\ t \in 0 .. p - 1 /\ a = p * (2 * q + b) + t
  <2> DEFINE s == a \div p
  <2>1. s \in Int /\ t \in 0 .. p - 1 /\ a = p * s + t
    BY <1>1, <1>2, Divided
  <2>2. s \div 2 = a \div (p * 2)
    BY <1>1, <1>2, QuotientOfQuotient
  <2>3. p * 2 = 2 * p
    BY <1>2
  <2> HIDE DEF p, s, b
  <2>4. s = 2 * (s \div 2) + b /\ s \div 2 \in Int
    BY <1>3, <2>1 DEF s
  <2>5. q = s \div 2
    BY <1>2, <2>2, <2>3
  <2> QED
    BY <2>1, <2>4, <2>5
<1>5. x \in Word /\ BitsOf(x) = BitsOf(a) \ {k}
  <2>1. Complement(p) \in Word /\ BitsOf(Complement(p)) = Positions \ {k}
    BY <1>1, PowerBits, ComplementBits
  <2>2. BitsOf(a) \subseteq Positions
    BY DEF BitsOf
  <2>3. a \in Int /\ Complement(p) \in Int
    BY <1>1, <2>1, WordFacts
  <2> QED
    BY <2>1, <2>2, <2>3, BitwiseBits
<1> DEFINE y == p * (2 * q) + t
<1>6. y = a - b * p
  <2> HIDE DEF p, q, t, b
  <2>1. p * (2 * q + b) = p * (2 * q) + b * p /\ p * (2 * q) \in Int /\ b * p \in Int
    BY <1>2, <1>3, <1>4
  <2> QED
    BY <1>1, <1>4, <2>1
<1>7. y \in Word
  <2> HIDE DEF p, q, t, b
  <2>1. q >= 0
    <3> SUFFICES ASSUME q <= -1 PROVE FALSE
      BY <1>4
    <3>1. p * (2 * q + b) + p <= p * 0
      BY <1>2, <1>3, <1>4, Multiples
    <3>2. p * (2 * q + b) \in Int
      BY <1>2, <1>3, <1>4
    <3> QED
      BY <1>1, <1>2, <1>4, <3>1, <3>2
  <2>2. p * (2 * q) >= 0 /\ p * (2 * q) \in Int
    BY <1>2, <1>4, <2>1
  <2>3. b * p >= 0 /\ b * p \in Int
    BY <1>2, <1>3
  <2>4. y \in 0 .. a
    BY <1>1, <1>4, <1>6, <2>2, <2>3
  <2> QED
    BY <2>4, WordFacts DEF Word
<1>8. ASSUME NEW n \in Positions PROVE Bit(y, n) = 1 <=> n \in BitsOf(a) /\ n # k
  <2>1. n \in Nat
    BY WordFacts
  <2>2. Bit(y, n) = IF n < k THEN Bit(t, n) ELSE Bit(2 * q, n - k)
    <3>1. 2 * q \in Int
      BY <1>4
    <3> HIDE DEF q
    <3> QED
      BY <1>1, <1>4, <2>1, <3>1, SplitBits
  <2>3. Bit(p * (2 * q + b) + t, n) = IF n < k THEN Bit(t, n) ELSE Bit(2 * q + b, n - k)
    <3>1. 2 * q + b \in Int
      BY <1>3, <1>4
    <3> HIDE DEF q, b
    <3> QED
      BY <1>1, <1>4, <2>1, <3>1, SplitBits
  <2>4. Bit(a, n) = IF n < k THEN Bit(t, n) ELSE Bit(2 * q + b, n - k)
    BY <1>4, <2>3
  <2>5. Bit(a, n) = IF n \in BitsOf(a) THEN 1 ELSE 0
    BY <2>1, BitOfWord
  <2> HIDE DEF p, q, t, b, y
  <2>6. CASE n < k
    BY <1>1, <2>1, <2>2, <2>4, <2>5, <2>6
  <2>7. CASE n = k
    <3>1. Bit(2 * q, 0) = (2 * q) % 2 /\ (2 * q) % 2 = 0
      BY <1>4, FirstBit
    <3>2. n - k = 0 /\ ~(n < k)
      BY <1>1, <2>7
    <3> QED
      BY <2>2, <2>7, <3>1, <3>2
  <2>8. CASE n > k
    <3> DEFINE j == n - k - 1
    <3>1. j \in Nat /\ j + 1 = n - k
      BY <1>1, <2>1, <2>8
    <3>2. (2 * q) \div 2 = q /\ (2 * q + b) \div 2 = q /\ 2 * q \in Int /\ 2 * q + b \in Int
      BY <1>3, <1>4
    <3> HIDE DEF j
    <3>3. Bit((2 * q) \div 2, j) = Bit(2 * q, n - k) /\ Bit((2 * q + b) \div 2, j) = Bit(2 * q + b, n - k)
      BY <3>1, <3>2, BitOfHalf
    <3>4. Bit(y, n) = Bit(a, n)
      BY <1>1, <2>1, <2>2, <2>4, <2>8, <3>2, <3>3
    <3> QED
      BY <1>1, <2>1, <2>5, <2>8, <3>4
  <2> QED
    BY <1>1, <2>1, <2>6, <2>7, <2>8
<1> HIDE DEF y
<1>9. BitsOf(y) = BitsOf(x)
  BY <1>5, <1>8 DEF BitsOf
<1>10. y = x
  BY <1>5, <1>7, <1>9, EqualBits
<1> QED
  BY <1>6, <1>10

\* A bit that is set is worth its value, and those below it less.
LEMMA HighestBit ==
  ASSUME NEW a \in Word, NEW k \in BitsOf(a), \A n \in BitsOf(a) : n <= k
  PROVE  /\ a = bitPositions[k] + And(a, Complement(bitPositions[k]))
         /\ And(a, Complement(bitPositions[k])) < bitPositions[k]
<1> DEFINE p == bitPositions[k]
           t == a % p
           x == And(a, Complement(p))
<1>1. k \in Positions /\ Bit(a, k) = 1 /\ k \in Nat /\ a \in Nat
  BY WordFacts DEF BitsOf
<1>2. p \in Word /\ p \in Nat /\ p > 0
  BY <1>1, PowerBits, WordFacts, PowerPositive
<1>3. x = a - 1 * p
  BY <1>1, WithoutBit
<1>4. t \in 0 .. p - 1 /\ t \in Word /\ BitsOf(t) = {n \in BitsOf(a) : n < k}
  BY <1>1, <1>2, RestBits, Divided
<1>5. x \in Word /\ BitsOf(x) = BitsOf(a) \ {k}
  <2>1. Complement(p) \in Word /\ BitsOf(Complement(p)) = Positions \ {k}
    BY <1>1, <1>2, PowerBits, ComplementBits
  <2>2. BitsOf(a) \subseteq Positions
    BY DEF BitsOf
  <2>3. a \in Int /\ Complement(p) \in Int
    BY <1>1, <2>1, WordFacts
  <2> QED
    BY <2>1, <2>2, <2>3, BitwiseBits
<1>6. BitsOf(x) = BitsOf(t)
  <2>1. \A n \in BitsOf(a) : n \in Nat
    BY WordFacts DEF BitsOf
  <2>2. \A n \in BitsOf(a) : n < k <=> n # k
    BY <1>1, <2>1
  <2> QED
    BY <1>4, <1>5, <2>2
<1>7. x = t
  BY <1>4, <1>5, <1>6, EqualBits
<1> HIDE DEF x, p, t
<1>8. a = p + x /\ x < p
  BY <1>1, <1>2, <1>3, <1>4, <1>7
<1> QED
  BY <1>8 DEF x, p

LEMMA NumberBelowPower == ASSUME NEW n \in Nat PROVE n < bitPositions[n]
<1> DEFINE S == {k \in Nat : ~(k < bitPositions[k])}
<1> SUFFICES ASSUME S # {} PROVE FALSE
  OBVIOUS
<1>1. PICK m \in S : \A k \in S : m <= k
  BY LeastNumber
<1>2. m # 0
  BY <1>1, Powers
<1>3. m - 1 \in Nat /\ m - 1 < bitPositions[m - 1] /\ (m - 1) + 1 = m
  BY <1>1, <1>2
<1>4. bitPositions[m] = 2 * bitPositions[m - 1] /\ bitPositions[m - 1] \in Nat
  BY <1>3, PowerNext
<1> QED
  BY <1>1, <1>3, <1>4
====
