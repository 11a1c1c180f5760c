--------------------------- MODULE MemoryBus_proofs ---------------------------
(*****************************************************************************)
(* Theorems about loads and stores, for every layout of the memory and every *)
(* size of the window: the pins select the bank that is remembered, and      *)
(* disciplined programs see one array of bytes (FlatMemory).                 *)
(*****************************************************************************)
EXTENDS MemoryBus, TLAPS

-------------------------------------------------------------------------------
(* Quotients and remainders of symbolic sizes.                               *)

LEMMA Divided ==
  ASSUME NEW S \in Nat, S > 0, NEW a \in Int
  PROVE  a \div S \in Int /\ a % S \in 0 .. S - 1 /\ a = S * (a \div S) + (a % S)
OBVIOUS

LEMMA Multiples ==
  ASSUME NEW S \in Nat, S > 0, NEW p \in Int, NEW q \in Int, p < q
  PROVE  S * p + S <= S * q
<1>1. S * (q - p) >= S * 1
  OBVIOUS
<1> QED
  BY <1>1

LEMMA UniqueRemainder ==
  ASSUME NEW S \in Nat, S > 0, NEW a \in Int, NEW q \in Int, NEW t \in 0 .. S - 1,
         a = S * q + t
  PROVE  a % S = t
<1> DEFINE p == a \div S
           u == a % S
<1>1. p \in Int /\ u \in 0 .. S - 1 /\ a = S * p + u
  BY Divided
<1> HIDE DEF p, u
<1>2. S * p \in Int /\ S * q \in Int
  BY <1>1
<1>3. ~(p < q) /\ ~(q < p)
  BY <1>1, <1>2, Multiples
<1>4. p = q
  BY <1>1, <1>3
<1> QED
  BY <1>1, <1>2, <1>4 DEF u

LEMMA Sizes ==
  /\ SpaceSize \in Nat /\ SpaceSize >= 16
  /\ WindowSize \in Nat /\ WindowSize > 0
  /\ InternalBase \in Nat /\ BootBase \in Nat /\ SRAMBase \in Nat /\ RegionSize \in Nat
  /\ PeripheralBase \in Nat /\ ConfigBase \in Nat /\ PageSize \in Nat
  /\ SRAMBytes \in Nat /\ Skew \in Nat
  /\ RegionSize > 0 /\ PageSize > 0
BY LayoutAssumption

\* Wrapping a sum of two addresses, or their difference.
LEMMA SmallWrap ==
  ASSUME NEW n \in Int, -SpaceSize <= n, n < 2 * SpaceSize
  PROVE  Wrap(n) = IF n < 0 THEN n + SpaceSize
                   ELSE IF n < SpaceSize THEN n ELSE n - SpaceSize
<1>1. SpaceSize \in Nat /\ SpaceSize > 0
  BY Sizes
<1>2. CASE n < 0
  <2>1. n + SpaceSize \in 0 .. SpaceSize - 1 /\ n = SpaceSize * (-1) + (n + SpaceSize)
    BY <1>1, <1>2
  <2> QED
    BY <1>1, <1>2, <2>1, UniqueRemainder DEF Wrap
<1>3. CASE 0 <= n /\ n < SpaceSize
  <2>1. n \in 0 .. SpaceSize - 1 /\ n = SpaceSize * 0 + n
    BY <1>1, <1>3
  <2> QED
    BY <1>1, <1>3, <2>1, UniqueRemainder DEF Wrap
<1>4. CASE SpaceSize <= n
  <2>1. n - SpaceSize \in 0 .. SpaceSize - 1 /\ n = SpaceSize * 1 + (n - SpaceSize)
    BY <1>1, <1>4
  <2> QED
    BY <1>1, <1>4, <2>1, UniqueRemainder DEF Wrap
<1> QED
  BY <1>1, <1>2, <1>3, <1>4

LEMMA WrapIsAddress == ASSUME NEW n \in Int PROVE Wrap(n) \in Addresses
BY Sizes DEF Wrap, Addresses

\* The bank and the offset make up the address.
LEMMA BankAndOffset ==
  ASSUME NEW a \in Nat
  PROVE  /\ Bank(a) \in Nat
         /\ computeWindowOffsetAddress(a) \in 0 .. WindowSize - 1
         /\ Bank(a) * WindowSize + computeWindowOffsetAddress(a) = a
<1>1. WindowSize \in Nat /\ WindowSize > 0
  BY Sizes
<1> DEFINE q == a \div WindowSize
           t == a % WindowSize
<1>2. q \in Int /\ t \in 0 .. WindowSize - 1 /\ a = WindowSize * q + t
  BY <1>1, Divided
<1> HIDE DEF q, t
<1>3. ~(q < 0)
  <2> SUFFICES ASSUME q < 0 PROVE FALSE
    OBVIOUS
  <2>1. WindowSize * q + WindowSize <= WindowSize * 0
    BY <1>1, <1>2, Multiples
  <2> QED
    BY <1>1, <1>2, <2>1
<1>4. q * WindowSize = WindowSize * q
  BY <1>1, <1>2
<1> QED
  BY <1>2, <1>3, <1>4 DEF q, t, Bank, computeWindowOffsetAddress

\* An access within a window that starts below the internal space ends there.
LEMMA WindowBelowInternal ==
  ASSUME NEW a \in Nat, a < InternalBase, NEW n \in Nat, InWindow(a, n)
  PROVE  a + n <= InternalBase
<1> DEFINE q == a \div WindowSize
           t == a % WindowSize
           k == InternalBase \div WindowSize
<1>1. WindowSize \in Nat /\ WindowSize > 0 /\ InternalBase \in Nat
  BY Sizes
<1>2. /\ q \in Int /\ t \in 0 .. WindowSize - 1 /\ a = WindowSize * q + t
      /\ k \in Int /\ InternalBase = WindowSize * k
  BY <1>1, Divided, LayoutAssumption
<1>3. t + n <= WindowSize
  BY DEF InWindow, computeWindowOffsetAddress
<1> HIDE DEF q, t, k
<1>4. q < k
  <2> SUFFICES ASSUME ~(q < k) PROVE FALSE
    OBVIOUS
  <2>1. WindowSize * q \in Int /\ WindowSize * k \in Int
    BY <1>1, <1>2
  <2>2. CASE q = k
    BY <1>2, <2>1, <2>2
  <2>3. CASE k < q
    <3>1. WindowSize * k + WindowSize <= WindowSize * q
      BY <1>1, <1>2, <2>3, Multiples
    <3> QED
      BY <1>1, <1>2, <2>1, <3>1
  <2> QED
    BY <1>2, <2>2, <2>3
<1>5. WindowSize * q + WindowSize <= WindowSize * k
  BY <1>1, <1>2, <1>4, Multiples
<1> QED
  BY <1>1, <1>2, <1>3, <1>5

\* A step of one byte stays in its unit or ends it.
LEMMA ByteInUnit ==
  ASSUME NEW u \in Nat, u > 0, NEW d \in Nat, (d + 1) % u # 0
  PROVE  (d + 1) - ((d + 1) % u) = d - (d % u)
<1> DEFINE q == d \div u
           t == d % u
<1>1. q \in Int /\ t \in 0 .. u - 1 /\ d = u * q + t
  BY Divided
<1> HIDE DEF q, t
<1>2. u * q \in Int
  BY <1>1
<1>3. CASE t + 1 < u
  <2>1. (d + 1) % u = t + 1
    BY <1>1, <1>2, <1>3, UniqueRemainder
  <2> QED
    BY <1>1, <1>2, <2>1 DEF t
<1>4. CASE t + 1 = u
  <2>1. u * (q + 1) = u * q + u
    BY <1>1
  <2> DEFINE e == d + 1
             p == q + 1
  <2>2. e = u * p + 0 /\ 0 \in 0 .. u - 1 /\ p \in Int /\ e \in Int
    BY <1>1, <1>2, <1>4, <2>1
  <2>3. e % u = 0
    <3> HIDE DEF e, p
    <3> QED
      BY <2>2, UniqueRemainder
  <2> QED
    BY <2>3
<1> QED
  BY <1>1, <1>3, <1>4

\* A whole unit that starts before the end ends before it too.
LEMMA WholeUnit ==
  ASSUME NEW u \in Nat, u > 0, NEW d \in Nat, NEW n \in Nat,
         d % u = 0, n % u = 0, d < n
  PROVE  d + u <= n /\ (d + u) % u = 0
<1> DEFINE q == d \div u
           k == n \div u
<1>1. q \in Int /\ d = u * q /\ k \in Int /\ n = u * k
  BY Divided
<1> HIDE DEF q, k
<1>2. u * q \in Int /\ u * k \in Int
  BY <1>1
<1>3. q < k
  <2>1. ~(k < q) /\ k # q
    BY <1>1, <1>2, Multiples
  <2> QED
    BY <1>1, <2>1
<1>4. u * q + u <= u * k
  BY <1>1, <1>3, Multiples
<1>5. u * (q + 1) = u * q + u
  BY <1>1
<1>6. d + u = u * (q + 1) + 0 /\ 0 \in 0 .. u - 1 /\ q + 1 \in Int /\ d + u \in Int
  BY <1>1, <1>2, <1>5
<1>7. (d + u) % u = 0
  BY <1>6, UniqueRemainder
<1> QED
  BY <1>1, <1>4, <1>7

-------------------------------------------------------------------------------
(* The inductive invariant.  Besides the types it says that an access counts *)
(* whole units where it goes through the window, so that a unit neither      *)
(* starts nor ends in the middle.                                            *)

AccessOK ==
  /\ access = [op |-> access.op, base |-> access.base, unit |-> access.unit,
               size |-> access.size, done |-> access.done, data |-> access.data]
  /\ access.op \in {"load", "store", "idle"}
  /\ access.base \in Addresses
  /\ access.unit \in Nat /\ access.unit > 0
  /\ access.size \in 1 .. 16 /\ access.size % access.unit = 0
  /\ access.done \in 0 .. access.size
  /\ access.data \in [0 .. access.size - 1 -> Bytes]

UnitsWhole == access.done % access.unit # 0 => inInternalSpace(unitStart)

\* The pins, and what setEBIUpper believes of them.
PinsOK ==
  /\ a15 \in {0, 1} /\ port \in Nat /\ ebiUpper \in Nat \union {NoBank}
  /\ PinsSelectBank

\* The cells hold bytes.
CellsOK ==
  /\ ext \in [Addresses -> Bytes]
  /\ core \in [CoreBytes -> Bytes]
  /\ eeprom \in [0 .. EEPROMBytes - 1 -> Bytes]

Inv == CellsOK /\ PinsOK /\ AccessOK /\ UnitsWhole /\ stray \in BOOLEAN

LEMMA InitInv == Init => Inv
<1> SUFFICES ASSUME Init PROVE Inv
  OBVIOUS
<1>1. CellsOK /\ PinsOK /\ stray \in BOOLEAN
  <2>1. core \in [CoreBytes -> Bytes] /\ ext \in [Addresses -> Bytes]
        /\ eeprom \in [0 .. EEPROMBytes - 1 -> Bytes]
    BY DataAssumption DEF Init
  <2>2. /\ a15 \in {0, 1} /\ port \in Nat /\ ebiUpper \in Nat \union {NoBank}
        /\ stray \in BOOLEAN /\ PinsSelectBank
    BY DEF Init, PinsSelectBank, NoBank
  <2> QED
    BY <2>1, <2>2 DEF CellsOK, PinsOK
<1>2. AccessOK /\ UnitsWhole
  <2>1. [i \in {0} |-> 0] \in [0 .. 0 -> Bytes] /\ 0 \in Addresses
    BY DataAssumption, Sizes DEF Addresses
  <2>2. 1 % 1 = 0
    OBVIOUS
  <2> QED
    BY <2>1, <2>2 DEF Init, AccessOK, UnitsWhole
<1> QED
  BY <1>1, <1>2 DEF Inv

\* Whichever way it goes, setEBIUpper leaves the bank of the address selected.
LEMMA PinsSet ==
  ASSUME PinsOK, NEW a \in Addresses, setEBIUpper(a)
  PROVE  PinsOK' /\ PinBank' = Bank(a)
<1>1. Bank(a) \in Nat
  BY BankAndOffset DEF Addresses
<1>2. CASE Bank(a) = ebiUpper
  BY <1>1, <1>2 DEF setEBIUpper, pins, PinsOK, PinsSelectBank, PinBank, NoBank
<1>3. CASE Bank(a) # ebiUpper
  <2>1. a15' = Bank(a) % 2 /\ port' = Bank(a) \div 2 /\ ebiUpper' = Bank(a)
    BY <1>3 DEF setEBIUpper
  <2>2. /\ Bank(a) % 2 \in {0, 1} /\ Bank(a) \div 2 \in Nat
        /\ (Bank(a) \div 2) * 2 + (Bank(a) % 2) = Bank(a)
    BY <1>1
  <2> QED
    BY <1>1, <2>1, <2>2 DEF PinsOK, PinsSelectBank, PinBank
<1> QED
  BY <1>2, <1>3

LEMMA PinsKept == ASSUME PinsOK, UNCHANGED pins PROVE PinsOK'
BY DEF PinsOK, PinsSelectBank, PinBank, pins

\* Where an access stands.
LEMMA Standing ==
  ASSUME AccessOK
  PROVE  /\ next \in Addresses /\ unitStart \in Addresses
         /\ access.done % access.unit = 0 => unitStart = next
         /\ access.done \in Nat /\ access.size \in Nat /\ access.base \in Nat
<1>1. /\ access.done \in Int /\ access.base \in Int /\ access.size \in Int
      /\ access.done % access.unit \in Int
  BY DEF AccessOK, Addresses
<1>2. access.done % access.unit = 0 =>
        access.base + access.done - (access.done % access.unit) = access.base + access.done
  BY <1>1
<1> QED
  BY <1>1, <1>2, WrapIsAddress DEF next, unitStart, AccessOK, Addresses

\* An access that counts n more of its bytes is still one.
LEMMA Counted ==
  ASSUME AccessOK, NEW n \in Nat, access.done + n <= access.size,
         NEW data \in [0 .. access.size - 1 -> Bytes],
         access' = [access EXCEPT !.done = access.done + n, !.data = data]
  PROVE  /\ AccessOK'
         /\ access'.op = access.op /\ access'.base = access.base
         /\ access'.unit = access.unit /\ access'.size = access.size
         /\ access'.done = access.done + n /\ access'.data = data
<1>1. access' = [op |-> access.op, base |-> access.base, unit |-> access.unit,
                 size |-> access.size, done |-> access.done + n, data |-> data]
  BY DEF AccessOK
<1>2. access.done + n \in 0 .. access.size
  BY DEF AccessOK
<1> QED
  BY <1>1, <1>2 DEF AccessOK

LEMMA ReceivedCounted ==
  ASSUME AccessOK, NEW n \in Nat, access.done + n <= access.size,
         NEW bytes \in [0 .. n - 1 -> Bytes], Received(n, bytes)
  PROVE  /\ AccessOK'
         /\ access'.op = access.op /\ access'.base = access.base
         /\ access'.unit = access.unit /\ access'.size = access.size
         /\ access'.done = access.done + n
         /\ access'.data = [i \in 0 .. access.size - 1 |->
                              IF i \in access.done .. access.done + n - 1
                              THEN bytes[i - access.done] ELSE access.data[i]]
<1> DEFINE data == [i \in 0 .. access.size - 1 |->
                      IF i \in access.done .. access.done + n - 1
                      THEN bytes[i - access.done] ELSE access.data[i]]
<1>1. access.done \in Nat /\ access.size \in Nat
  BY Standing
<1>2. data \in [0 .. access.size - 1 -> Bytes]
  <2> SUFFICES ASSUME NEW i \in 0 .. access.size - 1 PROVE data[i] \in Bytes
    OBVIOUS
  <2>1. CASE i \in access.done .. access.done + n - 1
    <3>1. i - access.done \in 0 .. n - 1
      BY <1>1, <2>1
    <3> QED
      BY <2>1, <3>1
  <2>2. CASE i \notin access.done .. access.done + n - 1
    BY <2>2 DEF AccessOK
  <2> QED
    BY <2>1, <2>2
<1>3. access' = [access EXCEPT !.done = access.done + n, !.data = data]
  BY DEF Received
<1> HIDE DEF data
<1>4. /\ AccessOK'
      /\ access'.op = access.op /\ access'.base = access.base
      /\ access'.unit = access.unit /\ access'.size = access.size
      /\ access'.done = access.done + n /\ access'.data = data
  BY <1>2, <1>3, Counted
<1> QED
  BY <1>4 DEF data

LEMMA SentCounted ==
  ASSUME AccessOK, NEW n \in Nat, access.done + n <= access.size, Sent(n)
  PROVE  /\ AccessOK'
         /\ access'.op = access.op /\ access'.base = access.base
         /\ access'.unit = access.unit /\ access'.size = access.size
         /\ access'.done = access.done + n /\ access'.data = access.data
<1>1. access.data \in [0 .. access.size - 1 -> Bytes]
  BY DEF AccessOK
<1>2. access' = [access EXCEPT !.done = access.done + n, !.data = access.data]
  BY DEF Sent, AccessOK
<1> QED
  BY <1>1, <1>2, Counted

\* What a step leaves of the rest, by the kind of step.
Kept(n) ==
  /\ access'.base = access.base /\ access'.unit = access.unit
  /\ access'.size = access.size /\ access'.done = access.done + n

\* Units stay whole, by the byte in the internal space and by the unit else.
LEMMA ByteKeepsUnits ==
  ASSUME AccessOK, inInternalSpace(unitStart), Kept(1)
  PROVE  UnitsWhole'
<1> SUFFICES ASSUME access'.done % access'.unit # 0 PROVE unitStart' = unitStart
  BY DEF UnitsWhole, inInternalSpace
<1>1. access.done \in Nat /\ access.unit \in Nat /\ access.unit > 0 /\ access.base \in Nat
  BY Standing DEF AccessOK
<1> DEFINE d == access.done
           u == access.unit
<1>2. (d + 1) - ((d + 1) % u) = d - (d % u)
  <2>1. (d + 1) % u # 0
    BY DEF Kept
  <2> HIDE DEF d, u
  <2> QED
    BY <1>1, <2>1, ByteInUnit DEF d, u
<1>3. (d + 1) % u \in Int /\ d % u \in Int
  BY <1>1
<1>4. access.base + (d + 1) - ((d + 1) % u) = access.base + d - (d % u)
  BY <1>1, <1>2, <1>3
<1> QED
  BY <1>4 DEF Kept, unitStart

LEMMA UnitKeepsUnits ==
  ASSUME AccessOK, UnitsWhole, access.done < access.size, ~inInternalSpace(unitStart)
  PROVE  /\ access.done % access.unit = 0 /\ unitStart = next
         /\ access.done + access.unit <= access.size
         /\ Kept(access.unit) => UnitsWhole'
<1>1. access.done % access.unit = 0
  BY DEF UnitsWhole
<1>2. /\ access.unit \in Nat /\ access.unit > 0 /\ access.done \in Nat
      /\ access.size \in Nat /\ access.size % access.unit = 0
  BY Standing DEF AccessOK
<1>3. /\ access.done + access.unit <= access.size
      /\ (access.done + access.unit) % access.unit = 0
  BY <1>1, <1>2, WholeUnit
<1> QED
  BY <1>1, <1>3, Standing DEF UnitsWhole, Kept

LEMMA BegunInv == ASSUME Inv, Begin PROVE Inv'
<1>1. access' \in Accesses /\ UNCHANGED <<cells, pins, stray>>
  BY DEF Begin, cells, pins
<1>2. AccessOK'
  <2>1. /\ access' \in [op : {"load", "store"}, base : Addresses, unit : Nat \ {0},
                        size : Nat \ {0}, done : {0}, data : [0 .. access'.size - 1 -> Bytes]]
        /\ access'.unit <= access'.size /\ access'.size <= 16
        /\ access'.size % access'.unit = 0
    BY <1>1, AccessAssumption
  <2>2. access' = [op |-> access'.op, base |-> access'.base, unit |-> access'.unit,
                   size |-> access'.size, done |-> access'.done, data |-> access'.data]
    BY <2>1
  <2> QED
    BY <2>1, <2>2 DEF AccessOK
<1>3. UnitsWhole'
  <2>1. access'.done = 0 /\ access'.unit \in Nat /\ access'.unit > 0
    BY <1>1, AccessAssumption
  <2>2. 0 % access'.unit = 0
    BY <2>1
  <2> QED
    BY <2>1, <2>2 DEF UnitsWhole
<1> QED
  BY <1>1, <1>2, <1>3, PinsKept DEF Inv, CellsOK, cells

LEMMA CompletedInv == ASSUME Inv, Complete PROVE Inv'
<1>1. /\ access' = [access EXCEPT !.op = "idle"]
      /\ UNCHANGED <<cells, pins, stray>>
  BY DEF Complete, cells, pins
<1>2. AccessOK /\ UnitsWhole /\ PinsOK
  BY DEF Inv
<1>3. /\ access' = [op |-> "idle", base |-> access.base, unit |-> access.unit,
                    size |-> access.size, done |-> access.done, data |-> access.data]
  BY <1>1, <1>2 DEF AccessOK
<1>4. AccessOK'
  BY <1>2, <1>3 DEF AccessOK
<1>5. UnitsWhole'
  BY <1>2, <1>3 DEF UnitsWhole, unitStart
<1> QED
  BY <1>1, <1>2, <1>4, <1>5, PinsKept DEF Inv, CellsOK, cells

LEMMA BusLoadInv == ASSUME Inv, BusLoad PROVE Inv'
<1>1. AccessOK /\ UnitsWhole /\ PinsOK /\ CellsOK
  BY DEF Inv
<1>2. /\ access.done < access.size /\ ~inInternalSpace(unitStart)
      /\ setEBIUpper(next) /\ UNCHANGED <<cells, stray>>
  BY DEF BusLoad, InProgress, cells
<1>3. access.unit \in Nat /\ access.done + access.unit <= access.size
  BY <1>1, <1>2, UnitKeepsUnits DEF AccessOK
<1>4. PICK bytes \in [0 .. access.unit - 1 -> Bytes] : Received(access.unit, bytes)
  BY DEF BusLoad, loadFromBus
<1>5. AccessOK' /\ Kept(access.unit)
  BY <1>1, <1>3, <1>4, ReceivedCounted DEF Kept
<1>6. UnitsWhole'
  BY <1>1, <1>2, <1>5, UnitKeepsUnits
<1>7. PinsOK'
  BY <1>1, <1>2, Standing, PinsSet
<1> QED
  BY <1>1, <1>2, <1>5, <1>6, <1>7 DEF Inv, CellsOK, cells

\* A native store in the window leaves bytes where there were bytes.
LEMMA StoredBytes ==
  ASSUME CellsOK, AccessOK, NEW n \in Nat, access.done + n <= access.size, NEW a,
         storeToBus(a, n, [i \in 0 .. n - 1 |-> access.data[access.done + i]]),
         Selected(a) \in Int
  PROVE  /\ ext' = [b \in Addresses |->
                      IF b \in Selected(a) .. Selected(a) + n - 1
                      THEN access.data[access.done + (b - Selected(a))] ELSE ext[b]]
         /\ ext' \in [Addresses -> Bytes]
<1> DEFINE s == Selected(a)
<1>1. s \in Int
  OBVIOUS
<1>2. ext' = [b \in Addresses |->
                IF b \in s .. s + n - 1
                THEN [i \in 0 .. n - 1 |-> access.data[access.done + i]][b - s] ELSE ext[b]]
  BY DEF storeToBus
<1> HIDE DEF s
<1>3. ASSUME NEW b \in Addresses, b \in s .. s + n - 1
      PROVE  /\ [i \in 0 .. n - 1 |-> access.data[access.done + i]][b - s]
                  = access.data[access.done + (b - s)]
             /\ access.data[access.done + (b - s)] \in Bytes
  <2>1. b - s \in 0 .. n - 1
    BY <1>1, <1>3
  <2>2. access.done + (b - s) \in 0 .. access.size - 1
    BY <2>1, Standing
  <2> QED
    BY <2>1, <2>2 DEF AccessOK
<1>4. ext' = [b \in Addresses |->
                IF b \in s .. s + n - 1 THEN access.data[access.done + (b - s)] ELSE ext[b]]
  BY <1>2, <1>3
<1>5. ext' \in [Addresses -> Bytes]
  BY <1>3, <1>4 DEF CellsOK
<1> QED
  BY <1>4, <1>5 DEF s

\* Once the bank of an address is selected, native accesses go to it.
LEMMA SelectedAddress ==
  ASSUME PinsOK, NEW a \in Addresses, setEBIUpper(a)
  PROVE  Selected(a) = a
BY PinsSet, BankAndOffset DEF Selected, Addresses

LEMMA BusStoreInv == ASSUME Inv, BusStore PROVE Inv'
<1>1. AccessOK /\ UnitsWhole /\ PinsOK /\ CellsOK
  BY DEF Inv
<1>2. /\ access.done < access.size /\ ~inInternalSpace(unitStart)
      /\ setEBIUpper(next) /\ UNCHANGED <<core, eeprom>>
  BY DEF BusStore, InProgress
<1>3. access.unit \in Nat /\ access.done + access.unit <= access.size
  BY <1>1, <1>2, UnitKeepsUnits DEF AccessOK
<1>4. PinsOK' /\ Selected(next) = next /\ next \in Nat
  BY <1>1, <1>2, Standing, PinsSet, SelectedAddress DEF Addresses
<1>5. CASE ~InWindow(next, access.unit)
  <2>1. UNCHANGED <<ext, access>> /\ stray' \in BOOLEAN
    BY <1>5 DEF BusStore
  <2>2. AccessOK' /\ UnitsWhole'
    BY <1>1, <2>1 DEF AccessOK, UnitsWhole, unitStart
  <2> QED
    BY <1>1, <1>2, <1>4, <2>1, <2>2 DEF Inv, CellsOK
<1>6. CASE InWindow(next, access.unit)
  <2>1. /\ storeToBus(next, access.unit,
                      [i \in 0 .. access.unit - 1 |-> access.data[access.done + i]])
        /\ Sent(access.unit) /\ UNCHANGED stray
    BY <1>6 DEF BusStore
  <2>2. ext' \in [Addresses -> Bytes]
    BY <1>1, <1>3, <1>4, <2>1, StoredBytes
  <2>3. AccessOK' /\ Kept(access.unit)
    BY <1>1, <1>3, <2>1, SentCounted DEF Kept
  <2>4. UnitsWhole'
    BY <1>1, <1>2, <2>3, UnitKeepsUnits
  <2> QED
    BY <1>1, <1>2, <1>4, <2>1, <2>2, <2>3, <2>4 DEF Inv, CellsOK
<1> QED
  BY <1>5, <1>6

\* Each part of the internal space has a byte for each of its addresses.
LEMMA PlacesInside ==
  ASSUME NEW a \in Addresses
  PROVE  /\ InSRAM(a) => SRAMIndex(a) \in CoreBytes
         /\ InEEPROM(a) => a - ConfigBase \in 0 .. EEPROMBytes - 1
         /\ InRegion(a, BootBase) => readFromInternalBootProgram(a - BootBase) \in Bytes
<1>1. a \in Nat /\ a < SpaceSize
  BY Sizes DEF Addresses
<1>2. InSRAM(a) => SRAMIndex(a) \in CoreBytes
  BY <1>1, Sizes DEF InSRAM, InRegion, SRAMIndex, CoreBytes
<1>3. InEEPROM(a) => a - ConfigBase \in 0 .. EEPROMBytes - 1
  BY <1>1, Sizes DEF InEEPROM, EEPROMBytes
<1>4. ASSUME InRegion(a, BootBase)
      PROVE  readFromInternalBootProgram(a - BootBase) \in Bytes
  <2>1. a - BootBase \in Nat
    BY <1>1, <1>4, Sizes DEF InRegion
  <2>2. CASE a - BootBase < Len(BootImage)
    <3>1. (a - BootBase) + 1 \in 1 .. Len(BootImage) /\ BootImage \in Seq(Bytes)
      BY <2>1, <2>2, DataAssumption
    <3> QED
      BY <2>2, <3>1 DEF readFromInternalBootProgram
  <2>3. CASE ~(a - BootBase < Len(BootImage))
    BY <2>3, DataAssumption DEF readFromInternalBootProgram
  <2> QED
    BY <2>2, <2>3
<1> QED
  BY <1>2, <1>3, <1>4

LEMMA OneByte ==
  ASSUME NEW byte \in Bytes
  PROVE  [i \in {0} |-> byte] \in [0 .. 1 - 1 -> Bytes]
OBVIOUS

LEMMA InternalLoadInv ==
  ASSUME Inv, InternalLoad
  PROVE  /\ Inv'
         /\ \E bytes \in [0 .. 1 - 1 -> Bytes] : Received(1, bytes)
<1>1. AccessOK /\ UnitsWhole /\ PinsOK /\ CellsOK /\ stray \in BOOLEAN
  BY DEF Inv
<1>2. /\ access.done < access.size /\ inInternalSpace(unitStart)
      /\ UNCHANGED <<cells, stray>>
      /\ ReadBootProgram \/ ReadSRAM \/ ReadEEPROM \/ ReadDevice \/ ReadBus
  BY DEF InternalLoad, InProgress, cells
<1>3. access.done + 1 <= access.size /\ next \in Addresses
  BY <1>1, <1>2, Standing
<1>4. PinsOK' /\ \E bytes \in [0 .. 1 - 1 -> Bytes] : Received(1, bytes)
  <2>1. CASE ReadBootProgram
    BY <1>1, <1>3, <2>1, PinsKept, PlacesInside, OneByte DEF ReadBootProgram, ReceiveByte
  <2>2. CASE ReadSRAM
    <3>1. core[SRAMIndex(next)] \in Bytes
      BY <1>1, <1>3, <2>2, PlacesInside DEF ReadSRAM, CellsOK
    <3> QED
      BY <1>1, <2>2, <3>1, PinsKept, OneByte DEF ReadSRAM, ReceiveByte
  <2>3. CASE ReadEEPROM
    <3>1. eeprom[next - ConfigBase] \in Bytes
      BY <1>1, <1>3, <2>3, PlacesInside DEF ReadEEPROM, CellsOK
    <3> QED
      BY <1>1, <2>3, <3>1, PinsKept, OneByte DEF ReadEEPROM, ReceiveByte
  <2>4. CASE ReadDevice
    BY <1>1, <2>4, PinsKept, OneByte DEF ReadDevice, ReceiveByte
  <2>5. CASE ReadBus
    BY <1>1, <1>3, <2>5, PinsSet DEF ReadBus, loadFromBus
  <2> QED
    BY <1>2, <2>1, <2>2, <2>3, <2>4, <2>5
<1>5. AccessOK' /\ Kept(1)
  BY <1>1, <1>3, <1>4, ReceivedCounted DEF Kept
<1>6. UnitsWhole'
  BY <1>1, <1>2, <1>5, ByteKeepsUnits
<1> QED
  BY <1>1, <1>2, <1>4, <1>5, <1>6 DEF Inv, CellsOK, cells

LEMMA InternalStoreInv == ASSUME Inv, InternalStore PROVE Inv' /\ Sent(1)
<1>1. AccessOK /\ UnitsWhole /\ PinsOK /\ CellsOK /\ stray \in BOOLEAN
  BY DEF Inv
<1>2. /\ access.done < access.size /\ inInternalSpace(unitStart) /\ UNCHANGED stray
      /\ WriteBootProgram \/ WriteSRAM \/ WriteEEPROM \/ WriteDevice \/ WriteBus
  BY DEF InternalStore, InProgress
<1>3. /\ access.done + 1 <= access.size /\ next \in Addresses /\ next \in Int
      /\ access.data[access.done] \in Bytes
  BY <1>1, <1>2, Standing DEF AccessOK, Addresses
<1>4. Sent(1)
  BY <1>2 DEF WriteBootProgram, WriteSRAM, WriteEEPROM, WriteDevice, WriteBus
<1>5. PinsOK' /\ CellsOK'
  <2>1. CASE WriteBootProgram \/ WriteDevice
    BY <1>1, <2>1, PinsKept DEF WriteBootProgram, WriteDevice, CellsOK, cells
  <2>2. CASE WriteSRAM
    BY <1>1, <1>3, <2>2, PinsKept DEF WriteSRAM, CellsOK
  <2>3. CASE WriteEEPROM
    BY <1>1, <1>3, <2>3, PinsKept DEF WriteEEPROM, CellsOK
  <2>4. CASE WriteBus
    <3>1. setEBIUpper(next) /\ UNCHANGED <<core, eeprom>>
      BY <2>4 DEF WriteBus
    <3>2. PinsOK' /\ Selected(next) = next
      BY <1>1, <1>3, <3>1, PinsSet, SelectedAddress
    <3>3. ext' \in [Addresses -> Bytes]
      BY <1>1, <1>3, <2>4, <3>2 DEF WriteBus, storeToBus, CellsOK
    <3> QED
      BY <1>1, <3>1, <3>2, <3>3 DEF CellsOK
  <2> QED
    BY <1>2, <2>1, <2>2, <2>3, <2>4
<1>6. AccessOK' /\ Kept(1)
  BY <1>1, <1>3, <1>4, SentCounted DEF Kept
<1>7. UnitsWhole'
  BY <1>1, <1>2, <1>6, ByteKeepsUnits
<1> QED
  BY <1>1, <1>2, <1>4, <1>5, <1>6, <1>7 DEF Inv

LEMMA StepInv == ASSUME Inv, [Next]_vars PROVE Inv'
<1>1. CASE UNCHANGED vars
  BY <1>1, PinsKept DEF vars, pins, Inv, CellsOK, AccessOK, UnitsWhole, unitStart
<1>2. CASE Next
  BY <1>2, BegunInv, BusLoadInv, BusStoreInv, InternalLoadInv, InternalStoreInv, CompletedInv
     DEF Next, Step
<1> QED
  BY <1>1, <1>2

LEMMA AlwaysInv == Spec => []Inv
BY InitInv, StepInv, PTL DEF Spec

\* No access, whatever it starts with and wherever it lies, leaves a cell, a
\* pin or its own count out of range (load and store in Core.h).
THEOREM BusTypeCorrect == Spec => []TypeOK
<1>1. Inv => TypeOK
  BY DEF Inv, CellsOK, PinsOK, AccessOK, TypeOK
<1> QED
  BY <1>1, AlwaysInv, PTL

\* The bank that setEBIUpper remembers is the one that the pins select, for
\* every sequence of accesses and every size of the window.
THEOREM PinsCorrect == Spec => []PinsSelectBank
<1>1. Inv => PinsSelectBank
  BY DEF Inv, PinsOK
<1> QED
  BY <1>1, AlwaysInv, PTL

-------------------------------------------------------------------------------
(* Disciplined programs: the refinement of FlatMemory.                       *)

memory == [address \in Memory |-> Cell(address)]

DisciplinedInv == Inv /\ (access.op # "idle" => Disciplined(access))

\* The parts do not overlap, and so each address has one cell.
LEMMA CellOf ==
  ASSUME NEW a \in Addresses
  PROVE  /\ InRegion(a, BootBase) => Cell(a) = readFromInternalBootProgram(a - BootBase)
         /\ InSRAM(a) => Cell(a) = core[SRAMIndex(a)]
         /\ InEEPROM(a) => Cell(a) = eeprom[a - ConfigBase]
         /\ ~InRegion(a, BootBase) /\ ~InSRAM(a) /\ ~InEEPROM(a) => Cell(a) = ext[a]
         /\ ~(InRegion(a, BootBase) /\ InSRAM(a))
         /\ ~(InRegion(a, BootBase) /\ InEEPROM(a))
         /\ ~(InSRAM(a) /\ InEEPROM(a))
         /\ a < InternalBase => ~InRegion(a, BootBase) /\ ~InSRAM(a) /\ ~InEEPROM(a)
<1>1. a \in Nat
  BY Sizes DEF Addresses
<1>2. BootBase + RegionSize <= SRAMBase /\ SRAMBase + RegionSize <= PeripheralBase
        /\ PeripheralBase < ConfigBase /\ InternalBase < BootBase
  BY LayoutAssumption
<1>3. /\ ~(InRegion(a, BootBase) /\ InSRAM(a))
      /\ ~(InRegion(a, BootBase) /\ InEEPROM(a))
      /\ ~(InSRAM(a) /\ InEEPROM(a))
      /\ a < InternalBase => ~InRegion(a, BootBase) /\ ~InSRAM(a) /\ ~InEEPROM(a)
  BY <1>1, <1>2, Sizes DEF InRegion, InSRAM, InEEPROM
<1> QED
  BY <1>3 DEF Cell

LEMMA CellOfPrimed ==
  ASSUME NEW a \in Addresses
  PROVE  /\ InRegion(a, BootBase) => Cell(a)' = readFromInternalBootProgram(a - BootBase)
         /\ InSRAM(a) => Cell(a)' = core'[SRAMIndex(a)]
         /\ InEEPROM(a) => Cell(a)' = eeprom'[a - ConfigBase]
         /\ ~InRegion(a, BootBase) /\ ~InSRAM(a) /\ ~InEEPROM(a) => Cell(a)' = ext'[a]
BY CellOf DEF Cell

LEMMA MemoryKept == ASSUME UNCHANGED cells PROVE memory' = memory
<1> SUFFICES ASSUME NEW a \in Memory PROVE Cell(a)' = Cell(a)
  BY DEF memory
<1> QED
  BY DEF cells, Cell

LEMMA MemoryIsAddresses == Memory \subseteq Addresses
BY DEF Memory

\* Behind the bytes that are done lie the next ones, until the space wraps.
LEMMA AddressAhead ==
  ASSUME AccessOK, NEW j \in Nat, access.done + j < access.size
  PROVE  /\ Wrap(access.base + (access.done + j)) = Wrap(next + j)
         /\ next + j < SpaceSize => Wrap(access.base + (access.done + j)) = next + j
<1> DEFINE b == access.base
           d == access.done
<1>1. /\ b \in Nat /\ d \in Nat /\ b < SpaceSize /\ d + j < 16
      /\ SpaceSize \in Nat /\ SpaceSize >= 16
  <2>1. /\ b \in 0 .. SpaceSize - 1 /\ d \in 0 .. access.size /\ access.size \in 1 .. 16
        /\ d + j < access.size
    BY DEF AccessOK, Addresses
  <2> QED
    BY <2>1, Sizes
<1>2. next = Wrap(b + d)
  BY DEF next
<1> HIDE DEF b, d
<1>3. next = IF b + d < SpaceSize THEN b + d ELSE b + d - SpaceSize
  BY <1>1, <1>2, SmallWrap
<1>4. next \in Nat /\ next + j \in Nat /\ next + j < 2 * SpaceSize
  BY <1>1, <1>3
<1>5. Wrap(b + (d + j)) = IF b + (d + j) < SpaceSize THEN b + (d + j)
                          ELSE b + (d + j) - SpaceSize
  <2> DEFINE n == b + (d + j)
  <2>1. n \in Nat /\ n < 2 * SpaceSize
    BY <1>1
  <2> HIDE DEF n
  <2>2. Wrap(n) = IF n < SpaceSize THEN n ELSE n - SpaceSize
    BY <1>1, <2>1, SmallWrap
  <2> QED
    BY <1>1, <2>1, <2>2 DEF n
<1>6. Wrap(next + j) = IF next + j < SpaceSize THEN next + j ELSE next + j - SpaceSize
  <2> DEFINE n == next + j
  <2>1. n \in Nat /\ n < 2 * SpaceSize
    BY <1>4
  <2> HIDE DEF n
  <2>2. Wrap(n) = IF n < SpaceSize THEN n ELSE n - SpaceSize
    BY <1>1, <2>1, SmallWrap
  <2> QED
    BY <1>1, <1>4, <2>1, <2>2 DEF n
<1>7. Wrap(b + (d + j)) = Wrap(next + j)
      /\ (next + j < SpaceSize => Wrap(b + (d + j)) = next + j)
  BY <1>1, <1>3, <1>5, <1>6
<1> QED
  BY <1>7 DEF b, d

\* An offset and the address that has it.
LEMMA OffsetOf ==
  ASSUME AccessOK, NEW a \in Addresses, NEW k \in 0 .. access.size - 1
  PROVE  Flat!Offset(a) = k <=> a = Wrap(access.base + k)
<1> DEFINE b == access.base
           n == a - b
           m == b + k
<1>1. /\ b \in Nat /\ a \in Nat /\ b < SpaceSize /\ a < SpaceSize /\ k \in Nat /\ k < 16
      /\ SpaceSize \in Nat /\ SpaceSize >= 16
  <2>1. b \in 0 .. SpaceSize - 1 /\ a \in 0 .. SpaceSize - 1 /\ access.size \in 1 .. 16
    BY DEF AccessOK, Addresses
  <2> QED
    BY <2>1, Sizes
<1>2. /\ n \in Int /\ -SpaceSize <= n /\ n < SpaceSize /\ n < 2 * SpaceSize
      /\ m \in Nat /\ m < 2 * SpaceSize /\ -SpaceSize <= m
      /\ n = a - b /\ m = b + k
  BY <1>1
<1>3. Flat!Offset(a) = Wrap(n)
  BY DEF Flat!Offset, Flat!Wrap, Wrap
<1> HIDE DEF b, n, m
<1>4. Wrap(n) = IF n < 0 THEN n + SpaceSize ELSE n
  BY <1>1, <1>2, SmallWrap
<1>5. Wrap(m) = IF m < SpaceSize THEN m ELSE m - SpaceSize
  BY <1>1, <1>2, SmallWrap
<1>6. Wrap(n) = k <=> a = Wrap(m)
  BY <1>1, <1>2, <1>4, <1>5
<1> QED
  BY <1>3, <1>6 DEF b, m

LEMMA OffsetInAddresses == ASSUME AccessOK, NEW a \in Addresses PROVE Flat!Offset(a) \in Nat
<1>1. a - access.base \in Int
  BY Standing, Sizes DEF Addresses
<1> QED
  BY <1>1, WrapIsAddress DEF Flat!Offset, Flat!Wrap, Wrap, Addresses

\* The addresses of the next n bytes, where these do not wrap.
LEMMA OffsetsAhead ==
  ASSUME AccessOK, NEW n \in Nat, access.done + n <= access.size, next + n <= SpaceSize,
         NEW a \in Addresses
  PROVE  /\ Flat!Offset(a) \in access.done .. access.done + n - 1 <=> a \in next .. next + n - 1
         /\ a \in next .. next + n - 1 => Flat!Offset(a) = access.done + (a - next)
<1>1. /\ next \in Nat /\ a \in Nat /\ access.done \in Nat /\ access.size \in Nat
      /\ Flat!Offset(a) \in Nat
  BY Standing, OffsetInAddresses DEF Addresses
<1>2. ASSUME a \in next .. next + n - 1
      PROVE  /\ Flat!Offset(a) = access.done + (a - next)
             /\ Flat!Offset(a) \in access.done .. access.done + n - 1
  <2> DEFINE j == a - next
             k == access.done + j
  <2>1. j \in Nat /\ access.done + j < access.size /\ next + j < SpaceSize /\ next + j = a
        /\ j < n /\ k \in 0 .. access.size - 1 /\ k = access.done + j
    BY <1>1, <1>2, Sizes
  <2> HIDE DEF j
  <2>2. Wrap(access.base + k) = a
    BY <2>1, AddressAhead
  <2> HIDE DEF k
  <2>3. Flat!Offset(a) = k
    BY <2>1, <2>2, OffsetOf
  <2> QED
    BY <1>1, <2>1, <2>3 DEF j
<1>3. ASSUME Flat!Offset(a) \in access.done .. access.done + n - 1
      PROVE  a \in next .. next + n - 1
  <2> DEFINE k == Flat!Offset(a)
             j == k - access.done
  <2>1. j \in Nat /\ j < n /\ access.done + j < access.size /\ access.done + j = k
        /\ next + j < SpaceSize /\ k \in 0 .. access.size - 1
    BY <1>1, <1>3, Sizes
  <2> HIDE DEF j
  <2>2. a = Wrap(access.base + k)
    BY <2>1, OffsetOf
  <2>3. a = next + j
    BY <2>1, <2>2, AddressAhead
  <2> QED
    BY <1>1, <2>1, <2>3
<1> QED
  BY <1>2, <1>3

\* What is under way is disciplined.
LEMMA Accessible ==
  ASSUME DisciplinedInv, access.op # "idle", access.done < access.size
  PROVE  /\ next \in Memory
         /\ \A i \in 0 .. access.size - 1 : Wrap(access.base + i) \in Memory
         /\ access.done % access.unit = 0 /\ ~inInternalSpace(next) => InWindow(next, access.unit)
<1>1. Disciplined(access) /\ AccessOK
  BY DEF DisciplinedInv, Inv
<1>2. access.done \in 0 .. access.size - 1
  BY <1>1, Standing
<1> QED
  BY <1>1, <1>2 DEF Disciplined, next

LEMMA MemoryStores ==
  ASSUME DisciplinedInv, access.op = "store", NEW n \in 1 .. 16,
         access.done + n <= access.size, Sent(n), next + n <= SpaceSize,
         \A a \in Memory : Cell(a)' = IF a \in next .. next + n - 1 /\ a \notin ReadOnly
                                      THEN access.data[access.done + (a - next)]
                                      ELSE Cell(a)
  PROVE  Flat!Store(n)
<1>1. AccessOK
  BY DEF DisciplinedInv, Inv
<1>2. ASSUME NEW a \in Memory
      PROVE  Cell(a)' = IF Flat!Offset(a) \in access.done .. access.done + n - 1
                             /\ a \notin ReadOnly
                        THEN access.data[Flat!Offset(a)]
                        ELSE memory[a]
  <2>1. a \in Addresses
    BY MemoryIsAddresses
  <2>2. /\ Flat!Offset(a) \in access.done .. access.done + n - 1 <=> a \in next .. next + n - 1
        /\ a \in next .. next + n - 1 => Flat!Offset(a) = access.done + (a - next)
    BY <1>1, <2>1, OffsetsAhead
  <2>3. memory[a] = Cell(a)
    BY DEF memory
  <2> QED
    BY <2>2, <2>3
<1>3. access' = [access EXCEPT !.done = access.done + n]
  BY DEF Sent
<1>4. memory' = [a \in Memory |->
                   IF Flat!Offset(a) \in access.done .. access.done + n - 1 /\ a \notin ReadOnly
                   THEN access.data[Flat!Offset(a)]
                   ELSE memory[a]]
  BY <1>2 DEF memory
<1> QED
  BY <1>3, <1>4 DEF Flat!Store, memory

LEMMA MemoryLoads ==
  ASSUME DisciplinedInv, access.op = "load", NEW n \in 1 .. 16,
         access.done + n <= access.size, next + n <= SpaceSize, UNCHANGED cells,
         NEW bytes, Received(n, bytes),
         \A j \in 0 .. n - 1 : bytes[j] = Cell(next + j)
  PROVE  Flat!Load(n)
<1>1. AccessOK /\ access.done < access.size
  <2>1. AccessOK
    BY DEF DisciplinedInv, Inv
  <2> QED
    BY <2>1, Standing
<1>2. ASSUME NEW i \in access.done .. access.done + n - 1
      PROVE  bytes[i - access.done] = memory[Flat!Wrap(access.base + i)]
  <2> DEFINE j == i - access.done
  <2>1. /\ j \in Nat /\ j \in 0 .. n - 1 /\ access.done + j < access.size
        /\ next + j < SpaceSize /\ access.done + j = i /\ i \in 0 .. access.size - 1
    BY <1>1, Standing, Sizes DEF Addresses
  <2> HIDE DEF j
  <2>2. Wrap(access.base + i) = next + j
    BY <1>1, <2>1, AddressAhead
  <2>3. Wrap(access.base + i) \in Memory
    BY <1>1, <2>1, Accessible
  <2>4. bytes[j] = memory[Wrap(access.base + i)]
    BY <2>1, <2>2, <2>3 DEF memory
  <2> QED
    BY <2>4 DEF j, Wrap, Flat!Wrap
<1>3. access' = [access EXCEPT
         !.done = access.done + n,
         !.data = [i \in 0 .. access.size - 1 |->
                     IF i \in access.done .. access.done + n - 1
                     THEN memory[Flat!Wrap(access.base + i)]
                     ELSE access.data[i]]]
  BY <1>2 DEF Received
<1> QED
  BY <1>3, MemoryKept DEF Flat!Load, memory

\* Below the internal space, cells are external memory.
LEMMA ExternalCells ==
  ASSUME DisciplinedInv, access.op # "idle", access.done < access.size,
         ~inInternalSpace(unitStart), setEBIUpper(next)
  PROVE  /\ access.unit \in 1 .. 16 /\ access.done + access.unit <= access.size
         /\ InWindow(next, access.unit) /\ next + access.unit <= InternalBase
         /\ next \in Nat /\ Selected(next) = next
<1>1. AccessOK /\ UnitsWhole /\ PinsOK
  BY DEF DisciplinedInv, Inv
<1>2. access.done % access.unit = 0 /\ unitStart = next /\ access.done + access.unit <= access.size
  BY <1>1, UnitKeepsUnits
<1>3. access.unit \in 1 .. 16 /\ access.unit \in Nat
  <2>1. /\ access.unit \in Nat /\ access.unit > 0 /\ access.size \in 1 .. 16
        /\ access.done \in Nat
    BY <1>1, Standing DEF AccessOK
  <2> QED
    BY <1>2, <2>1
<1>4. next \in Addresses /\ next \in Nat /\ next < InternalBase
  BY <1>1, <1>2, Standing, Sizes DEF inInternalSpace, Addresses
<1>5. InWindow(next, access.unit)
  BY <1>2, Accessible
<1>6. next + access.unit <= InternalBase
  BY <1>3, <1>4, <1>5, WindowBelowInternal
<1> QED
  BY <1>1, <1>2, <1>3, <1>4, <1>5, <1>6, SelectedAddress

LEMMA BusLoadRefines ==
  ASSUME DisciplinedInv, BusLoad
  PROVE  \E n \in 1 .. 16 : Flat!Load(n)
<1> DEFINE n == access.unit
<1>1. /\ access.op = "load" /\ access.done < access.size /\ UNCHANGED cells
      /\ ~inInternalSpace(unitStart) /\ setEBIUpper(next)
  BY DEF BusLoad, InProgress, cells
<1>2. /\ n \in 1 .. 16 /\ access.done + n <= access.size /\ InWindow(next, n)
      /\ next + n <= InternalBase /\ next \in Nat /\ Selected(next) = next
  BY <1>1, ExternalCells
<1>3. PICK bytes \in loadFromBus(next, n) : Received(n, bytes)
  BY DEF BusLoad
<1>4. InternalBase < SpaceSize
  BY LayoutAssumption
<1>5. computeWindowOffsetAddress(next) \in Nat /\ WindowSize \in Nat
        /\ computeWindowOffsetAddress(next) + n <= WindowSize
  BY <1>2, BankAndOffset, Sizes DEF InWindow
<1> HIDE DEF n
<1>6. ASSUME NEW j \in 0 .. n - 1 PROVE bytes[j] = Cell(next + j)
  <2>1. bytes[j] = ext[next + j]
    BY <1>2, <1>3, <1>5, <1>6 DEF loadFromBus
  <2>2. next + j \in Addresses /\ next + j < InternalBase
    BY <1>2, <1>4, <1>6, Sizes DEF Addresses
  <2> QED
    BY <2>1, <2>2, CellOf
<1>7. next + n <= SpaceSize
  BY <1>2, <1>4, Sizes
<1>8. Flat!Load(n)
  BY <1>1, <1>2, <1>3, <1>6, <1>7, MemoryLoads
<1> QED
  BY <1>2, <1>8

LEMMA BusStoreRefines ==
  ASSUME DisciplinedInv, BusStore
  PROVE  \E n \in 1 .. 16 : Flat!Store(n)
<1> DEFINE n == access.unit
<1>1. /\ access.op = "store" /\ access.done < access.size /\ UNCHANGED <<core, eeprom>>
      /\ ~inInternalSpace(unitStart) /\ setEBIUpper(next)
  BY DEF BusStore, InProgress
<1>2. /\ n \in 1 .. 16 /\ access.done + n <= access.size /\ InWindow(next, n)
      /\ next + n <= InternalBase /\ next \in Nat /\ Selected(next) = next
  BY <1>1, ExternalCells
<1>3. /\ storeToBus(next, n, [i \in 0 .. n - 1 |-> access.data[access.done + i]])
      /\ Sent(n)
  BY <1>2 DEF BusStore
<1>4. InternalBase < SpaceSize /\ BootBase \in Nat /\ InternalBase < BootBase /\ InternalBase \in Nat
  BY LayoutAssumption
<1> HIDE DEF n
<1>5. ext' = [b \in Addresses |->
                IF b \in next .. next + n - 1
                THEN access.data[access.done + (b - next)] ELSE ext[b]]
  BY <1>2, <1>3, StoredBytes DEF DisciplinedInv, Inv
<1>6. ASSUME NEW a \in Memory
      PROVE  Cell(a)' = IF a \in next .. next + n - 1 /\ a \notin ReadOnly
                        THEN access.data[access.done + (a - next)]
                        ELSE Cell(a)
  <2>1. a \in Addresses /\ a \in Nat
    BY MemoryIsAddresses DEF Addresses
  <2>2. CASE a < InternalBase
    <3>1. Cell(a) = ext[a] /\ Cell(a)' = ext'[a] /\ a \notin ReadOnly
      BY <2>1, <2>2, CellOf, CellOfPrimed DEF ReadOnly
    <3> QED
      BY <1>5, <2>1, <3>1
  <2>3. CASE ~(a < InternalBase)
    <3>1. a \notin next .. next + n - 1
      BY <1>2, <1>4, <2>1, <2>3
    <3>2. ext'[a] = ext[a]
      BY <1>5, <2>1, <3>1
    <3> QED
      BY <1>1, <3>1, <3>2, <2>1, CellOf, CellOfPrimed
  <2> QED
    BY <2>2, <2>3
<1>7. next + n <= SpaceSize
  BY <1>2, <1>4, Sizes
<1>8. Flat!Store(n)
  BY <1>1, <1>2, <1>3, <1>6, <1>7, MemoryStores
<1> QED
  BY <1>2, <1>8

LEMMA InternalLoadRefines ==
  ASSUME DisciplinedInv, InternalLoad
  PROVE  \E n \in 1 .. 16 : Flat!Load(n)
<1>1. /\ access.op = "load" /\ access.done < access.size /\ UNCHANGED cells
      /\ ReadBootProgram \/ ReadSRAM \/ ReadEEPROM \/ ReadDevice \/ ReadBus
  BY DEF InternalLoad, InProgress, cells
<1>2. AccessOK /\ PinsOK
  BY DEF DisciplinedInv, Inv
<1>3. next \in Memory /\ next \in Addresses /\ next \in Nat /\ next + 1 <= SpaceSize
        /\ access.done + 1 <= access.size
  <2>1. next \in Memory /\ next \in 0 .. SpaceSize - 1 /\ access.done \in Nat
          /\ access.size \in Nat
    BY <1>1, <1>2, Accessible, Standing DEF Addresses
  <2> QED
    BY <1>1, <2>1, Sizes DEF Addresses
<1>4. \E bytes : Received(1, bytes) /\ bytes[0] = Cell(next)
  <2>1. CASE ReadBootProgram
    BY <1>3, <2>1, CellOf DEF ReadBootProgram, ReceiveByte
  <2>2. CASE ReadSRAM
    BY <1>3, <2>2, CellOf DEF ReadSRAM, ReceiveByte
  <2>3. CASE ReadEEPROM
    BY <1>3, <2>3, CellOf DEF ReadEEPROM, ReceiveByte
  <2>4. CASE ReadDevice
    BY <1>3, <2>4 DEF ReadDevice, Memory, IsMemory
  <2>5. CASE ReadBus
    <3>1. setEBIUpper(next) /\ Selected(next) = next
      BY <1>2, <1>3, <2>5, SelectedAddress DEF ReadBus
    <3>2. PICK bytes \in loadFromBus(next, 1) : Received(1, bytes)
      BY <2>5 DEF ReadBus
    <3>3. computeWindowOffsetAddress(next) \in 0 .. WindowSize - 1 /\ WindowSize \in Nat
      BY <1>3, BankAndOffset, Sizes
    <3>4. bytes[0] = ext[next]
      <4>1. 0 \in 0 .. 1 - 1 /\ computeWindowOffsetAddress(next) + 0 < WindowSize
              /\ Selected(next) + 0 = next
        BY <1>3, <3>1, <3>3
      <4> QED
        BY <3>2, <4>1 DEF loadFromBus
    <3> QED
      BY <1>3, <2>5, <3>2, <3>4, CellOf DEF ReadBus
  <2> QED
    BY <1>1, <2>1, <2>2, <2>3, <2>4, <2>5
<1>5. PICK bytes : Received(1, bytes) /\ bytes[0] = Cell(next)
  BY <1>4
<1>6. \A j \in 0 .. 1 - 1 : bytes[j] = Cell(next + j)
  <2>1. next + 0 = next
    BY <1>3
  <2> QED
    BY <1>5, <2>1
<1>7. Flat!Load(1)
  BY <1>1, <1>3, <1>5, <1>6, MemoryLoads
<1> QED
  BY <1>7

LEMMA InternalStoreRefines ==
  ASSUME DisciplinedInv, InternalStore
  PROVE  \E n \in 1 .. 16 : Flat!Store(n)
<1>1. /\ access.op = "store" /\ access.done < access.size
      /\ WriteBootProgram \/ WriteSRAM \/ WriteEEPROM \/ WriteDevice \/ WriteBus
  BY DEF InternalStore, InProgress
<1>2. AccessOK /\ PinsOK /\ CellsOK /\ Sent(1)
  BY InternalStoreInv DEF DisciplinedInv, Inv
<1>3. next \in Memory /\ next \in Addresses /\ next \in Nat /\ next + 1 <= SpaceSize
        /\ access.done + 1 <= access.size /\ access.done \in Nat
  <2>1. next \in Memory /\ next \in 0 .. SpaceSize - 1 /\ access.done \in Nat
          /\ access.size \in Nat
    BY <1>1, <1>2, Accessible, Standing DEF Addresses
  <2> QED
    BY <1>1, <2>1, Sizes DEF Addresses
<1>4. ASSUME NEW a \in Memory
      PROVE  Cell(a)' = IF a = next /\ a \notin ReadOnly
                        THEN access.data[access.done]
                        ELSE Cell(a)
  <2>1. a \in Addresses /\ a \in Nat
    BY MemoryIsAddresses DEF Addresses
  <2>2. CASE WriteBootProgram
    <3>1. Cell(a)' = Cell(a)
      BY <2>2 DEF WriteBootProgram, cells, Cell
    <3>2. next \in ReadOnly
      BY <1>3, <2>2 DEF WriteBootProgram, ReadOnly
    <3> QED
      BY <3>1, <3>2
  <2>3. CASE WriteSRAM
    <3>1. InSRAM(next) /\ core' = [core EXCEPT ![SRAMIndex(next)] = access.data[access.done]]
            /\ UNCHANGED <<ext, eeprom>>
      BY <2>3 DEF WriteSRAM
    <3>2. next \notin ReadOnly
      BY <1>3, <3>1, CellOf DEF ReadOnly
    <3>3. CASE a = next
      <4>1. Cell(a)' = core'[SRAMIndex(a)] /\ SRAMIndex(a) \in CoreBytes
        BY <2>1, <3>1, <3>3, CellOfPrimed, PlacesInside
      <4> QED
        BY <1>2, <3>1, <3>2, <3>3, <4>1 DEF CellsOK
    <3>4. CASE a # next /\ InSRAM(a)
      <4>1. SRAMIndex(a) # SRAMIndex(next) /\ SRAMIndex(a) \in CoreBytes
        BY <1>3, <2>1, <3>4, PlacesInside, Sizes DEF SRAMIndex
      <4>2. core'[SRAMIndex(a)] = core[SRAMIndex(a)]
        BY <1>2, <3>1, <4>1 DEF CellsOK
      <4> QED
        BY <2>1, <3>4, <4>2, CellOf, CellOfPrimed
    <3>5. CASE a # next /\ ~InSRAM(a)
      BY <2>1, <3>1, <3>5, CellOf, CellOfPrimed
    <3> QED
      BY <3>3, <3>4, <3>5
  <2>4. CASE WriteEEPROM
    <3>1. InEEPROM(next) /\ eeprom' = [eeprom EXCEPT ![next - ConfigBase] = access.data[access.done]]
            /\ UNCHANGED <<ext, core>>
      BY <2>4 DEF WriteEEPROM
    <3>2. next \notin ReadOnly
      BY <1>3, <3>1, CellOf DEF ReadOnly
    <3>3. CASE a = next
      <4>1. Cell(a)' = eeprom'[a - ConfigBase] /\ a - ConfigBase \in 0 .. EEPROMBytes - 1
        BY <2>1, <3>1, <3>3, CellOfPrimed, PlacesInside
      <4> QED
        BY <1>2, <3>1, <3>2, <3>3, <4>1 DEF CellsOK
    <3>4. CASE a # next /\ InEEPROM(a)
      <4>1. a - ConfigBase # next - ConfigBase /\ a - ConfigBase \in 0 .. EEPROMBytes - 1
        BY <1>3, <2>1, <3>4, PlacesInside, Sizes
      <4>2. eeprom'[a - ConfigBase] = eeprom[a - ConfigBase]
        BY <1>2, <3>1, <4>1 DEF CellsOK
      <4> QED
        BY <2>1, <3>4, <4>2, CellOf, CellOfPrimed
    <3>5. CASE a # next /\ ~InEEPROM(a)
      BY <2>1, <3>1, <3>5, CellOf, CellOfPrimed
    <3> QED
      BY <3>3, <3>4, <3>5
  <2>5. CASE WriteDevice
    BY <1>3, <2>5 DEF WriteDevice, Memory, IsMemory, InDevice, WritableDevices, ReadableDevices
  <2>6. CASE WriteBus
    <3>1. /\ setEBIUpper(next) /\ UNCHANGED <<core, eeprom>>
          /\ storeToBus(next, 1, [i \in {0} |-> access.data[access.done]])
          /\ ~(InRegion(next, BootBase) \/ InSRAM(next) \/ InEEPROM(next))
      BY <2>6 DEF WriteBus
    <3>2. Selected(next) = next
      BY <1>2, <1>3, <3>1, SelectedAddress
    <3>3. ext'[a] = IF a = next THEN access.data[access.done] ELSE ext[a]
      <4>1. a \in next .. next + 1 - 1 <=> a = next
        BY <1>3, <2>1
      <4>2. next - next = 0
        BY <1>3
      <4> QED
        BY <2>1, <3>1, <3>2, <4>1, <4>2 DEF storeToBus
    <3>4. next \notin ReadOnly
      BY <3>1 DEF ReadOnly
    <3> QED
      BY <2>1, <3>1, <3>3, <3>4, CellOf, CellOfPrimed
  <2> QED
    BY <1>1, <2>2, <2>3, <2>4, <2>5, <2>6
<1>5. ASSUME NEW a \in Memory
      PROVE  Cell(a)' = IF a \in next .. next + 1 - 1 /\ a \notin ReadOnly
                        THEN access.data[access.done + (a - next)]
                        ELSE Cell(a)
  <2>1. a \in Nat /\ (a \in next .. next + 1 - 1 <=> a = next)
    BY <1>3, MemoryIsAddresses DEF Addresses
  <2>2. access.done + (next - next) = access.done
    BY <1>3
  <2> QED
    BY <1>4, <2>1, <2>2
<1>6. Flat!Store(1)
  BY <1>1, <1>2, <1>3, <1>5, MemoryStores
<1> QED
  BY <1>6

LEMMA BeginRefines ==
  ASSUME DisciplinedInv, Begin, Disciplined(access')
  PROVE  Flat!Begin
<1>1. access' \in Accesses /\ UNCHANGED cells /\ access.op = "idle"
  BY DEF Begin, cells
<1> DEFINE n == access'.size
<1>2. /\ access' \in [op : {"load", "store"}, base : Addresses, unit : Nat \ {0},
                      size : Nat \ {0}, done : {0}, data : [0 .. n - 1 -> Bytes]]
      /\ access'.unit <= n /\ n <= 16
  BY <1>1, AccessAssumption
<1>3. n \in 1 .. 16 /\ access'.unit \in 1 .. n
  BY <1>2
<1>4. access' \in [op : {"load", "store"}, base : 0 .. SpaceSize - 1, unit : 1 .. n,
                   size : {n}, done : {0}, data : [0 .. n - 1 -> Bytes]]
  BY <1>2, <1>3 DEF Addresses
<1>5. \A i \in 0 .. n - 1 : Flat!Wrap(access'.base + i) \in Memory
  BY DEF Disciplined, Wrap, Flat!Wrap
<1> QED
  BY <1>1, <1>3, <1>4, <1>5, MemoryKept DEF Flat!Begin, memory

LEMMA DisciplinedInvStep ==
  ASSUME DisciplinedInv, [DisciplinedNext]_vars
  PROVE  DisciplinedInv'
<1>1. Inv /\ Inv'
  BY StepInv DEF DisciplinedInv, DisciplinedNext, Next
<1>2. ASSUME access'.op # "idle" PROVE Disciplined(access)'
  <2>1. CASE Begin /\ Disciplined(access')
    BY <2>1 DEF Disciplined, inInternalSpace, InWindow, computeWindowOffsetAddress
  <2>2. CASE UNCHANGED vars
    BY <1>2, <2>2 DEF vars, DisciplinedInv
  <2>3. CASE Complete
    <3>1. access' = [access EXCEPT !.op = "idle"]
      BY <2>3 DEF Complete
    <3>2. access'.op = "idle"
      BY <1>1, <3>1 DEF Inv, AccessOK
    <3> QED
      BY <1>2, <3>2
  <2>4. CASE BusLoad \/ BusStore \/ InternalLoad \/ InternalStore
    <3>1. /\ access'.op = access.op /\ access'.base = access.base
          /\ access'.size = access.size /\ access'.unit = access.unit
      BY <1>1, <2>4 DEF BusLoad, BusStore, InternalLoad, InternalStore, Received, Sent,
         ReadBootProgram, ReadSRAM, ReadEEPROM, ReadDevice, ReadBus, ReceiveByte,
         WriteBootProgram, WriteSRAM, WriteEEPROM, WriteDevice, WriteBus, Inv, AccessOK
    <3> QED
      BY <1>2, <3>1 DEF DisciplinedInv, Disciplined
  <2> QED
    BY <2>1, <2>2, <2>3, <2>4 DEF DisciplinedNext, Step
<1> QED
  BY <1>1, <1>2 DEF DisciplinedInv

LEMMA DisciplinedInit == Init => DisciplinedInv
BY InitInv DEF Init, DisciplinedInv

LEMMA FlatInitially == Init => Flat!FlatInit
<1> SUFFICES ASSUME Init PROVE Flat!FlatInit
  OBVIOUS
<1>1. CellsOK
  BY InitInv DEF Inv
<1>2. ASSUME NEW a \in Memory PROVE Cell(a) \in Bytes
  <2>1. a \in Addresses
    BY MemoryIsAddresses
  <2> QED
    BY <1>1, <2>1, CellOf, PlacesInside DEF CellsOK
<1> QED
  BY <1>2 DEF Flat!FlatInit, Init

\* The window, its banks, the regions of the internal space and the loops
\* over bytes behave like one array of bytes for every program that stays on
\* memory and within its windows, for every layout of the regions.
THEOREM BusImplementsFlatMemory == DisciplinedSpec => ImplementsFlatMemory
<1>1. DisciplinedInv /\ [DisciplinedNext]_vars => [Flat!FlatNext]_Flat!flatVars
  <2> SUFFICES ASSUME DisciplinedInv, [DisciplinedNext]_vars
               PROVE  [Flat!FlatNext]_Flat!flatVars
    OBVIOUS
  <2>1. CASE Begin /\ Disciplined(access')
    BY <2>1, BeginRefines DEF Flat!FlatNext
  <2>2. CASE BusLoad \/ InternalLoad
    BY <2>2, BusLoadRefines, InternalLoadRefines DEF Flat!FlatNext
  <2>3. CASE BusStore \/ InternalStore
    BY <2>3, BusStoreRefines, InternalStoreRefines DEF Flat!FlatNext
  <2>4. CASE Complete
    <3>1. Flat!Complete
      BY <2>4, MemoryKept DEF Complete, Flat!Complete, memory, cells
    <3> QED
      BY <3>1 DEF Flat!FlatNext
  <2>5. CASE UNCHANGED vars
    BY <2>5, MemoryKept DEF vars, cells, Flat!flatVars, memory
  <2> QED
    BY <2>1, <2>2, <2>3, <2>4, <2>5 DEF DisciplinedNext, Step
<1> QED
  BY <1>1, FlatInitially, DisciplinedInit, DisciplinedInvStep, PTL
     DEF DisciplinedSpec, ImplementsFlatMemory, Flat!FlatSpec

-------------------------------------------------------------------------------
(* Accesses end.                                                             *)

\* How many steps an access can still take: one for each byte that is left and
\* one to complete.
Left == IF access.op = "idle" THEN 0 ELSE access.size - access.done + 1

\* By how many bytes each step brings an access on.
LEMMA StepCounts ==
  ASSUME DisciplinedInv, Step
  PROVE  \/ access'.op = "idle"
         \/ /\ access'.op # "idle" /\ access'.size = access.size
            /\ \E n \in 1 .. 16 : access'.done = access.done + n
<1>1. AccessOK
  BY DEF DisciplinedInv, Inv
<1>2. ASSUME NEW n \in 1 .. 16, access.done + n <= access.size,
             \/ Sent(n)
             \/ \E bytes \in [0 .. n - 1 -> Bytes] : Received(n, bytes)
      PROVE  /\ access'.op = access.op /\ access'.size = access.size
             /\ access'.done = access.done + n
  <2>1. n \in Nat
    BY <1>2
  <2>2. CASE Sent(n)
    BY <1>1, <1>2, <2>1, <2>2, SentCounted
  <2>3. CASE \E bytes \in [0 .. n - 1 -> Bytes] : Received(n, bytes)
    BY <1>1, <1>2, <2>1, <2>3, ReceivedCounted
  <2> QED
    BY <1>2, <2>2, <2>3
<1>3. CASE Complete
  <2>1. access' = [access EXCEPT !.op = "idle"]
    BY <1>3 DEF Complete
  <2> QED
    BY <1>1, <2>1 DEF AccessOK
<1>4. CASE BusLoad
  <2>1. /\ access.op # "idle" /\ access.done < access.size
        /\ ~inInternalSpace(unitStart) /\ setEBIUpper(next)
    BY <1>4 DEF BusLoad, InProgress
  <2>2. access.unit \in 1 .. 16 /\ access.done + access.unit <= access.size
    BY <2>1, ExternalCells
  <2>3. \E bytes \in [0 .. access.unit - 1 -> Bytes] : Received(access.unit, bytes)
    BY <1>4 DEF BusLoad, loadFromBus
  <2> QED
    BY <1>2, <2>1, <2>2, <2>3
<1>5. CASE BusStore
  <2>1. /\ access.op # "idle" /\ access.done < access.size
        /\ ~inInternalSpace(unitStart) /\ setEBIUpper(next)
    BY <1>5 DEF BusStore, InProgress
  <2>2. /\ access.unit \in 1 .. 16 /\ access.done + access.unit <= access.size
        /\ InWindow(next, access.unit)
    BY <2>1, ExternalCells
  <2>3. Sent(access.unit)
    BY <1>5, <2>2 DEF BusStore
  <2> QED
    BY <1>2, <2>1, <2>2, <2>3
<1>6. CASE InternalLoad \/ InternalStore
  <2>1. access.op # "idle" /\ access.done < access.size
    BY <1>6 DEF InternalLoad, InternalStore, InProgress
  <2>2. Sent(1) \/ \E bytes \in [0 .. 1 - 1 -> Bytes] : Received(1, bytes)
    BY <1>6, InternalLoadInv, InternalStoreInv DEF DisciplinedInv
  <2>3. access.done + 1 <= access.size
    BY <1>1, <2>1, Standing
  <2> QED
    BY <1>2, <2>1, <2>2, <2>3
<1> QED
  BY <1>3, <1>4, <1>5, <1>6 DEF Step

LEMMA LeftBounded == DisciplinedInv => Left \in 0 .. 17
<1> SUFFICES ASSUME DisciplinedInv PROVE Left \in 0 .. 17
  OBVIOUS
<1>1. access.size \in 1 .. 16 /\ access.done \in 0 .. access.size
  BY DEF DisciplinedInv, Inv, AccessOK
<1>2. access.size - access.done + 1 \in 0 .. 17 /\ 0 \in 0 .. 17
  BY <1>1
<1> QED
  BY <1>2, Zenon DEF Left

LEMMA StepDecreases ==
  ASSUME DisciplinedInv, [DisciplinedNext]_vars
  PROVE  /\ Left \in 0 .. 17 /\ Left' \in 0 .. 17
         /\ Step => Left' < Left
         /\ access.op # "idle" /\ ~Step => Left' = Left
<1>1. /\ access.size \in 1 .. 16 /\ access.done \in 0 .. access.size
      /\ access'.size \in 1 .. 16 /\ access'.done \in 0 .. access'.size
  BY DisciplinedInvStep DEF DisciplinedInv, Inv, AccessOK
<1>2. Left \in 0 .. 17 /\ Left' \in 0 .. 17
  <2>1. \A size \in 1 .. 16 : \A done \in 0 .. size :
          size - done + 1 \in 0 .. 17 /\ 0 \in 0 .. 17
    OBVIOUS
  <2>2. Left' \in 0 .. 17
    BY <1>1, <2>1, Zenon DEF Left
  <2> QED
    BY <2>2, LeftBounded
<1>3. ASSUME Step PROVE Left' < Left
  <2>1. access.op # "idle"
    BY <1>3 DEF Step, BusLoad, BusStore, InternalLoad, InternalStore, Complete, InProgress
  <2>2. \/ access'.op = "idle"
        \/ /\ access'.op # "idle" /\ access'.size = access.size
           /\ \E n \in 1 .. 16 : access'.done = access.done + n
    BY <1>3, StepCounts
  <2> QED
    BY <1>1, <2>1, <2>2 DEF Left
<1>4. ASSUME access.op # "idle", ~Step PROVE Left' = Left
  <2>1. access' = access
    BY <1>4 DEF DisciplinedNext, Begin, vars
  <2> QED
    BY <2>1 DEF Left
<1> QED
  BY <1>2, <1>3, <1>4

\* Every step of every load and store brings it nearer to its end, from at most
\* 17 steps: no loop over bytes or units goes around without progress.
THEOREM AccessesAdvance ==
  DisciplinedSpec => [](Left \in 0 .. 17) /\ [][Step => Left' < Left]_vars
<1>1. DisciplinedInv => Left \in 0 .. 17
  BY LeftBounded
<1>2. DisciplinedInv /\ [DisciplinedNext]_vars => [Step => Left' < Left]_vars
  BY StepDecreases
<1> QED
  BY <1>1, <1>2, DisciplinedInit, DisciplinedInvStep, PTL DEF DisciplinedSpec

\* The bits of Left, for a prover that knows propositions only: of the bits that
\* a step changes, the highest falls.
Bit(k) == (Left \div k) % 2 = 1

HighBitsKept == (Bit(16)' <=> Bit(16)) /\ (Bit(8)' <=> Bit(8)) /\ (Bit(4)' <=> Bit(4))

LEMMA BitsFall ==
  ASSUME DisciplinedInv, [DisciplinedNext]_vars, access.op # "idle"
  PROVE  /\ Bit(16)' => Bit(16)
         /\ (Bit(16)' <=> Bit(16)) => (Bit(8)' => Bit(8))
         /\ (Bit(16)' <=> Bit(16)) /\ (Bit(8)' <=> Bit(8)) => (Bit(4)' => Bit(4))
         /\ HighBitsKept => (Bit(2)' => Bit(2))
         /\ HighBitsKept /\ (Bit(2)' <=> Bit(2)) => (Bit(1)' => Bit(1))
         /\ Step /\ HighBitsKept => ~((Bit(2)' <=> Bit(2)) /\ (Bit(1)' <=> Bit(1)))
<1> DEFINE m == Left'
           n == Left
<1>1. m \in 0 .. 17 /\ n \in 0 .. 17 /\ m <= n /\ (Step => m < n)
  BY StepDecreases
<1> HIDE DEF m, n
<1>2. /\ (m \div 16) % 2 = 1 => (n \div 16) % 2 = 1
      /\ ((m \div 16) % 2 = 1 <=> (n \div 16) % 2 = 1) =>
           /\ (m \div 8) % 2 = 1 => (n \div 8) % 2 = 1
           /\ ((m \div 8) % 2 = 1 <=> (n \div 8) % 2 = 1) =>
                /\ (m \div 4) % 2 = 1 => (n \div 4) % 2 = 1
                /\ ((m \div 4) % 2 = 1 <=> (n \div 4) % 2 = 1) =>
                     /\ (m \div 2) % 2 = 1 => (n \div 2) % 2 = 1
                     /\ ((m \div 2) % 2 = 1 <=> (n \div 2) % 2 = 1) =>
                          /\ (m \div 1) % 2 = 1 => (n \div 1) % 2 = 1
                          /\ ((m \div 1) % 2 = 1 <=> (n \div 1) % 2 = 1) => m = n
  BY <1>1
<1>3. /\ (Bit(16)' <=> (m \div 16) % 2 = 1) /\ (Bit(16) <=> (n \div 16) % 2 = 1)
      /\ (Bit(8)' <=> (m \div 8) % 2 = 1) /\ (Bit(8) <=> (n \div 8) % 2 = 1)
      /\ (Bit(4)' <=> (m \div 4) % 2 = 1) /\ (Bit(4) <=> (n \div 4) % 2 = 1)
      /\ (Bit(2)' <=> (m \div 2) % 2 = 1) /\ (Bit(2) <=> (n \div 2) % 2 = 1)
      /\ (Bit(1)' <=> (m \div 1) % 2 = 1) /\ (Bit(1) <=> (n \div 1) % 2 = 1)
  BY DEF Bit, m, n
<1> QED
  BY <1>1, <1>2, <1>3 DEF HighBitsKept

\* As long as the processor goes on taking steps while an access is under way,
\* as its fairness makes it where a step is possible, each load and store ends.
THEOREM AccessesEnd ==
  /\ Init /\ [][DisciplinedNext]_vars
  /\ []<>(access.op = "idle") \/ []<><<Step>>_vars
  => AccessesComplete
<1> DEFINE Idle == access.op = "idle"
           Always == [][DisciplinedNext]_vars /\ []DisciplinedInv
<1>1. Init /\ [][DisciplinedNext]_vars => Always
  BY DisciplinedInit, DisciplinedInvStep, PTL
<1>2. DisciplinedInv /\ [DisciplinedNext]_vars /\ ~Idle =>
        /\ Bit(16)' => Bit(16)
        /\ (Bit(16)' <=> Bit(16)) => (Bit(8)' => Bit(8))
        /\ (Bit(16)' <=> Bit(16)) /\ (Bit(8)' <=> Bit(8)) => (Bit(4)' => Bit(4))
  BY BitsFall
<1>3. DisciplinedInv /\ [DisciplinedNext]_vars /\ ~Idle /\ [HighBitsKept]_vars =>
        /\ Bit(2)' => Bit(2)
        /\ (Bit(2)' <=> Bit(2)) => (Bit(1)' => Bit(1))
  <2>1. UNCHANGED vars => HighBitsKept
    BY DEF vars, HighBitsKept, Bit, Left
  <2> QED
    BY <2>1, BitsFall
<1>4. DisciplinedInv /\ [DisciplinedNext]_vars /\ ~Idle /\ [HighBitsKept]_vars =>
        (<<Step>>_vars => ~((Bit(2)' <=> Bit(2)) /\ (Bit(1)' <=> Bit(1))))
  BY BitsFall
<1> HIDE DEF Idle
<1>5. Always /\ <>[]~Idle => <>[]Bit(16) \/ <>[]~Bit(16)
  BY <1>2, PTL
<1>6. Always /\ <>[]~Idle => <>[]Bit(8) \/ <>[]~Bit(8)
  BY <1>2, <1>5, PTL
<1>7. Always /\ <>[]~Idle => <>[]Bit(4) \/ <>[]~Bit(4)
  BY <1>2, <1>5, <1>6, PTL
<1>8. Always /\ <>[]~Idle => <>[][HighBitsKept]_vars
  BY <1>5, <1>6, <1>7, PTL DEF HighBitsKept
<1>9. Always /\ <>[]~Idle => <>[]Bit(2) \/ <>[]~Bit(2)
  BY <1>3, <1>8, PTL
<1>10. Always /\ <>[]~Idle => <>[]Bit(1) \/ <>[]~Bit(1)
  BY <1>3, <1>8, <1>9, PTL
<1>11. Always /\ <>[]~Idle => ~[]<><<Step>>_vars
  BY <1>4, <1>8, <1>9, <1>10, PTL
<1>12. Idle <=> ~(access.op # "idle")
  BY DEF Idle
<1> QED
  BY <1>1, <1>11, <1>12, PTL DEF AccessesComplete, Idle

\* Under the fairness of the processor's loop, therefore, an access could only
\* fail to end by getting into a state without a step.
THEOREM AccessesEndIfPossible ==
  DisciplinedSpec /\ [](access.op # "idle" => ENABLED <<Step>>_vars) => AccessesComplete
<1>1. access.op = "idle" <=> ~(access.op # "idle")
  OBVIOUS
<1> QED
  BY <1>1, AccessesEnd, PTL DEF DisciplinedSpec, Fairness

-------------------------------------------------------------------------------
(* A step is possible.                                                       *)

\* No native access of a disciplined program leaves the window.
LEMMA WindowKept ==
  ASSUME DisciplinedInv, ~stray, [DisciplinedNext]_vars
  PROVE  ~stray'
<1>1. CASE BusStore
  <2>1. InWindow(next, access.unit)
    BY <1>1, ExternalCells DEF BusStore, InProgress
  <2> QED
    BY <1>1, <2>1 DEF BusStore
<1>2. CASE ~BusStore
  BY <1>2 DEF DisciplinedNext, Step, Begin, BusLoad, InternalLoad, InternalStore, Complete, vars
<1> QED
  BY <1>1, <1>2

\* How many bytes the next step moves, and whether through the window.
Turn == IF inInternalSpace(unitStart) THEN 1 ELSE access.unit

Outside == ~InRegion(next, BootBase) /\ ~InSRAM(next) /\ ~InEEPROM(next)

Moving == access.done < access.size
Storing == Moving /\ access.op = "store"
Selects == Moving /\ Outside /\ Bank(next) # ebiUpper

\* A step of the access under way: one equation for each variable, and no
\* condition.  From each state there is a next one of which it is true.
GoOn ==
  /\ a15' = IF Selects THEN Bank(next) % 2 ELSE a15
  /\ port' = IF Selects THEN Bank(next) \div 2 ELSE port
  /\ ebiUpper' = IF Selects THEN Bank(next) ELSE ebiUpper
  /\ ext' = IF Storing /\ Outside
            THEN [a \in Addresses |-> IF a \in next .. next + Turn - 1
                                      THEN access.data[access.done + (a - next)]
                                      ELSE ext[a]]
            ELSE ext
  /\ core' = IF Storing /\ InSRAM(next)
             THEN [core EXCEPT ![SRAMIndex(next)] = access.data[access.done]]
             ELSE core
  /\ eeprom' = IF Storing /\ InEEPROM(next)
               THEN [eeprom EXCEPT ![next - ConfigBase] = access.data[access.done]]
               ELSE eeprom
  /\ access' = IF ~Moving
               THEN [access EXCEPT !.op = "idle"]
               ELSE [access EXCEPT
                       !.done = access.done + Turn,
                       !.data = IF Storing
                                THEN access.data
                                ELSE [i \in 0 .. access.size - 1 |->
                                        IF i \in access.done .. access.done + Turn - 1
                                        THEN Cell(next + (i - access.done))
                                        ELSE access.data[i]]]
  /\ stray' = stray

\* The pins are set as setEBIUpper sets them, or left alone.
LEMMA GoOnPins ==
  ASSUME Moving, GoOn
  PROVE  /\ Outside => setEBIUpper(next)
         /\ ~Outside => UNCHANGED pins
BY DEF GoOn, Selects, setEBIUpper, pins

\* What a step of a load puts into the data, with the bytes of the cells.
LEMMA GoOnReceives ==
  ASSUME AccessOK, Moving, ~Storing, GoOn, NEW bytes, Turn \in Nat,
         \A j \in 0 .. Turn - 1 : bytes[j] = Cell(next + j)
  PROVE  Received(Turn, bytes) /\ UNCHANGED <<ext, core, eeprom, stray>>
<1> DEFINE d == access.done
           n == Turn
           cell(i) == Cell(next + (i - d))
<1>1. d \in Nat /\ n \in Nat
  BY Standing
<1>2. /\ access' = [access EXCEPT
           !.done = d + n,
           !.data = [i \in 0 .. access.size - 1 |->
                       IF i \in d .. d + n - 1 THEN cell(i) ELSE access.data[i]]]
      /\ UNCHANGED <<ext, core, eeprom, stray>>
  BY Zenon DEF GoOn
<1>3. ASSUME NEW i \in d .. d + n - 1 PROVE cell(i) = bytes[i - d]
  <2>1. i - d \in 0 .. n - 1
    BY <1>1, <1>3
  <2> HIDE DEF n, d
  <2> QED
    BY <2>1 DEF n, d
<1> HIDE DEF d, n, cell
<1>4. [i \in 0 .. access.size - 1 |->
         IF i \in d .. d + n - 1 THEN cell(i) ELSE access.data[i]]
      = [i \in 0 .. access.size - 1 |->
           IF i \in d .. d + n - 1 THEN bytes[i - d] ELSE access.data[i]]
  BY <1>3
<1> QED
  BY <1>2, <1>4 DEF Received, d, n

\* A store leaves the data as they are.
LEMMA GoOnSends ==
  ASSUME AccessOK, Storing, GoOn
  PROVE  Sent(Turn) /\ UNCHANGED stray
<1>1. /\ access' = [access EXCEPT !.done = access.done + Turn, !.data = access.data]
      /\ UNCHANGED stray
  BY Zenon DEF GoOn, Storing
<1> QED
  BY <1>1 DEF Sent, AccessOK

\* What is stored through the window are the bytes of the unit.
LEMMA GoOnStores ==
  ASSUME Storing, Outside, GoOn, next \in Int, Turn \in Nat, Selected(next) = next,
         NEW data, \A j \in 0 .. Turn - 1 : data[j] = access.data[access.done + j]
  PROVE  storeToBus(next, Turn, data)
<1> DEFINE n == Turn
           s == next
           new(a) == access.data[access.done + (a - s)]
<1>1. s \in Int /\ n \in Nat
  OBVIOUS
<1>2. ext' = [a \in Addresses |-> IF a \in s .. s + n - 1 THEN new(a) ELSE ext[a]]
  BY Zenon DEF GoOn
<1>3. ASSUME NEW a \in s .. s + n - 1 PROVE new(a) = data[a - s]
  <2>1. a - s \in 0 .. n - 1
    <3> HIDE DEF n, s
    <3> QED
      BY <1>1, <1>3
  <2> QED
    BY <2>1
<1> HIDE DEF n, s, new
<1>4. ext' = [a \in Addresses |-> IF a \in s .. s + n - 1 THEN data[a - s] ELSE ext[a]]
  BY <1>2, <1>3
<1> QED
  BY <1>4 DEF storeToBus, s, n

\* Below the internal space a step is a native access of a unit.
LEMMA GoOnOutside ==
  ASSUME DisciplinedInv, ~stray, access.op # "idle", Moving,
         ~inInternalSpace(unitStart), GoOn
  PROVE  BusLoad \/ BusStore
<1> DEFINE n == access.unit
<1>1. AccessOK /\ UnitsWhole /\ CellsOK /\ InProgress /\ Turn = n
  BY DEF DisciplinedInv, Inv, InProgress, Moving, Turn
<1>2. unitStart = next /\ next \in Addresses /\ next < InternalBase
  BY <1>1, Standing, Sizes DEF UnitsWhole, inInternalSpace, Addresses
<1>3. Outside
  BY <1>2, CellOf DEF Outside
<1>4. setEBIUpper(next)
  BY <1>3, GoOnPins
<1>5. /\ n \in 1 .. 16 /\ n \in Nat /\ InWindow(next, n) /\ next + n <= InternalBase
      /\ next \in Nat /\ Selected(next) = next
  BY <1>4, ExternalCells DEF Moving
<1>6. InternalBase \in Nat /\ InternalBase < SpaceSize /\ SpaceSize \in Nat
  BY LayoutAssumption
<1>7. CASE access.op = "load"
  <2> DEFINE bytes == [j \in 0 .. n - 1 |-> ext[next + j]]
  <2>1. ASSUME NEW j \in 0 .. n - 1
        PROVE  next + j \in Addresses /\ Cell(next + j) = ext[next + j]
    <3>1. next + j \in Addresses /\ next + j < InternalBase
      BY <1>5, <1>6 DEF Addresses
    <3> QED
      BY <3>1, CellOf
  <2>2. bytes \in loadFromBus(next, n)
    BY <1>1, <1>5, <2>1 DEF loadFromBus, CellsOK
  <2>3. \A j \in 0 .. n - 1 : bytes[j] = Cell(next + j)
    BY <2>1
  <2>4. ~Storing
    BY <1>7 DEF Storing
  <2> HIDE DEF bytes, n
  <2>5. Received(n, bytes) /\ UNCHANGED <<ext, core, eeprom, stray>>
    BY <1>1, <1>5, <2>3, <2>4, GoOnReceives
  <2> QED
    BY <1>1, <1>4, <1>7, <2>2, <2>5 DEF BusLoad, n
<1>8. CASE access.op = "store"
  <2> DEFINE data == [j \in 0 .. n - 1 |-> access.data[access.done + j]]
  <2>1. Storing
    BY <1>8 DEF Storing
  <2>2. \A j \in 0 .. n - 1 : data[j] = access.data[access.done + j]
    OBVIOUS
  <2>3. storeToBus(next, n, data)
    <3> HIDE DEF data, n
    <3> QED
      BY <1>1, <1>3, <1>5, <2>1, <2>2, GoOnStores
  <2>4. Sent(n) /\ UNCHANGED stray
    BY <1>1, <2>1, GoOnSends
  <2>5. UNCHANGED <<core, eeprom>>
    BY <1>3 DEF GoOn, Outside
  <2> QED
    BY <1>1, <1>4, <1>5, <1>8, <2>3, <2>4, <2>5 DEF BusStore
<1> QED
  BY <1>1, <1>7, <1>8 DEF AccessOK

\* In the internal space it is a turn of the byte loop, which has a place for
\* each byte of memory.
LEMMA GoOnInside ==
  ASSUME DisciplinedInv, ~stray, access.op # "idle", Moving,
         inInternalSpace(unitStart), GoOn
  PROVE  InternalLoad \/ InternalStore
<1>1. AccessOK /\ PinsOK /\ CellsOK /\ InProgress /\ Turn = 1 /\ next \in Addresses
  BY Standing DEF DisciplinedInv, Inv, InProgress, Moving, Turn
<1>2. ~InDevice(next, ReadableDevices) /\ ~InDevice(next, WritableDevices)
  BY Accessible DEF Moving, Memory, IsMemory, InDevice, ReadableDevices, WritableDevices
<1>3. next \in Int /\ (Outside => setEBIUpper(next) /\ Selected(next) = next)
  BY <1>1, GoOnPins, SelectedAddress, Sizes DEF Addresses
<1>4. ~Outside => UNCHANGED pins
  BY GoOnPins
<1>5. CASE access.op = "load"
  <2> DEFINE bytes == [i \in {0} |-> Cell(next)]
  <2>1. \A j \in 0 .. 1 - 1 : bytes[j] = Cell(next + j)
    BY <1>3
  <2>2. ~Storing
    BY <1>5 DEF Storing
  <2>3. Received(1, bytes) /\ UNCHANGED <<ext, core, eeprom, stray>>
    <3> HIDE DEF bytes
    <3> QED
      BY <1>1, <2>1, <2>2, GoOnReceives
  <2>4. ASSUME InRegion(next, BootBase) PROVE ReadBootProgram
    BY <1>1, <1>4, <2>3, <2>4, CellOf DEF Outside, ReadBootProgram, ReceiveByte
  <2>5. ASSUME InSRAM(next) PROVE ReadSRAM
    BY <1>1, <1>4, <2>3, <2>5, CellOf DEF Outside, ReadSRAM, ReceiveByte
  <2>6. ASSUME InEEPROM(next) PROVE ReadEEPROM
    BY <1>1, <1>4, <2>3, <2>6, CellOf DEF Outside, ReadEEPROM, ReceiveByte
  <2>7. ASSUME Outside PROVE ReadBus
    <3>1. bytes \in loadFromBus(next, 1)
      BY <1>1, <1>3, <2>7, CellOf DEF loadFromBus, CellsOK, Outside
    <3> HIDE DEF bytes
    <3> QED
      BY <1>2, <1>3, <2>3, <2>7, <3>1 DEF Outside, ReadBus
  <2> QED
    BY <1>1, <1>5, <2>3, <2>4, <2>5, <2>6, <2>7 DEF InternalLoad, Outside
<1>6. CASE access.op = "store"
  <2> DEFINE data == [i \in {0} |-> access.data[access.done]]
  <2>1. Storing
    BY <1>6 DEF Storing
  <2>2. Sent(1) /\ UNCHANGED stray
    BY <1>1, <2>1, GoOnSends
  <2>3. ~Outside => UNCHANGED ext
    BY DEF GoOn
  <2>4. /\ ~InSRAM(next) => UNCHANGED core
        /\ ~InEEPROM(next) => UNCHANGED eeprom
    BY DEF GoOn
  <2>5. ASSUME InRegion(next, BootBase) PROVE WriteBootProgram
    BY <1>1, <1>4, <2>2, <2>3, <2>4, <2>5, CellOf DEF Outside, WriteBootProgram, cells
  <2>6. ASSUME InSRAM(next) PROVE WriteSRAM
    <3>1. core' = [core EXCEPT ![SRAMIndex(next)] = access.data[access.done]]
      BY <2>1, <2>6 DEF GoOn
    <3> QED
      BY <1>1, <1>4, <2>2, <2>3, <2>4, <2>6, <3>1, CellOf DEF Outside, WriteSRAM
  <2>7. ASSUME InEEPROM(next) PROVE WriteEEPROM
    <3>1. eeprom' = [eeprom EXCEPT ![next - ConfigBase] = access.data[access.done]]
      BY <2>1, <2>7 DEF GoOn
    <3> QED
      BY <1>1, <1>4, <2>2, <2>3, <2>4, <2>7, <3>1, CellOf DEF Outside, WriteEEPROM
  <2>8. ASSUME Outside PROVE WriteBus
    <3>1. \A j \in 0 .. 1 - 1 : data[j] = access.data[access.done + j]
      BY <1>1, Standing
    <3> HIDE DEF data
    <3>2. storeToBus(next, 1, data)
      BY <1>1, <1>3, <2>1, <2>8, <3>1, GoOnStores
    <3> QED
      BY <1>2, <1>3, <2>2, <2>4, <2>8, <3>2 DEF Outside, WriteBus, data
  <2> QED
    BY <1>1, <1>6, <2>2, <2>5, <2>6, <2>7, <2>8 DEF InternalStore, Outside
<1> QED
  BY <1>1, <1>5, <1>6 DEF AccessOK

\* No native store of a disciplined program leaves the window, so that what is
\* said of the memory holds throughout.
THEOREM StoresInWindow == DisciplinedSpec => []~stray
<1>1. Init => ~stray
  BY DEF Init
<1> QED
  BY <1>1, DisciplinedInit, DisciplinedInvStep, WindowKept, PTL DEF DisciplinedSpec

\* No load or store gets stuck: in each state of a disciplined program, with an
\* access under way, what GoOn assigns is a step of it and changes the state.
THEOREM StepPossible ==
  ASSUME DisciplinedInv, ~stray, access.op # "idle", GoOn
  PROVE  <<Step>>_vars
<1>1. AccessOK
  BY DEF DisciplinedInv, Inv
<1>2. Step
  <2>1. CASE ~Moving
    <3>1. access.done = access.size
      BY <1>1, <2>1, Standing DEF Moving, AccessOK
    <3>2. access' = [access EXCEPT !.op = "idle"]
      BY <2>1, Zenon DEF GoOn
    <3>3. UNCHANGED <<ext, core, eeprom, a15, port, ebiUpper, stray>>
      BY <2>1 DEF GoOn, Selects, Storing
    <3> QED
      BY <3>1, <3>2, <3>3 DEF Step, Complete
  <2> QED
    BY <2>1, GoOnOutside, GoOnInside DEF Step
<1>3. Left' < Left /\ Left \in 0 .. 17
  BY <1>2, StepDecreases DEF DisciplinedNext
<1>4. Left' # Left
  BY <1>3
<1>5. access' # access
  BY <1>4 DEF Left
<1> QED
  BY <1>2, <1>5 DEF vars
====
