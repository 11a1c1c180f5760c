----------------------- MODULE SynchronizedAccess_proofs ----------------------
(*****************************************************************************)
(* Proofs about SynchronizedAccess, for words of any width, any contents of  *)
(* memory, any instructions and any number of them.                          *)
(*****************************************************************************)
EXTENDS SynchronizedAccess, Words_proofs

\* Memory and the two table addresses hold words, and the addresses are the
\* ones that were named last.
BasesAsTold ==
  /\ mem \in [Address -> Value]
  /\ <<sat, prcb>> \in Value \X Value
  /\ told = <<sat, prcb>>
  /\ instruction \in Instructions
  /\ steps \in Nat

LEMMA AddressFacts ==
  /\ Address = 0 .. Modulus - 1 /\ Address \subseteq Nat
  /\ Modulus \in Nat /\ Modulus >= 4
  /\ \A n \in Int : Wrap(n) \in Address
  /\ \A a \in Address : Wrap(a) = a /\ Wrap(a + 0) = a
<1>1. \A a \in Word : a + 0 = a
  BY WordFacts
<1> QED
  BY <1>1, WordFacts, WrapIsWord, WrapOfWord DEF Address, Word, AllOnes

\* The next address is another one.
LEMMA NextAddress == ASSUME NEW a \in Address PROVE Wrap(a + 1) \in Address \ {a}
<1>1. CASE a = Modulus - 1
  <2>1. a + 1 = Modulus * 1 + 0
    BY <1>1, AddressFacts
  <2>2. Wrap(a + 1) = 0
    BY <2>1, AddressFacts, UniqueQuotient DEF Wrap
  <2> QED
    BY <1>1, <2>2, AddressFacts
<1>2. CASE a # Modulus - 1
  <2>1. a + 1 \in Address
    BY <1>2, AddressFacts
  <2> QED
    BY <2>1, AddressFacts
<1> QED
  BY <1>1, <1>2

LEMMA AlignedAddresses ==
  ASSUME NEW a \in Address
  PROVE  /\ wordAlign(a) \in Address /\ wordAlign(a) = 4 * (a \div 4)
         /\ doubleWordAlign(a) \in Address
         /\ quadWordAlign(a) = a
BY AddressFacts DEF wordAlign, doubleWordAlign, quadWordAlign

\* A boot record lies within memory, at consecutive addresses.
LEMMA RecordFits ==
  ASSUME NEW a \in Address, a % 4 = 0
  PROVE  a + 1 \in Address /\ a + 3 \in Address
<1>1. Modulus \in Nat /\ Modulus % 4 = 0 /\ a \in 0 .. Modulus - 1
  BY WordFacts, AddressFacts
<1>2. a = 4 * (a \div 4) /\ Modulus = 4 * (Modulus \div 4)
  BY <1>1
<1>3. a + 3 \in 0 .. Modulus - 1 /\ a + 1 \in 0 .. Modulus - 1
  BY <1>1, <1>2
<1> QED
  BY <1>3, AddressFacts

-------------------------------------------------------------------------------
(* The parts of a step.                                                      *)

LEMMA StoredIsMemory ==
  ASSUME mem \in [Address -> Value], NEW a, NEW words, \A k \in DOMAIN words : words[k] \in Value
  PROVE  Stored(a, words) \in [Address -> Value]
<1> SUFFICES ASSUME NEW x \in Address, NEW k \in DOMAIN words, x = Wrap(a + k)
             PROVE  words[CHOOSE j \in DOMAIN words : x = Wrap(a + j)] \in Value
  BY DEF Stored
<1>1. (CHOOSE j \in DOMAIN words : x = Wrap(a + j)) \in DOMAIN words
  OBVIOUS
<1> QED
  BY <1>1

\* Of two words that are stored, each is where it belongs.
LEMMA PairStored ==
  ASSUME NEW a \in Address, NEW after, after = Wrap(a + 1), NEW low, NEW high
  PROVE  /\ Stored(a, DoubleRegister(low, high))[a] = low
         /\ Stored(a, DoubleRegister(low, high))[after] = high
<1> DEFINE both == DoubleRegister(low, high)
<1>0. both[0] = low /\ both[1] = high /\ DOMAIN both = 0 .. 1
  BY DEF DoubleRegister
<1> HIDE DEF both
<1>1. Wrap(a + 0) = a /\ Wrap(a + 1) \in Address /\ Wrap(a + 1) # a
  BY NextAddress, AddressFacts
<1>2. ASSUME NEW x \in Address, NEW k \in 0 .. 1, \A j \in 0 .. 1 : x = Wrap(a + j) <=> j = k
      PROVE  Stored(a, both)[x] = both[k]
  <2> DEFINE c == CHOOSE j \in DOMAIN both : x = Wrap(a + j)
  <2>1. c \in DOMAIN both /\ x = Wrap(a + c)
    BY <1>0, <1>2
  <2>2. c = k
    BY <1>0, <1>2, <2>1
  <2>3. Stored(a, both)[x] = both[c]
    BY <1>0, <1>2 DEF Stored
  <2> QED
    BY <2>2, <2>3
<1>3. \A j \in 0 .. 1 : a = Wrap(a + j) <=> j = 0
  BY <1>1
<1>4. \A j \in 0 .. 1 : Wrap(a + 1) = Wrap(a + j) <=> j = 1
  BY <1>1
<1>5. Stored(a, both)[a] = both[0] /\ Stored(a, both)[Wrap(a + 1)] = both[1]
  BY <1>1, <1>2, <1>3, <1>4
<1> QED
  BY <1>0, <1>5 DEF both

LEMMA BasesStored ==
  ASSUME NEW a \in Address, mem' = Stored(a, DoubleRegister(sat, prcb))
  PROVE  mem'[a] = sat /\ mem'[Wrap(a + 1)] = prcb
BY PairStored

LEMMA QuadIsWords ==
  ASSUME mem \in [Address -> Value], NEW a \in Address
  PROVE  loadQuad(a) \in [0 .. 3 -> Value]
<1>1. \A k \in 0 .. 3 : Wrap(a + k) \in Address
  BY AddressFacts
<1> QED
  BY <1>1 DEF loadQuad

LEMMA QuadWords ==
  ASSUME NEW a \in Address
  PROVE  loadQuad(a)[0] = mem[a] /\ loadQuad(a)[1] = mem[Wrap(a + 1)]
BY AddressFacts DEF loadQuad

LEMMA MessageKeepsBases ==
  ASSUME BasesAsTold, NEW m \in [0 .. 3 -> Value], processIACMessage(m)
  PROVE  mem' \in [Address -> Value] /\ <<sat', prcb'>> \in Value \X Value /\ told' = <<sat', prcb'>>
<1>1. mem \in [Address -> Value] /\ sat \in Value /\ prcb \in Value /\ told = <<sat, prcb>>
  BY DEF BasesAsTold
<1>2. CASE boot0(m[1], m[2], m[3])
  BY <1>1, <1>2 DEF boot0
<1>3. CASE boot(BootRecord)
  <2>1. BootRecord \in Address /\ BootRecord + 1 \in Address
    BY MapAssumption, RecordFits
  <2> QED
    BY <1>1, <1>3, <2>1 DEF boot, boot0
<1>4. CASE storeSystemBase(m[1])
  <2> DEFINE both == DoubleRegister(sat, prcb)
  <2>1. \A k \in DOMAIN both : both[k] \in Value
    BY <1>1 DEF DoubleRegister
  <2>2. mem' = Stored(m[1], both) /\ UNCHANGED bases
    BY <1>4 DEF storeSystemBase
  <2> HIDE DEF both
  <2>3. mem' \in [Address -> Value]
    BY <1>1, <2>1, <2>2, StoredIsMemory
  <2> QED
    BY <1>1, <2>2, <2>3 DEF bases
<1>5. CASE UNCHANGED <<mem, sat, prcb, ip, fp, told>>
  BY <1>1, <1>5
<1>6. CASE UNCHANGED mem /\ UNCHANGED bases
  BY <1>1, <1>6 DEF bases
<1> QED
  BY <1>2, <1>3, <1>4, <1>5, <1>6 DEF processIACMessage

LEMMA StepKeepsBases == BasesAsTold /\ [Next]_vars => BasesAsTold'
<1> SUFFICES ASSUME BasesAsTold, [Next]_vars PROVE BasesAsTold'
  OBVIOUS
<1>1. mem \in [Address -> Value] /\ sat \in Value /\ prcb \in Value /\ told = <<sat, prcb>>
  BY DEF BasesAsTold
<1>2. CASE UNCHANGED vars
  BY <1>2 DEF BasesAsTold, vars
<1>3. CASE Next
  <2> DEFINE i == instruction
  <2>1. /\ i.addr \in Address /\ i.src \in Address /\ i.value \in Value
        /\ instruction' \in Instructions /\ steps' \in Nat
    BY <1>3, InputAssumption DEF BasesAsTold, Next
  <2>2. UNCHANGED bases => <<sat', prcb'>> \in Value \X Value /\ told' = <<sat', prcb'>>
    BY <1>1 DEF bases
  <2>3. CASE synld(i)
    BY <1>1, <2>1, <2>2, <2>3 DEF synld, BasesAsTold
  <2>4. CASE synmov(i)
    <3>1. mem' \in [Address -> Value]
      BY <1>1, <2>1, <2>4, AlignedAddresses DEF synmov
    <3> QED
      BY <2>1, <2>2, <2>4, <3>1 DEF synmov, BasesAsTold
  <2>5. CASE synmovl(i)
    <3> DEFINE both == [k \in 0 .. 1 |-> mem[Wrap(i.src + k)]]
    <3>1. \A k \in DOMAIN both : both[k] \in Value
      BY <1>1, <2>1, AddressFacts
    <3>2. mem' = Stored(doubleWordAlign(i.addr), both) /\ UNCHANGED bases
      BY <2>5 DEF synmovl
    <3> HIDE DEF both
    <3>3. mem' \in [Address -> Value]
      BY <1>1, <3>1, <3>2, StoredIsMemory
    <3> QED
      BY <2>1, <2>2, <3>2, <3>3 DEF BasesAsTold
  <2>6. CASE synmovq(i)
    <3>1. loadQuad(i.src) \in [0 .. 3 -> Value]
      BY <1>1, <2>1, QuadIsWords
    <3>2. CASE processIACMessage(loadQuad(i.src))
      BY <2>1, <3>1, <3>2, MessageKeepsBases DEF BasesAsTold
    <3>3. CASE mem' = Stored(quadWordAlign(i.addr), loadQuad(i.src)) /\ UNCHANGED bases
      <4>1. mem' \in [Address -> Value]
        BY <1>1, <3>1, <3>3, StoredIsMemory
      <4> QED
        BY <2>1, <2>2, <3>3, <4>1 DEF BasesAsTold
    <3> QED
      BY <2>6, <3>2, <3>3 DEF synmovq
  <2>7. CASE atadd(i)
    <3>1. mem[wordAlign(i.addr)] + i.value \in Int
      <4>1. wordAlign(i.addr) \in Address
        BY <2>1, AlignedAddresses
      <4>2. mem[wordAlign(i.addr)] \in Value /\ i.value \in Value
        BY <1>1, <2>1, <4>1
      <4> QED
        BY <4>2, WordFacts DEF Value
    <3>2. mem' \in [Address -> Value]
      BY <1>1, <2>1, <2>7, <3>1, WrapIsWord DEF atadd, Value
    <3> QED
      BY <2>1, <2>2, <2>7, <3>2 DEF atadd, BasesAsTold
  <2>8. CASE atmod(i)
    <3>1. \A a, b : Or(a, b) \in Word
      <4> TAKE a, b
      <4>1. BitsOf(a) \union BitsOf(b) \in SUBSET Positions
        BY DEF BitsOf
      <4> QED
        BY <4>1, WordOfBits DEF Or
    <3>2. mem' \in [Address -> Value]
      BY <1>1, <2>1, <2>8, <3>1 DEF atmod, Value
    <3> QED
      BY <2>1, <2>2, <2>8, <3>2 DEF atmod, BasesAsTold
  <2> QED
    BY <1>3, <2>3, <2>4, <2>5, <2>6, <2>7, <2>8 DEF Next, Execute
<1> QED
  BY <1>2, <1>3

\* The table addresses are the ones that the last boot or message named, and
\* no store, message or atomic access leaves anything but words in memory.
THEOREM BasesCorrect == Spec => []BasesAsTold
<1>1. Init => BasesAsTold
  <2> SUFFICES ASSUME Init PROVE BasesAsTold
    OBVIOUS
  <2>1. BuiltinRecord \in Address /\ BuiltinRecord + 1 \in Address
    BY MapAssumption, RecordFits
  <2> QED
    BY <2>1, InputAssumption DEF Init, BasesAsTold
<1> QED
  BY <1>1, StepKeepsBases, PTL DEF Spec

-------------------------------------------------------------------------------
(* Action properties.                                                        *)

\* Which instruction is executed.
LEMMA ExecutedBy ==
  ASSUME Next
  PROVE  /\ instruction.op = "synld" => synld(instruction)
         /\ instruction.op = "synmovq" => synmovq(instruction)
         /\ instruction.op = "atadd" => atadd(instruction)
         /\ instruction.op = "atmod" => atmod(instruction)
BY DEF Next, Execute, synld, synmov, synmovl, synmovq, atadd, atmod

\* A step that executes something is a step of the machine.
LEMMA ExecutesIsNext ==
  ASSUME BasesAsTold, [Next]_vars, NEW op, Executes(op)
  PROVE  Next /\ instruction.op = op
<1>1. steps' # steps
  BY DEF Executes, BasesAsTold
<1>2. UNCHANGED vars => steps' = steps
  BY DEF vars
<1>3. instruction.op = op
  BY DEF Executes
<1> QED
  BY <1>1, <1>2, <1>3, Zenon

\* What the last atomic access left is still in the first word of the four that
\* its address is one of.
LeftInMemory == left.addr \in Address => mem[wordAlign(left.addr)] = left.value

\* Only the accesses that the history forgets, and the next atomic one, write.
LEMMA StepKeepsLeft == BasesAsTold /\ LeftInMemory /\ [Next]_vars => LeftInMemory'
<1> SUFFICES ASSUME BasesAsTold, LeftInMemory, [Next]_vars PROVE LeftInMemory'
  OBVIOUS
<1> DEFINE i == instruction
           first == wordAlign(i.addr)
<1>1. CASE UNCHANGED vars
  BY <1>1 DEF vars, LeftInMemory
<1>2. CASE Next
  <2>1. i.addr \in Address /\ i.op \in SynchronizedOps /\ Leaves(i)
    BY <1>2, InputAssumption DEF BasesAsTold, Next
  <2>2. mem \in [Address -> Value] /\ first \in Address
    BY <2>1, AlignedAddresses DEF BasesAsTold
  <2>3. CASE i.op = "synld"
    <3>1. mem' = mem
      BY <1>2, <2>3, ExecutedBy DEF synld
    <3>2. left' = left
      BY <2>1, <2>3 DEF Leaves
    <3> QED
      BY <3>1, <3>2 DEF LeftInMemory
  <2>4. CASE i.op = "atadd"
    <3>1. mem' = [mem EXCEPT ![first] = Wrap(mem[first] + i.value)] /\ dest' = mem[first]
      BY <1>2, <2>2, <2>4, ExecutedBy DEF atadd
    <3>2. left' = LeftBy(i)
      BY <2>1, <2>4 DEF Leaves
    <3>3. left'.addr = i.addr /\ left'.value = Wrap(mem[first] + i.value)
      BY <2>4, <3>1, <3>2 DEF LeftBy
    <3> HIDE DEF first
    <3>4. mem'[first] = left'.value
      BY <2>2, <3>1, <3>3
    <3> QED
      BY <3>3, <3>4 DEF LeftInMemory, first
  <2>5. CASE i.op = "atmod"
    <3> DEFINE masked == Or(And(dest, i.value), And(mem[first], Complement(i.value)))
    <3>1. mem' = [mem EXCEPT ![first] = masked] /\ dest' = mem[first]
      BY <1>2, <2>2, <2>5, ExecutedBy DEF atmod
    <3>2. left' = LeftBy(i)
      BY <2>1, <2>5 DEF Leaves
    <3>3. left'.addr = i.addr /\ left'.value = masked
      BY <2>5, <3>1, <3>2 DEF LeftBy
    <3> HIDE DEF masked, first
    <3>4. mem'[first] = left'.value
      BY <2>2, <3>1, <3>3
    <3> QED
      BY <3>3, <3>4 DEF LeftInMemory, first
  <2>6. CASE i.op \notin {"synld", "atadd", "atmod"}
    <3>1. left'.addr = -1
      BY <2>1, <2>6 DEF Leaves, NoAccess
    <3>2. -1 \notin Address
      BY AddressFacts
    <3> QED
      BY <3>1, <3>2 DEF LeftInMemory
  <2> QED
    BY <2>3, <2>4, <2>5, <2>6
<1> QED
  BY <1>1, <1>2

\* No update between two atomic accesses of an address is lost, or between one
\* and a synchronized load: each gets what the operands and the answer of the
\* one before say that it left (Core::atadd, Core::atmod, Core::synld).
THEOREM AtomicsCorrect == Spec => AtomicsMeet
<1>1. Init => LeftInMemory
  <2>1. -1 \notin Address
    BY AddressFacts
  <2> QED
    BY <2>1 DEF Init, LeftInMemory, NoAccess
<1>2. BasesAsTold /\ LeftInMemory /\ [Next]_vars
        => [\A op \in {"synld", "atadd", "atmod"} :
              Executes(op) /\ instruction.addr = left.addr => dest' = left.value]_vars
  <2> SUFFICES ASSUME BasesAsTold, LeftInMemory, [Next]_vars,
                      NEW op \in {"synld", "atadd", "atmod"},
                      Executes(op), instruction.addr = left.addr
               PROVE  dest' = left.value
    OBVIOUS
  <2>1. dest' = mem[wordAlign(instruction.addr)]
    <3>1. Next /\ instruction.op = op
      BY ExecutesIsNext
    <3> QED
      BY <3>1, ExecutedBy DEF synld, atadd, atmod
  <2>2. instruction.addr \in Address
    BY InputAssumption DEF BasesAsTold
  <2> QED
    BY <2>1, <2>2 DEF LeftInMemory
<1> QED
  BY <1>1, <1>2, BasesCorrect, StepKeepsLeft, PTL DEF Spec, AtomicsMeet

\* A store-system-base message answers with the two table addresses that were
\* named last, in their order, whatever it is stored over.
THEOREM SystemBaseCorrect == Spec => SystemBaseAnswers
<1> DEFINE field3 == mem[Wrap(instruction.src + 1)]
<1>1. BasesAsTold /\ [Next]_vars
        => [IsMessage("store system base") => <<mem'[field3], mem'[Wrap(field3 + 1)]>> = told]_vars
  <2> SUFFICES ASSUME BasesAsTold, [Next]_vars, IsMessage("store system base")
               PROVE  <<mem'[field3], mem'[Wrap(field3 + 1)]>> = told
    OBVIOUS
  <2> DEFINE i == instruction
             m == loadQuad(i.src)
  <2>1. synmovq(i) /\ i.addr = IACAddress /\ MessageType[mem[i.src]] = "store system base"
    BY ExecutesIsNext, ExecutedBy DEF IsMessage
  <2>2. mem \in [Address -> Value] /\ i.src \in Address /\ i.addr \in Address /\ told = <<sat, prcb>>
    BY InputAssumption DEF BasesAsTold
  <2>3. m[0] = mem[i.src] /\ m[1] = field3
    BY <2>2, QuadWords
  <2>4. storeSystemBase(field3)
    <3>1. processIACMessage(m)
      BY <2>1, <2>2, AlignedAddresses DEF synmovq
    <3> HIDE DEF m
    <3> QED
      BY <2>1, <2>3, <3>1 DEF processIACMessage
  <2>5. field3 \in Address
    <3>1. Wrap(i.src + 1) \in Address
      BY <2>2, NextAddress
    <3> QED
      BY <2>2, <3>1 DEF Address, Value
  <2> HIDE DEF field3
  <2>6. mem' = Stored(field3, DoubleRegister(sat, prcb))
    BY <2>4 DEF storeSystemBase
  <2>7. mem'[field3] = sat /\ mem'[Wrap(field3 + 1)] = prcb
    BY <2>5, <2>6, BasesStored
  <2> QED
    BY <2>2, <2>7
<1> QED
  BY <1>1, BasesCorrect, PTL DEF Spec, SystemBaseAnswers
====
