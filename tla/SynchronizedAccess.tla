-------------------------- MODULE SynchronizedAccess --------------------------
(*****************************************************************************)
(* Synchronized and atomic accesses (src/src/Core.cc), the interagent        *)
(* messages that synmovq delivers to the processor                           *)
(* (src/src/IACHandlers.cc), and the tables whose addresses they set and the *)
(* processor reads (src/src/EBISBCore.cc).                                   *)
(*                                                                           *)
(* Addresses count words and memory holds words; accesses that start within  *)
(* a word are left to MemoryBus.  A message is four words, the first of      *)
(* which is its type.                                                        *)
(*****************************************************************************)
EXTENDS Words

CONSTANTS
  MessageType,      \* the type of a message, by its first word
  InterruptControl, \* 0xFF000004, in words
  IACAddress,       \* 0xFF000010, in words
  BuiltinRecord,    \* InternalBootProgramBase, where begin finds its boot record
  BootRecord,       \* where a boot message finds one
  Instructions,     \* records [op, addr, src, value]
  FreshMemory,
  Steps             \* bound: how many instructions a behavior has

\* Addresses count words, and each fits in one.
Address == Word
Value == Word
Types == {"boot", "checksum fail", "store system base", "reinitialize", "no effect"}
SynchronizedOps == {"synld", "synmov", "synmovl", "synmovq", "atadd", "atmod"}

ASSUME MapAssumption ==
  /\ MessageType \in [Value -> Types]
  /\ {InterruptControl, IACAddress, BuiltinRecord, BootRecord} \subseteq Address
  /\ \A a \in {IACAddress, BuiltinRecord, BootRecord} : a % 4 = 0
ASSUME InputAssumption ==
  /\ Instructions \subseteq [op : SynchronizedOps, addr : Address, src : Address, value : Value]
  /\ FreshMemory \in [Address -> Value]
  /\ Steps \in Nat

VARIABLES
  mem,
  dest,         \* the destination register
  cc,           \* the condition code
  sat, prcb,    \* systemAddressTableBase_ and prcbBase_
  ip, fp,       \* ip, and the stack that the frames start on, as a boot sets them
  instruction,  \* the one about to be executed
  steps,
  stopped,      \* checksumFail was called
  told,         \* sat and prcb as the last boot or message named them
  left          \* the address of the last atomic access and what it left there

vars == <<mem, dest, cc, sat, prcb, ip, fp, instruction, steps, stopped, told, left>>
bases == <<sat, prcb, ip, fp, stopped, told>>

-------------------------------------------------------------------------------
(* Alignment, and the tables.                                                *)

\* wordAlign clears four bits of a byte address, doubleWordAlign three, and
\* quadWordAlign two.
wordAlign(a) == a - (a % 4)
doubleWordAlign(a) == a - (a % 2)
quadWordAlign(a) == a

getInterruptStackPointer(memory, base) == memory[Wrap(base + 6)]

\* Quads are moved low half first, and read whole before they are stored.
loadQuad(a) == [k \in 0 .. 3 |-> mem[Wrap(a + k)]]

\* Memory after the words, numbered from 0 on, are stored from a on.
Stored(a, words) ==
  [x \in Address |-> IF \E k \in DOMAIN words : x = Wrap(a + k)
                     THEN words[CHOOSE k \in DOMAIN words : x = Wrap(a + k)]
                     ELSE mem[x]]

-------------------------------------------------------------------------------
(* Messages.                                                                 *)

\* Fault: the table bases are taken in the order of the PRCB and the table.
BasesSwapped(table, control, startIP) ==
  /\ sat' = control /\ prcb' = table
  /\ ip' = startIP
  /\ fp' = getInterruptStackPointer(mem, table)
  /\ told' = <<table, control>>
  /\ UNCHANGED <<mem, stopped>>

\* What boot0 does to the cached frames is in RegisterFrames.
boot0(table, control, startIP) ==
  /\ sat' = table /\ prcb' = control
  /\ ip' = startIP
  /\ fp' = getInterruptStackPointer(mem, control)
  /\ told' = <<table, control>>
  /\ UNCHANGED <<mem, stopped>>

boot(base) == boot0(mem[base], mem[base + 1], mem[base + 3])

DoubleRegister(low, high) == [k \in 0 .. 1 |-> IF k = 0 THEN low ELSE high]

storeSystemBase(field3) ==
  /\ mem' = Stored(field3, DoubleRegister(sat, prcb))
  /\ UNCHANGED bases

processIACMessage(m) ==
  \/ MessageType[m[0]] = "reinitialize" /\ boot0(m[1], m[2], m[3])
  \/ MessageType[m[0]] = "boot" /\ boot(BootRecord)
  \/ MessageType[m[0]] = "store system base" /\ storeSystemBase(m[1])
  \/ MessageType[m[0]] = "checksum fail" /\ stopped' = TRUE
       /\ UNCHANGED <<mem, sat, prcb, ip, fp, told>>
  \/ MessageType[m[0]] = "no effect" /\ UNCHANGED mem /\ UNCHANGED bases

-------------------------------------------------------------------------------
(* Instructions.                                                             *)

synld(i) ==
  /\ i.op = "synld"
  /\ dest' = mem[wordAlign(i.addr)]
  /\ cc' = 2
  /\ UNCHANGED mem /\ UNCHANGED bases

synmov(i) ==
  /\ i.op = "synmov"
  /\ mem' = IF wordAlign(i.addr) = InterruptControl
            THEN mem
            ELSE [mem EXCEPT ![wordAlign(i.addr)] = mem[i.src]]
  /\ cc' = 2
  /\ UNCHANGED dest /\ UNCHANGED bases

synmovl(i) ==
  /\ i.op = "synmovl"
  /\ mem' = Stored(doubleWordAlign(i.addr), [k \in 0 .. 1 |-> mem[Wrap(i.src + k)]])
  /\ cc' = 2
  /\ UNCHANGED dest /\ UNCHANGED bases

synmovq(i) ==
  /\ i.op = "synmovq"
  /\ \/ /\ quadWordAlign(i.addr) = IACAddress
        /\ processIACMessage(loadQuad(i.src))
     \/ /\ quadWordAlign(i.addr) # IACAddress
        /\ mem' = Stored(quadWordAlign(i.addr), loadQuad(i.src))
        /\ UNCHANGED bases
  /\ cc' = 2
  /\ UNCHANGED dest

\* Fault: the sum goes to the address as it was given.
AtaddUnaligned(i) ==
  /\ i.op = "atadd"
  /\ mem' = [mem EXCEPT ![i.addr] = Wrap(mem[wordAlign(i.addr)] + i.value)]
  /\ dest' = mem[wordAlign(i.addr)]
  /\ UNCHANGED cc /\ UNCHANGED bases

atadd(i) ==
  /\ i.op = "atadd"
  /\ mem' = [mem EXCEPT ![wordAlign(i.addr)] = Wrap(@ + i.value)]
  /\ dest' = mem[wordAlign(i.addr)]
  /\ UNCHANGED cc /\ UNCHANGED bases

\* The mask selects the bits that the destination register gives.
atmod(i) ==
  /\ i.op = "atmod"
  /\ mem' = [mem EXCEPT ![wordAlign(i.addr)] = Or(And(dest, i.value), And(@, Complement(i.value)))]
  /\ dest' = mem[wordAlign(i.addr)]
  /\ UNCHANGED cc /\ UNCHANGED bases

-------------------------------------------------------------------------------
(* Running.                                                                  *)

Execute(i) == synld(i) \/ synmov(i) \/ synmovl(i) \/ synmovq(i) \/ atadd(i) \/ atmod(i)

\* History: by the operands of an atomic access and the value it returned, the
\* address that it named holds this, until another access may change it.
NoAccess == [addr |-> -1, value |-> 0]
LeftBy(i) ==
  [addr |-> i.addr,
   value |-> IF i.op = "atadd" THEN Wrap(dest' + i.value)
             ELSE Or(And(dest, i.value), And(dest', Complement(i.value)))]
Leaves(i) ==
  left' = IF i.op = "synld" THEN left
          ELSE IF i.op \in {"atadd", "atmod"} THEN LeftBy(i)
          ELSE NoAccess

\* begin: boot from the record in the boot program.
Init ==
  /\ mem = FreshMemory
  /\ dest = 0 /\ cc = 0
  /\ sat = mem[BuiltinRecord] /\ prcb = mem[BuiltinRecord + 1] /\ ip = mem[BuiltinRecord + 3]
  /\ fp = getInterruptStackPointer(mem, prcb)
  /\ told = <<sat, prcb>>
  /\ instruction \in Instructions
  /\ steps = 0
  /\ stopped = FALSE
  /\ left = NoAccess

Next ==
  /\ ~stopped /\ steps < Steps
  /\ Execute(instruction)
  /\ Leaves(instruction)
  /\ instruction' \in Instructions
  /\ steps' = steps + 1

Spec == Init /\ [][Next]_vars

-------------------------------------------------------------------------------
(* Properties.                                                               *)

Executes(op) == instruction.op = op /\ steps' = steps + 1

IsMessage(type) ==
  Executes("synmovq") /\ instruction.addr = IACAddress /\ MessageType[mem[instruction.src]] = type

\* A store-system-base message answers with the two table addresses that the
\* last boot or reinitialize message named, in that order
\* (IACHandlers.cc:43-50), whatever was stored over the message since.
SystemBaseAnswers ==
  [][IsMessage("store system base") =>
       LET field3 == mem[Wrap(instruction.src + 1)]
       IN <<mem'[field3], mem'[Wrap(field3 + 1)]>> = told]_vars

\* An atomic access returns its word and leaves the sum, or the bits that the
\* mask gave, in it: the next atomic access or synchronized load that names the
\* same address gets that, and no update between them is lost (Core.cc:685,
\* 918-923, 933-940).
AtomicsMeet ==
  [][\A op \in {"synld", "atadd", "atmod"} :
       Executes(op) /\ instruction.addr = left.addr => dest' = left.value]_vars

\* What the comments say (Core.cc:914, 929-931): the source is added to, or put
\* under the mask into, the word at the address that the operand gives.
AtomicAtAddress ==
  [][LET i == instruction
     IN /\ Executes("atadd") => mem'[i.addr] = Wrap(mem[i.addr] + i.value)
        /\ Executes("atmod") =>
             mem'[i.addr] = Or(And(dest, i.value), And(mem[i.addr], Complement(i.value)))]_vars
====
