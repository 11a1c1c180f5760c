# A verification project for sim_ecore

sim_ecore is an emulator of the Intel i960Sx that runs on an AVR Mega2560 and
accesses memory through the AVR's external bus interface (EBI).  It is one
sequential program: `loop` (`src/src/Sim3SX_Arduino.cc`) calls `Core::cycle`,
which fetches one instruction, executes it to the end and advances the
instruction pointer.  Interrupts are not delivered (`InterruptHandling.cc` is
empty), and a fault halts the processor for good (`FaultHandling.cc` loops).
What is hard here is therefore less concurrency than long sequences of legal
instructions over caches and shared state: the cache of register frames above
all, the cached upper address of the bus window, the condition code that one
instruction leaves for the next, registers of devices that share bits.  The one
thing that goes on by itself is the hardware of the devices.

Every statement below is about the code under `src/`; file names are relative
to it (`src/Core.cc` is `src/src/Core.cc` from here).

## 1. Inventory

| component | state | operations | interacts with | modelled in |
|---|---|---|---|---|
| **local register frames** (`src/Core.cc`, `LocalRegisterPack` in `include/Core.h`, `FramePointer` and `PreviousFramePointer` in `include/Register.h`) | a ring of 4 packs (16 registers, a valid bit, the address of the frame), the current index, g15 (fp) | call, callx, calls, ret (local, supervisor, fault, interrupt, reserved), flushreg, boot0 | saves to and restores from the stack in memory; supervisor calls change pc; the return type in r0 selects the kind of return | `RegisterFrames`, `CallChain`, `CallConvention`, `ProcedureStack` |
| **memory access and EBI window** (`src/MemoryInterfaceCommands.cc`, `include/Core.h`) | the address pins and the cached bank; 2 KB of internal SRAM; EEPROM | load and store of 1, 2, 4, 8, 12, 16 bytes, setEBIUpper | used by every instruction that touches memory, and by the instruction fetch | `MemoryBus`, `FlatMemory` |
| **memory-mapped peripherals** (`src/MemoryInterfaceCommands.cc`) | SPI registers, the serial console and its clock rate; query and GPIO have none | byte reads and writes from 0xFFFF0000 on | the byte loop of the bus | `SPIInterface`, `SerialConsole`, `MappedDevices` |
| **decoding and dispatch** (`src/CoreDispatch.cc`, `include/Instruction.h`, `include/OpcodesRaw.h`) | none | opcode to handler, fields to operands | every handler | `OpcodeTables`, `Dispatch` |
| **sequencing, branches, addresses** (`src/Core.cc`) | ip, advanceIPBy, condition code | cycle, branches, compares, tests, bal, balx, computeMemoryAddress | every handler may change advanceIPBy | `InstructionFlow` |
| **arithmetic and bits** (`src/Core.cc`, `src/ExtendedInstructions.cc`, `include/Core.h`) | destination registers, arithmetic and trace controls | add, subtract, divide, shifts, fields, bits, compares, moves | the condition code | `Words`, `Arithmetic`, `Idioms` |
| **synchronized and atomic accesses**, **boot and IAC messages** (`src/Core.cc`, `src/IACHandlers.cc`, `src/EBISBCore.cc`) | system address table base, PRCB base | synld, synmov, synmovl, synmovq, atadd, atmod; begin, boot, boot0, reinitialize, store system base | a synmovq to the IAC address sends a message; a reset drops the frame cache | `SynchronizedAccess`, `RegisterFrames` |
| **process, arithmetic and trace controls** (`include/Register.h`, `src/Register.cc`) | pc, ac, tc | modpc, modac, modtc, condition codes, carry | branches, calls, ret | `RegisterFrames`, `InstructionFlow`, `Arithmetic` |
| **registers and operands** (`include/Register.h`) | 16 globals; the views of a frame as single, double, triple and quad registers | reads and writes by index | frames | `Arithmetic`, `Dispatch` (partly) |
| faults, interrupts; boot image; Arduino entry point; older cores | - | - | - | section 7 |

What makes the components correct:

* *frames*: a procedure that calls another gets its own registers back, and goes
  on where it was, no matter how often the ring has wrapped in between; no pack
  keeps a dead frame that a later return could take for a live one; after
  flushreg the stack in memory holds all callers; execution mode and trace
  enable come back with the caller; a reset forgets everything.
* *memory*: window, banks, internal regions and byte loops are one array of
  bytes; the cached bank is the one the pins select; every access ends.
* *peripherals*: settings that share a register do not disturb each other; a
  line that is begun keeps its clock rate, and one begun anew has the four bytes
  stored last (a mixture of two rates, if a program begins it between its byte
  stores: nothing in the code prevents that).
* *dispatch*: every opcode of `OpcodesRaw.h` reaches its handler, and the handler
  finds its operands in the format it is reached in.
* *sequencing*: a link holds the address of the next instruction; a decision
  follows what the last compare found.
* *arithmetic*: the instructions that are written to be used together fit
  together: a field that is inserted is extracted again, quotient and remainder
  belong to one division, conditional compares find a range.
* *atomics and messages*: no update between atomic accesses of one address is
  lost; a message answers with the tables the last boot named.

`PROJECT.json` lists the hazards, each at its line, with the properties that
cover it.

## 2. Plan

Everything that was planned in this order is done:

1. **RegisterFrames, CallChain, ProcedureStack**: the frame cache, the history of
   callers, and the abstract stack it implements; **CallConvention**, for modes and
   stacks; proofs of all of them.
2. **MemoryBus, FlatMemory**: the bus and the array of bytes it implements, with
   proofs and with liveness; **MappedDevices** over it, with **SPIInterface** and
   **SerialConsole**.
3. **InstructionFlow**, with proofs; **OpcodeTables, Dispatch**.
4. **Words**; **Arithmetic** over it, judged by the programs of **Idioms**;
   **SynchronizedAccess**; proofs of all of them.

Left: a composition of `RegisterFrames` with `MemoryBus`, in which saving a frame
is sixteen word stores.  Its interest is small, since a frame is aligned to 64
bytes and `MemoryBus` is shown to be a flat memory for accesses that stay in a
window, which those of an aligned frame do.

## 3. Modules

| module | what it is |
|---|---|
| `RegisterFrames` | the frame cache and the instructions that move it |
| `CallChain` | the same with a history variable `chain`, disciplined programs, and properties |
| `CallConvention` | programs that keep a convention of calls, and what modes, trace flags and stacks do for them |
| `ProcedureStack` | abstract specification: a stack of activations |
| `MemoryBus` | loads and stores, the EBI window, the internal space |
| `FlatMemory` | abstract specification: one array of bytes |
| `SPIInterface`, `SerialConsole` | two devices, byte by byte |
| `MappedDevices` | `MemoryBus` with the devices behind it and their hardware beside it |
| `OpcodeTables` | the tables of `CoreDispatch.cc` and the list of `OpcodesRaw.h` |
| `Dispatch` | decoding, and the operands a handler asks for |
| `InstructionFlow` | cycle, branches, compares, links, addresses |
| `Words` | words of any width, as numbers and as sets of bits |
| `Arithmetic` | the instructions that compute |
| `Idioms` | the programs `Arithmetic` runs, and what they have to leave behind |
| `SynchronizedAccess` | synchronized and atomic accesses, messages and boots |
| `MCCallChain`, `MCCallConvention`, `MCMemoryBus`, `MCMappedDevices`, `MCInstructionFlow`, `MCSynchronizedAccess` | constants for TLC |
| `CallChain_proofs`, `MemoryBus_proofs`, `MappedDevices_proofs`, `Dispatch_proofs`, `InstructionFlow_proofs`, `Words_proofs`, `Idioms_proofs`, `SynchronizedAccess_proofs` | theorems and proofs |

Definitions whose comment begins with *Fault* are not used by the specification:
they are forms a definition could have by mistake, kept to show that the
properties tell them apart (`mutants` in `PROJECT.json`).

### RegisterFrames

| variable | in the code |
|---|---|
| `frames`, `currentFrameIndex` | `frames`, `currentFrameIndex_` (`include/Core.h:767`); a pack is `[valid, fpa, regs]` |
| `regs` of a pack | r0 split into `pfp` (address, a multiple of 16) and `rt` (low three bits); r1 `sp`; r2 `rip`; `data` for r3..r15 |
| `fp` | g15 |
| `mem` | the stack in memory, as the set of exact frame images that `saveRegisterFrame` left |
| `ip`, `pc`, `ac` | the same; `pc` has execution mode and trace enable |
| `behind` | the first bytes behind the array: what a pack there would have for its valid bit and address |

A call (`EnterCall`) is `setRIP`, `takeOwnership` of the next pack, and the
writes to fp, sp and pfp that follow in all three call instructions.  A return
(`ExitCall`) is `relinquishOwnership` of the current pack, `restoreOwnership` of
the previous one, and the branch to its rip.  Each instruction is one action.
`flushreg` from the last pack goes on behind the array: if the bytes there look
like a valid pack, 64 of them are stored where they say, and in any case their
valid bit and address are cleared.  In the core, `systemAddressTableBase_` and
`prcbBase_` come next (`include/Core.h:768`), and then the internal SRAM, where
valid bit and address of such a pack lie, and which a program stores into
(`StoreBehindRing`).

A program writes r3..r15, r1 and the return type in r0 (`LocalStep`), but may also
write the rest of r0, r2 and g15 (`LinkageStep`), which hold the frames together.
`Spec` has all of these; the disciplined programs below leave out `LinkageStep`,
which takes frames apart.

Memory is kept at the granularity of frames.  A save drops the images it
overlaps, in part or in whole; a restore from an address with no exact image
yields a member of `Junk`.  The program's own stores are not modelled as such:
they would have to hit a live frame to matter here, and a program that writes
over its callers' frames gets what it wrote.

The three maskings of a frame address are kept apart, as the code has them: the
tag of a pack is the address unmasked; fp is masked with `frameAlignmentMask_`,
which is `~62`, so that bit 0 stays; the address in pfp loses four bits; a return
looks its pack up under the address with all six bits cleared.

The ring index of the previous pack is `(index - 1) % NumRegisterFrames`, where
the code computes it in 32 unsigned bits: equal to the model's for ring sizes
that divide 2^32, as 4 does.

Instructions that fault are not enabled, since the processor then halts: modpc in
user mode, calls with an index above 259.

### CallChain

`chain` records for each suspended caller the address of its frame, its pack,
its registers and its process controls at the moment of the call.  It observes
and never constrains.  `DisciplinedNext` is the discipline under which a frame
cache can work at all, and every conjunct is about the program:

* `AlignedFrame`: a new frame is on a 64-byte boundary (call and callx round up;
  a supervisor stack pointer from the table need not be);
* `OwnFrame`: it does not lie on the frame of a live procedure;
* the boot procedure, which nobody called, does not return;
* a flush beyond the ring finds nothing that looks like a pack.

### CallConvention

Execution mode and trace flag are a matter of return types, and `calls` writes
that of the frame it makes.  call and callx leave the one that is in the pack
(`src/Core.cc:367` and `:389`), which may be any: in supervisor mode a procedure
called so may return into user mode, after which a second `calls` puts its frame
on the first one's.  The code does not prevent that (finding 2).  What it takes from
a program is this convention:

* a supervisor procedure reached by call or callx clears its return type before
  it calls or returns, and `bare` is a history variable that says it has yet to;
* no other supervisor procedure writes its return type;
* none changes the process controls with modpc, and none asks for a reset in
  supervisor mode.

Nothing is assumed of the packs a call takes: any stale type may be in them, and is
in `Controls`, where frames of supervisor calls and of user procedures that wrote
their own are taken again by call.  User procedures may write what they like,
since the handlers of ret change the controls in supervisor mode only.

`ReturnTypesFollowModes` says what the return types of a chain of calls then are,
and `ReturnRestoresControls` that a return puts mode and trace flag back.

`ControlledSpec` has the discipline of `CallChain` besides.  Its `OwnFrame` speaks
of all live frames, of which a procedure knows only its own.  `TidySpec` replaces
it, and `AlignedFrame`, by what a procedure can answer for alone: its stack pointer
stays above its own register area, and in user mode does not run into the
supervisor's stack.  With a supervisor stack that is aligned and lies above the
first frame, that is enough (`TidyIsDisciplined`): calls in one mode stack up
(`StacksInOrder`), and the next supervisor frame never lies on a live one, although
`calls` puts it at the same address each time (`src/Core.cc:415`), because there is
no second entry from user mode before the first has returned.

### ProcedureStack

The program's view: `Call` pushes the caller's registers, `Return` pops them,
`Work` keeps the stack, `Reset` empties it.  `ImplementsProcedureStack` maps the
stack to the registers in `chain`, and the running registers to those in the
current pack: wherever the cache has put a frame, the program sees the stack.
The stack in the mapping is the history of what was pushed, so what the
refinement says is that a return delivers the top of it into the current pack,
and that nothing but calls, returns and resets changes links and stack.

### MemoryBus and FlatMemory

| variable | in the code |
|---|---|
| `a15`, `port`, `ebiUpper` | pin EBI_A15; PORTL and PORTK; `ebiUpper_` (`src/MemoryInterfaceCommands.cc:451`) |
| `ext` | the external memory behind the window |
| `core` | `internalSRAM_`, and the bytes of the object before it |
| `eeprom` | the configuration space |
| `access` | the load or store under way: its operation, base, size, the unit it is made of, how many bytes are done, and the data |
| `stray` | a native store went past the window: nothing is said from there on |

`BusLoad` and `BusStore` are one native access through the window, of a whole
unit (a byte, a short, a word or a long; triples and quads are several units).
`InternalLoad` and `InternalStore` are one turn of the byte loop, with one
disjunct for each place a byte may go to.  The SRAM's index is the code's, 254
bytes (`Skew`) short, and the range test is the code's.

`FlatMemory` promises that an access moves the bytes of its range in order, some
at a time, and that stores leave the boot program alone.  The mapping takes the
byte at each address from where the code keeps it.  The refinement is stated for
`DisciplinedSpec`: no device (they are not memory), none of the first 254 bytes
of the SRAM's range, and no native access over the end of a window.

### MappedDevices, SPIInterface, SerialConsole

`MappedDevices` extends the bus: where `MemoryBus` lets a device yield any byte,
it calls the `read` and `write` of the device at the same step.  `Hardware` steps
beside them: a transfer sets the flags of the SPI device, a byte arrives in the
console (one of `Incoming`).  The registers of the microcontroller and the libraries `SPI` and
`Serial` are external and modelled from their use.  `Serial` is tested as a truth
value, which depends on the board: `tracks` says whether it follows begin and
end, and both are explored.  `written` and `stored` are history variables: the
byte last stored in each setting.

### OpcodeTables and Dispatch

Each table is a sequence in the order of its initialiser; one that is mostly
illegal is given by the positions that are not.  An instruction is its
major and minor opcode and its three mode bits.  `executeInstruction` chooses the
handler, `LookAtOperand` takes one operand after the other as the handler asks
for it, which may fault, and `Retire` ends the instruction.

### InstructionFlow

`loadInstruction` fetches any of `Instructions`, `executeInstruction` runs its
handler.  The condition code and masks are sets of bits, so that their AND is an
intersection.  `last` is a history variable: the relation that the last compare
found, until an instruction that sets the code for something else.  All ten
addressing modes are there, the reserved one too, which yields the address -1.
balx computes its target before it links, also where the link register is the
base (`LinkIsNextInstruction`).

### Words, Arithmetic and Idioms

`Words` defines the words of the processor for any number of bits: their wrapping,
their signed reading, and the bitwise operations of C++, the last by the set of
bits of a word (`BitsOf`) and the word of a set of bits (`WordOf`).  The table
`bitPositions` of the code is a recursive function, so that proofs can use it.

`Arithmetic` has one operator or action per handler.  A behavior is a short
program, which a constant gives, run from every content of the registers it
reads.  `Idioms` holds such programs: instructions that the instruction set means
to be used together.  Its properties compare what they leave with each other,
and not a definition with a copy of itself.  Words have four bytes, as in the
code, each of `ByteBits` bits.  Where C++ leaves a result undefined (division by
zero, shifts by the width or more) any word may result; signed overflow of +, -
and * wraps as on the AVR.  `start` is a history variable: the registers and
controls before the program.

### SynchronizedAccess

Memory is words, and an address, which counts words, fits in one.  The three
alignments are those of the code: `wordAlign` to four words, `doubleWordAlign` to
two, `quadWordAlign` to one.  A synmovq to the IAC
address processes a message, which is read whole before anything is stored.
`told` is a history variable: the tables that the last boot or message named.
`left` is another: the address the last atomic access named, and what its operands
and its answer say that it left there.

## 4. Runs

| run | question | bounds | result |
|---|---|---|---|
| `FrameCache4` | are frames ever lost, duplicated or mixed up; is the cache a stack; does flushreg save? | ring of 4, five frame addresses, up to five suspended callers | holds |
| `Controls` | do frames of a tidy program stay apart; do registers, mode and trace flag come back? | ring of 2, user stack and supervisor stack, local and supervisor calls nested, stale return types, both trace flags at the start | holds |
| `FlatView` | is the bus an array of bytes, and does every access end? | windows of 8 bytes, regions of 16, accesses of up to four units over every border | holds |
| `Devices` | what may accesses do to devices and pins, without any discipline? | device pages of 12 registers, loads and stores that run over them, off their ends and past a window | holds |
| `OpcodeMap` | do tables, list and formats agree? | every major and minor opcode and mode bit: nothing is reduced | holds |
| `Branches` | do links, addresses and decisions fit? | 16 addresses, two registers, instructions of all kinds and modes | holds |
| `Idioms` | do the computing instructions fit together? | words of 4 bits, all contents | holds |
| `Messages` | do messages and atomic accesses meet? | 32 words, any 3 of the instructions | holds |
| `FlushComment` | does flushreg clear all but the current pack? | ring of 2 | violated |
| `StaleReturnType` | does call make a local frame? | ring of 2 | violated |
| `TracedSupervisorStack` | is a frame entered with the trace bit found again? | ring of 2 | violated |
| `AtomicComment` | do atomic accesses change the word addressed? | as `Messages` | violated |

The bounds.

* *Frames*: in a ring of two every call but the first spills and every return
  from a nested frame restores; three and four packs let valid and spilled frames
  coexist with packs given up by returns.  `FrameAddresses` includes one more
  than the ring can hold, so the ring wraps.  The instruction pointer is bounded
  by `CodeLimit`, enough for two different return addresses.  One called procedure
  suffices, since the target of a call only sets ip.  `FrameCache4` makes local
  calls only, and has stores behind the ring and a reserved return type; `Controls`
  has both kinds of calls.  Both have one datum: what tells frames apart is the
  address, the stack pointer and the continuation.  The frame addresses of
  `Controls` are two below the supervisor stack and two from there on, and its stack
  pointers end 4 bytes past a frame address, so that it matters which way they are
  rounded.  The boot procedure, a user call from it, a supervisor call
  from that and a local one in supervisor mode are four live frames, twice as many
  as the ring holds.
* *Memory*: two windows per internal region, several banks, one access that
  starts in each part and one that runs over each border, the top of the address
  space included.  `Devices` has EEPROM, existing and missing pages, and the bus
  next to each other, and counts of available bytes that a load can return.  At most
  one access is under way, as in the code.
* *InstructionFlow*: 16 addresses let displacements wrap and signed and unsigned
  comparisons differ.
* *Idioms*: `Width` is 4, a byte one bit: all pairs and triples of words are
  tried.  Four bits keep a sign, a carry and an overflow apart, and what depends
  on the width (shifts by it, fields of it) is relative to it.
* *SynchronizedAccess*: `Width` is 5, so that there are 32 words.  Three
  instructions are a store over a message, the
  message, and one that asks for its effect.

No run uses symmetry: addresses and data are numbers.  Deadlock is not checked:
the bounds stop some systems, a halted processor is a legal end, and a bus after
a stray store stops.

Fairness is assumed in one place: `DisciplinedSpec` of `MemoryBus` has
`WF_vars(Step)`, for `AccessesComplete`.  `loop` runs for ever, nothing preempts
it, and an access is code without a wait, so that a step that can be taken is
taken.  Beginning an access is not under fairness: what the program does is up to
it.  For the same reason there is no liveness of frames: that a procedure returns
would be an assumption about the emulated program.

## 5. Findings

Four runs end in a violation:

1. `FlushComment`, `src/Core.cc:306`: **flushreg from the last pack** leaves pack 0
   valid and unsaved, and treats the bytes after the array as a pack.
2. `StaleReturnType`, `src/Core.cc:367` and `:389`: **call and callx keep the
   return type** that the pack's former frame left in r0.  After a supervisor call
   and its return, a call that gets the same pack returns as a supervisor return:
   into user mode if the caller was in supervisor mode.
3. `TracedSupervisorStack`, `src/Core.cc:415`: **a supervisor stack pointer with
   its trace bit set** tags the pack with an odd address.  The frame is never
   recognised again in its pack: it is saved one byte beyond the place it is then
   read from.
4. `AtomicComment`, `src/Core.cc:685`: **wordAlign clears four bits**, so that atadd
   and atmod change the first word of four, where their comments (`src/Core.cc:914`
   and `:929`) speak of the location specified with the address.  Since all of them
   and synld align alike, no update is lost among them (`AtomicsMeet`).

Two more are part of what a passing property says, which holds for the code as
it is and names the exception:

5. `TablesFollowTheList`, `src/CoreDispatch.cc:221`: **the table 0x59 lacks an
   entry**, so that shrdi, shri, shlo, rotate and shli are one place off, and
   0x59F is a null pointer to a member function.
6. `DecisionsFollowRelation`, `include/Register.h:396`: **testno is always true**,
   because an empty mask is compared with itself.

One is seen in the model of its instruction, and has no run of its own:

7. `src/ExtendedInstructions.cc:50`: **bswap in place** does not reverse the bytes,
   as the comment at `:39-45` says it does, but copies two of them back from where it
   has just copied them to.  `FieldsMove` speaks of bswap into another register,
   where the comment is right.

Properties that describe what the code does and a reader may not expect:
`CarryIsOverflow` (addc takes its carry from the overflow bit,
`include/Register.h:352`; subc with that bit clear is one more than subtract),
`ModuloFollowsDivisor` (modi takes the sign from a product that may overflow),
`OnlyRegisterSourcesFault` (literals fault in scanbyte, bswap, modac and modtc).

Met on the way, in the models as the code has it, without a property of their
own: a native access that starts in the last bytes of the window runs past it
(`include/Core.h:743`, the reason for the discipline of the refinement); the SRAM
is indexed 254 bytes short (`src/MemoryInterfaceCommands.cc:323`); the word form
of the interrupt control register is never recognised, since its address is not
one that `wordAlign` yields; a store to the SPI data register sends the
register's offset instead of the value; the index into the SPI frequencies is past
the table for every setting (`src/MemoryInterfaceCommands.cc:90`), and what a load
of the frequency yields is left open; ldis and ldib do not extend the sign
(`src/Core.cc:1029`).

The names of the return types 2 and 3 ("trace flag set" and "clear", and the
messages at `src/Core.cc:457` and `:468`) are the wrong way round, but the
handlers invert what calls recorded, which is what `ReturnRestoresControls`
checks.

## 6. Proofs

TLAPS checks all proofs for every value of the constants that the named
assumptions allow.

**Frames** (`CallChain_proofs`): rings of at least two
packs, any values, code and frame addresses, any junk in memory, chains of any
depth.  The assumptions are those that `RegisterFrames` names: the interrupt
stack is 64-byte aligned (so that boot's previous frame pointer has the local
return type), and the types of the others.

* `TypeCorrect`, `CurrentPackAlwaysValid`: for any program (`Spec`), with forged
  links and return types and stray flushes; these two have no run.
  `CurrentPackIsValid` needs no strengthening but the type: a call makes the next
  pack valid, a return the previous one, a flush spares the current one.
* `ChainIntact`: `ChainInv` is inductive under `DisciplinedSpec`.  None of its
  parts is by itself.  That every caller is held (`EveryCallerIsHeld`) survives
  a call only because a valid pack holds the *latest* caller that ran in it
  (`PacksHoldLatestCallers`), under its own address, so that what is spilled is
  what the chain remembers; and only because frames do not overlap
  (`FramesApart`), so that the spill destroys no other image.  A return is correct
  because the top of the chain ran in the previous pack and is linked by pfp
  (`LinksFollowChain`), so that the tag matches exactly if the pack still holds
  it; and a pack that is valid without matching can be saved without harm.
* `CallersHeld`, `PacksNotStale`, `CurrentPackCorrect`, `LinksCorrect`,
  `ReturnsRestore`, `FlushSaves` and `FramesImplementStack` follow from it.
* `ReturnTypesCorrect` and `ControlsRestored` are about `ControlledSpec`, the
  programs of the convention.  They use `ChainInv` for what a return finds, and
  `ReturnTypesFollowModes` as an invariant of its own.  That one is inductive
  because it excepts the procedure that is `bare`: a call may bring any type into
  the frame it makes, and by the time that frame calls or returns its type is
  cleared.  They are not theorems of all programs, as finding 2 shows.
* `TidyDisciplined`: tidy programs are disciplined ones, so that all of the above
  holds for them, and `OwnFrame` is no longer an assumption about frames of other
  procedures.  The invariant is `ChainInv`, `ReturnTypesFollowModes` and
  `TidyInv`, and none of the three is inductive alone.  A call rounds the stack
  pointer up, so that its frame lies above the caller's stack, and by
  `StacksInOrder` above every other.  A supervisor call from user mode puts its
  frame where the supervisor stack begins: every live procedure is in user mode
  then, since by the return types only a return leads out of supervisor mode, and
  user stacks end below.  A return finds the stack pointer that `StacksInOrder`
  has recorded only because `ChainInv` gives the caller its registers back.
  `StacksOrdered` and `TidyReturnsRestore` follow.

**Bus** (`MemoryBus_proofs`): any sizes of window, regions and pages that
`LayoutAssumption` allows, any contents, any accesses.  `Inv` adds to the types
and to `PinsSelectBank` that an access counts whole units wherever it goes through
the window (`UnitsWhole`): a turn of the byte loop can leave a unit only at its
end, so that a native access starts where a unit does.  `BusTypeCorrect` and
`PinsCorrect` follow for any accesses.  `BusImplementsFlatMemory` needs besides
that the access under way is a disciplined one (`DisciplinedInv`).  Its steps: each
address has one cell, since the parts do not overlap (`CellOf`); a unit that does
not leave its window lies below the internal space as a whole
(`WindowBelowInternal`); the selected address is the one that was meant, because
pins and cached bank agree; and an address behind the base by less than the size
is met by exactly one byte of the access, also where the space wraps
(`OffsetOf`).  Division and remainder are put in by three lemmas of arithmetic at
the start.

Of `AccessesComplete` as much is proved as can be without ENABLED.  `Left`, the
bytes left and one, is at most 17 and falls with every step of an access
(`AccessesAdvance`).  A prover of propositional temporal logic knows no numbers;
it is given the bits of `Left`, of which the highest that changes falls
(`BitsFall`), and concludes that an access that goes on taking steps ends
(`AccessesEnd`).  Under the fairness of `DisciplinedSpec`, then, an access ends
if a step of it is always possible (`AccessesEndIfPossible`).

That it is, is proved as far as it can be said without ENABLED.  `GoOn` is one
equation for each variable, without a condition on the state: the next state of
an access that goes on.  `StepPossible` shows that in every state of a disciplined
program with an access under way what `GoOn` assigns is a step, and one that
changes the state.  It is about states of which `~stray` holds, which are all of
them (`StoresInWindow`).  Between these theorems and `AccessesComplete` there is
only the rule that an action is ENABLED where values for the next state are given
that make it true; the prover has no such rule, and so the property as a whole
stays with TLC, which finds no state where an access is stuck (`FlatView`).

**Devices** (`MappedDevices_proofs`): `DevicesImplementBus` shows that
`DeviceSpec` is a refinement of the bus, from which `DevicesKeepPins` follows
without another look at the devices.  `ControlsStay` (from the types of the SPI
registers) and `RateKeptByLine` (from `stored = clockRate_`) hold for any accesses
and any hardware.

**Dispatch** (`Dispatch_proofs`): no constants, any opcode and mode bits.  Lemmas
say which handlers the tables of each format hold, so that a word executed by a
handler is in that handler's format, and what its fields decode to there.  The
invariant `IInv` says of the operands still asked for that each is `Met`: the field
exists in the format, and taking it stops the handler only for the four that take
a source for a register, and only at a literal.  That holds of the requests of
every handler when it is reached (`CalledMet`), and of what is left of them after
each operand.  `OperandsFound` and `OthersRunToTheirEnd` follow.

**Flow** (`InstructionFlow_proofs`): any address space, registers and
instructions.  `IInv` is `TypeOK` and `CodeKeepsRelation`; the decisions
(`DecisionsCorrect`) need the second, the links (`LinksCorrect`) and relative
addresses (`RelativeCorrect`) that addresses wrap.

**Words** (`Words_proofs`): any width of at least two bits (`WidthAssumption`).
That `bitPositions` is what its definition says, and what holds of it for all
numbers, needs induction, for which the library's theorems cannot be used: they
take a predicate as a parameter.  Each fact is shown instead from the least
number for which it fails (`LeastNumber`, from the order of the naturals being
well-founded).  On it rest the facts about powers of two and quotients
(`PowerSum`, `QuotientOfQuotient`), and about bits: two words with the same bits
are equal (`EqualBits`), and every set of positions is the bits of a word
(`WordOfBits`), so that `BitwiseBits` gives the bits of and, or and xor and a
statement about words becomes one about sets.

**Computing instructions** (`Idioms_proofs`): any width of four whole bytes
(`WidthAssumption`, `ByteAssumption`) and any programs of instructions that the
decoder yields (`ProgramAssumption`).  `IInv` is inductive whatever the program
is: contents are words, the registers are the start's before the first
instruction, and the controls above the condition code change by modac alone.
`TypeCorrect` and `OtherControlsKept` follow, for any program.  The other
properties are about one or a few programs each.  A predicate `...State` says
what the registers hold before each of its instructions, in terms of the start,
which is what makes the property at the end inductive; a step is reduced to the
handler of the instruction at `pc` (`StepExecutes`), so that each lemma is about
one handler and one position.

* `CarryCorrect`, `ComparesCorrect`, `ControlsCorrect`, `BlocksCorrect` and
  `PairsCorrect` follow from those predicates and the arithmetic of wrapping.
* `ModuloCorrect` needs that a word is its signed number up to the modulus, so
  that wrapping product and sum gives the dividend back also for the smallest
  number by -1; `LongDivisionCorrect` that a dividend whose upper word is less
  than the divisor has a quotient of one word, and that the carry of the low
  words of product and remainder is the upper word's difference.
* `ShiftsCorrect` and `FieldsCorrect` use powers of two and bits, `BitsCorrect`
  that the highest bit of a word is worth more than all bits below, and that two
  bytes are equal where the xor of their words is zero.

A width of 32 is an instance, so that these hold for the processor's words.

**Synchronized accesses** (`SynchronizedAccess_proofs`): any memory, messages and
instructions, and any number of them.  `BasesAsTold` is inductive: memory holds
words, and the two table addresses are the ones named last (`BasesCorrect`).
`SystemBaseCorrect` needs it, and that the two words of the answer are different
ones, also where addresses wrap (`NextAddress`).  `AtomicsCorrect` rests on
`LeftInMemory`: the word that the last atomic access named holds what it left there.
It is kept because a synchronized load stores nothing, every other instruction
ends the claim, and the next atomic access finds the word in the same place
(`StepKeepsLeft`).

Model-checked only: `AccessesComplete` itself, for the step from `StepPossible` to
ENABLED that is out of the prover's reach; `TablesFollowTheList`, which compares
the tables with the list entry by entry, and whose run covers every opcode and
mode, so that a proof would be the same enumeration and say no more; and the four
violations.

## 7. Not modelled

* Loads that extend their values (ldis, ldib and the unsigned forms): values are
  abstract in `InstructionFlow`, bytes in `MemoryBus`.
* condSelect and the conditional adds and subtracts under `#if`: no table has
  them.
* `lockBus`, `unlockBus` and `synchronizeMemoryRequests` are empty, and so is the
  GPIO interface.
* `generateFault` (an endless loop) and `generateInterrupt` (empty): a fault is
  `halted`, or a state without successor.
* `src/BootProgram.cc`: bytes of an i960 program (`BootImage` in `MemoryBus`).
* Pin, LED, SPI, I2C and serial set-up in `Sim3SX_Arduino.cc`: straight-line
  output, of which the initial states of `MemoryBus` and the devices are what is
  left.
* `include/SBCore.h`, `include/SBCoreArduino.h` and `standalone/main.cc` refer to
  classes that no longer exist in this tree.
* The pre-return trace bit (bit 3 of r0), which the code never reads, and the
  priority and state fields of pc, on which nothing here depends.
* The instruction fetch as a load of the bus: `InstructionFlow` fetches any
  instruction at any address.
