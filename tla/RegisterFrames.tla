---------------------------- MODULE RegisterFrames ----------------------------
(*****************************************************************************)
(* The on-chip cache of local register frames and the instructions that      *)
(* move it: call, callx, calls, ret, flushreg, and the boot that resets it   *)
(* (src/src/Core.cc, src/src/EBISBCore.cc, src/include/Core.h).              *)
(*                                                                           *)
(* The core keeps the local registers r0..r15 of the running procedure in    *)
(* the current pack of a ring of packs.  A call takes the next pack of the   *)
(* ring, writing the frame it held to the stack in memory when there is      *)
(* one; a return gives the current pack up and goes back to the previous     *)
(* one, reading the caller's frame from memory when the pack no longer       *)
(* holds it.                                                                 *)
(*                                                                           *)
(* Of a frame's sixteen registers the model keeps r0 (pfp: the address and   *)
(* the return type in its low bits), r1 (sp), r2 (rip), and one value that   *)
(* stands for r3..r15.  Memory is known only as the set of frame images      *)
(* that saveRegisterFrame wrote and that no later save overlapped.           *)
(*****************************************************************************)
EXTENDS Integers

CONSTANTS
  NumRegisterFrames,  \* packs in the ring
  InterruptStack,     \* the word at PRCB+24: where boot puts the first frame
  SupervisorStack,    \* the word at SPT+12: supervisor stack, bit 0 the trace flag
  Procedures,         \* addresses the code calls
  BootIPs,            \* start addresses a boot record or an IAC message gives
  Values,             \* what r3..r15 may hold
  FrameSizes,         \* bytes of stack a procedure allocates above its registers
  ReturnTypes,        \* return types a program writes into r0 by itself
  SavedControls,      \* what the words at FP-16 and FP-12 may say
  Links,              \* addresses a program writes into g15, r0 and r2 by itself
  Junk,               \* what a restore may find where no frame image lies
  SRAMPacks,          \* what a program's stores make of the bytes behind the ring
  CodeLimit,          \* bound: the largest ip
  FrameAddresses      \* bound: where calls may put a frame

Slots == 0 .. NumRegisterFrames - 1

ProcessControls == [em : BOOLEAN, te : BOOLEAN]   \* executionMode, traceEnable

Locals == [pfp : Nat, rt : 0 .. 7, sp : Nat, rip : Nat, data : Values]

Pack == [valid : BOOLEAN, fpa : Nat, regs : Locals]

\* The internal SRAM lies behind the ring: were there one more pack, these would
\* be its valid bit and its address.
BytesBehind == [valid : BOOLEAN, fpa : Nat]

\* `0' is what boot clears the registers to.
ASSUME RingAssumption == NumRegisterFrames \in Nat /\ NumRegisterFrames >= 2
ASSUME StackAssumption == /\ InterruptStack \in Nat /\ InterruptStack % 64 = 0
                          /\ SupervisorStack \in Nat
ASSUME CodeAssumption == Procedures \subseteq Nat /\ BootIPs \subseteq Nat
ASSUME DataAssumption == /\ 0 \in Values
                         /\ FrameSizes \subseteq Nat
                         /\ ReturnTypes \subseteq 0 .. 7
                         /\ Junk \subseteq Locals
                         /\ Links \subseteq Nat
                         /\ SRAMPacks \subseteq BytesBehind
ASSUME ControlsAssumption == SavedControls \subseteq [pc : ProcessControls, ac : Nat]
ASSUME BoundAssumption == CodeLimit \in Nat /\ FrameAddresses \subseteq Nat

VARIABLES
  frames,             \* the ring of packs
  currentFrameIndex,  \* the running procedure's pack
  fp,                 \* g15, as getFramePointerValue reads it
  mem,                \* frame images on the stack, by address
  ip,
  pc,
  ac,
  behind              \* the bytes behind the ring

vars == <<frames, currentFrameIndex, fp, mem, ip, pc, ac, behind>>

-------------------------------------------------------------------------------
(* Addresses.  salign is 4, so c_ is 63, stackAlignMask_ is 62 and           *)
(* frameAlignmentMask_ is ~62: it clears bits 1 to 5 and keeps bit 0.        *)

\* Fault: rounded down to a frame.
RoundDown(sp) == sp - (sp % 64)

RoundToFrame(sp) == (sp + 63) - ((sp + 63) % 64)

\* Fault: a bit too many cleared.
FramePointerTooCoarse(address) == address - (address % 128)

FramePointerOf(address) == address - (address % 64) + (address % 2)

ProperFramePointer(framePointer) == framePointer - (framePointer % 64)

\* Fault: the link masked as if frames were 256 bytes apart.
PreviousFrameTooCoarse(address) == address - (address % 256)

PreviousFrameAddress(address) == address - (address % 16)

\* Two 64-byte frames share a byte.
Overlap(a, b) == a < b + 64 /\ b < a + 64

-------------------------------------------------------------------------------
(* Memory.  A save leaves one exact image and spoils those it overlaps; a    *)
(* load where no exact image lies returns something else.                    *)

Spoil(memory, address) ==
  [a \in {b \in DOMAIN memory : ~Overlap(b, address)} |-> memory[a]]

\* Fault: the loop over the registers starts one too late.
SaveAllButFirst(memory, regs, address) ==
  [a \in {b \in DOMAIN memory : ~Overlap(b, address)} \union {address} |->
     IF a = address THEN [regs EXCEPT !.pfp = 0, !.rt = 0] ELSE memory[a]]

saveRegisterFrame(memory, regs, address) ==
  [a \in {b \in DOMAIN memory : ~Overlap(b, address)} \union {address} |->
     IF a = address THEN regs ELSE memory[a]]

restoreRegisterFrame(memory, address) ==
  IF address \in DOMAIN memory THEN {memory[address]} ELSE Junk

-------------------------------------------------------------------------------
(* Packs.                                                                    *)

locals == frames[currentFrameIndex].regs

nextPack == (currentFrameIndex + 1) % NumRegisterFrames

\* The code subtracts in 32 bits, which is the same for a ring of 4.
previousPack == (currentFrameIndex - 1) % NumRegisterFrames

\* Fault: the address cleared, the valid bit left.
RelinquishAddressOnly(pack) == [pack EXCEPT !.fpa = 0]

relinquishOwnership(pack) == [pack EXCEPT !.valid = FALSE, !.fpa = 0]

\* Fault: a pack is taken over without being saved.
ForgetWriteBack(p) == mem

\* Memory once pack p has been written back, which only a valid pack is.
WriteBack(p) ==
  IF frames[p].valid
  THEN saveRegisterFrame(mem, frames[p].regs, frames[p].fpa)
  ELSE mem

\* A call: the caller's rip is set in the pack being left; the next pack is
\* written back and taken for newFP with its old registers in it, of which
\* the call sets pfp, sp and, for calls alone, the return type.
EnterCall(newFP, returnAddress, returnType) ==
  /\ newFP \in FrameAddresses
  /\ mem' = WriteBack(nextPack)
  /\ frames' = [frames EXCEPT
       ![currentFrameIndex].regs.rip = returnAddress,
       ![nextPack] = [valid |-> TRUE, fpa |-> newFP,
                      regs |-> [@.regs EXCEPT !.pfp = PreviousFrameAddress(fp),
                                              !.rt = returnType,
                                              !.sp = newFP + 64]]]
  /\ currentFrameIndex' = nextPack
  /\ fp' = FramePointerOf(newFP)
  /\ UNCHANGED behind

\* A return: the current pack is given up, and the previous one kept when it
\* holds the frame pfp names, else written back and read from memory.
ExitCall ==
  LET target == ProperFramePointer(FramePointerOf(locals.pfp))
      hit == frames[previousPack].valid /\ frames[previousPack].fpa = target
  IN /\ fp' = FramePointerOf(locals.pfp)
     /\ currentFrameIndex' = previousPack
     /\ \/ /\ hit
           /\ frames' = [frames EXCEPT ![currentFrameIndex] = relinquishOwnership(@)]
           /\ UNCHANGED mem
        \/ /\ ~hit
           /\ mem' = WriteBack(previousPack)
           /\ \E image \in restoreRegisterFrame(mem', target) :
                frames' = [frames EXCEPT
                  ![currentFrameIndex] = relinquishOwnership(@),
                  ![previousPack] = [valid |-> TRUE, fpa |-> target, regs |-> image]]
     /\ ip' = frames'[previousPack].regs.rip
     /\ UNCHANGED behind

-------------------------------------------------------------------------------
(* Instructions.                                                             *)

Advance == /\ ip + 4 <= CodeLimit
           /\ ip' = ip + 4

call(target) ==
  /\ ip + 4 <= CodeLimit
  /\ EnterCall(RoundToFrame(locals.sp), ip + 4, frames[nextPack].regs.rt)
  /\ ip' = target
  /\ UNCHANGED <<pc, ac>>

\* callx is a word long, or two with a displacement.
callx(target, length) ==
  /\ ip + length <= CodeLimit
  /\ EnterCall(RoundToFrame(locals.sp), ip + length, frames[nextPack].regs.rt)
  /\ ip' = target
  /\ UNCHANGED <<pc, ac>>

\* Fault: a local entry leaves the return type to the pack, as call does.
CallsLocalAsCall(target, type) ==
  /\ ip + 4 <= CodeLimit
  /\ type = 0 \/ pc.em
  /\ EnterCall(RoundToFrame(locals.sp), ip + 4, frames[nextPack].regs.rt)
  /\ ip' = target
  /\ UNCHANGED <<pc, ac>>

\* A procedure-table entry of type 0, or any entry in supervisor mode: a call
\* on the same stack.
CallsLocal(target, type) ==
  /\ ip + 4 <= CodeLimit
  /\ type = 0 \/ pc.em
  /\ EnterCall(RoundToFrame(locals.sp), ip + 4, 0)
  /\ ip' = target
  /\ UNCHANGED <<pc, ac>>

\* Any other entry in user mode: a call on the supervisor stack.  The return
\* type remembers the trace enable bit.
SupervisorReturnType == IF pc.te THEN 3 ELSE 2

\* Fault: supervisor procedures start over on the supervisor stack.
CallsSupervisorAgain(target, type) ==
  /\ ip + 4 <= CodeLimit
  /\ type # 0
  /\ EnterCall(SupervisorStack, ip + 4, IF pc.em THEN 0 ELSE SupervisorReturnType)
  /\ ip' = target
  /\ pc' = [em |-> TRUE, te |-> SupervisorStack % 2 = 1]
  /\ UNCHANGED ac

CallsSupervisor(target, type) ==
  /\ ip + 4 <= CodeLimit
  /\ type # 0 /\ ~pc.em
  /\ EnterCall(SupervisorStack, ip + 4, SupervisorReturnType)
  /\ ip' = target
  /\ pc' = [em |-> TRUE, te |-> SupervisorStack % 2 = 1]
  /\ UNCHANGED ac

handleLocalReturn ==
  /\ locals.rt = 0
  /\ ExitCall
  /\ UNCHANGED <<pc, ac>>

\* The handlers of a fault (1) and of an interrupt (7) return do the same.
handleFaultReturn ==
  /\ locals.rt \in {1, 7}
  /\ ExitCall
  /\ \E saved \in SavedControls :
       /\ ac' = saved.ac
       /\ pc' = IF pc.em THEN saved.pc ELSE pc

\* Fault: only the trace enable bit is put back.
SupervisorReturnKeepsMode ==
  /\ locals.rt \in {2, 3}
  /\ pc' = IF pc.em THEN [pc EXCEPT !.te = locals.rt = 3] ELSE pc
  /\ ExitCall
  /\ UNCHANGED ac

\* Return type 2 clears the trace enable bit and 3 sets it.
handleSupervisorReturn ==
  /\ locals.rt \in {2, 3}
  /\ pc' = IF pc.em THEN [em |-> FALSE, te |-> locals.rt = 3] ELSE pc
  /\ ExitCall
  /\ UNCHANGED ac

\* The reserved return types: ret does nothing.
ReservedReturn ==
  /\ locals.rt \in {4, 5, 6}
  /\ Advance
  /\ UNCHANGED <<frames, currentFrameIndex, fp, mem, pc, ac, behind>>

\* Fault: the loop starts one too late.
FlushedOneTooLate == Slots \ {currentFrameIndex, nextPack}

\* flushreg starts one past the current index, before it takes the index
\* modulo the ring: from the last pack it visits the bytes that follow the
\* ring, and never pack 0.
Flushed ==
  {p \in Slots \ {currentFrameIndex} :
     currentFrameIndex = NumRegisterFrames - 1 => p # 0}

\* The saves of one flush: of two that overlap, the later remains.
FlushedMemory(memory) ==
  LET order(p) == (p - currentFrameIndex) % NumRegisterFrames
      Saved == {p \in Flushed : frames[p].valid}
      Kept == {p \in Saved : \A q \in Saved :
                 Overlap(frames[p].fpa, frames[q].fpa) => order(q) <= order(p)}
      Old == {a \in DOMAIN memory : \A p \in Saved : ~Overlap(a, frames[p].fpa)}
  IN [a \in Old \union {frames[p].fpa : p \in Kept} |->
        IF a \in Old THEN memory[a]
        ELSE frames[CHOOSE p \in Kept : frames[p].fpa = a].regs]

PastTheRing == currentFrameIndex = NumRegisterFrames - 1

\* The bytes behind the ring come first: if they look like a valid pack, 64 of
\* them are stored where they say; and then they look like a free one.
flushreg ==
  /\ Advance
  /\ mem' = FlushedMemory(IF PastTheRing /\ behind.valid THEN Spoil(mem, behind.fpa) ELSE mem)
  /\ frames' = [p \in Slots |->
       IF p \in Flushed THEN relinquishOwnership(frames[p]) ELSE frames[p]]
  /\ behind' = IF PastTheRing THEN [valid |-> FALSE, fpa |-> 0] ELSE behind
  /\ UNCHANGED <<currentFrameIndex, fp, pc, ac>>

\* The instructions that write r3..r15.
WriteLocal(value) ==
  /\ Advance
  /\ frames' = [frames EXCEPT ![currentFrameIndex].regs.data = value]
  /\ UNCHANGED <<currentFrameIndex, fp, mem, pc, ac, behind>>

\* ... r1: a procedure reserves stack above its register area.
WriteStackPointer(size) ==
  /\ Advance
  /\ frames' = [frames EXCEPT ![currentFrameIndex].regs.sp = fp + size]
  /\ UNCHANGED <<currentFrameIndex, fp, mem, pc, ac, behind>>

\* ... and the low bits of r0, as a program that prepares its own return does.
WriteReturnType(type) ==
  /\ Advance
  /\ frames' = [frames EXCEPT ![currentFrameIndex].regs.rt = type]
  /\ UNCHANGED <<currentFrameIndex, fp, mem, pc, ac, behind>>

\* ... the rest of r0, r2, and g15, which hold the frames together.
WriteLink(address) ==
  /\ Advance
  /\ frames' = [frames EXCEPT ![currentFrameIndex].regs.pfp = PreviousFrameAddress(address)]
  /\ UNCHANGED <<currentFrameIndex, fp, mem, pc, ac, behind>>

WriteReturnAddress(address) ==
  /\ Advance
  /\ frames' = [frames EXCEPT ![currentFrameIndex].regs.rip = address]
  /\ UNCHANGED <<currentFrameIndex, fp, mem, pc, ac, behind>>

WriteFramePointer(address) ==
  /\ Advance
  /\ fp' = FramePointerOf(address)
  /\ UNCHANGED <<frames, currentFrameIndex, mem, pc, ac, behind>>

\* A store into the internal SRAM.
StoreBehindRing(bytes) ==
  /\ Advance
  /\ behind' = bytes
  /\ UNCHANGED <<frames, currentFrameIndex, fp, mem, pc, ac>>

\* modpc, which in user mode stops the processor.
modpc(controls) ==
  /\ pc.em
  /\ Advance
  /\ pc' = controls
  /\ UNCHANGED <<frames, currentFrameIndex, fp, mem, ac, behind>>

\* The core as boot0 leaves the frames.  Neither pc, but for its state and
\* priority, nor ac is reset.
BootFrame == [pfp |-> PreviousFrameAddress(InterruptStack), rt |-> 0,
              sp |-> InterruptStack + 64, rip |-> 0, data |-> 0]

ClearedPack == [valid |-> FALSE, fpa |-> 0,
                regs |-> [pfp |-> 0, rt |-> 0, sp |-> 0, rip |-> 0, data |-> 0]]

BootFrames ==
  [p \in Slots |-> IF p = 0 THEN [valid |-> TRUE, fpa |-> InterruptStack, regs |-> BootFrame]
                   ELSE ClearedPack]

\* boot0, which an IAC message can also ask for.
reinitializeProcessor(startIP) ==
  /\ frames' = BootFrames
  /\ currentFrameIndex' = 0
  /\ fp' = FramePointerOf(InterruptStack)
  /\ ip' = startIP
  /\ UNCHANGED <<mem, pc, ac, behind>>

-------------------------------------------------------------------------------

Booted ==
  /\ frames = BootFrames
  /\ currentFrameIndex = 0
  /\ fp = FramePointerOf(InterruptStack)
  /\ mem = [a \in {} |-> BootFrame]
  /\ ip \in BootIPs
  /\ ac = 0
  /\ behind = [valid |-> FALSE, fpa |-> 0]

Init == Booted /\ pc = [em |-> FALSE, te |-> FALSE]

\* The calls that leave the return type to what is in the pack, and calls.
PlainCall ==
  \E target \in Procedures : call(target) \/ \E length \in {4, 8} : callx(target, length)

SystemCall ==
  \E target \in Procedures, type \in 0 .. 3 :
    CallsLocal(target, type) \/ CallsSupervisor(target, type)

CallStep == PlainCall \/ SystemCall

\* ret, where the return type is not a reserved one.
ReturnStep == handleLocalReturn \/ handleFaultReturn \/ handleSupervisorReturn

\* The steps that leave the running procedure's frame where it is.
LocalStep ==
  \/ ReservedReturn
  \/ \E value \in Values : WriteLocal(value)
  \/ \E size \in FrameSizes : WriteStackPointer(size)
  \/ \E type \in ReturnTypes : WriteReturnType(type)
  \/ \E controls \in ProcessControls : modpc(controls)
  \/ \E bytes \in SRAMPacks : StoreBehindRing(bytes)

\* The steps that take frames apart behind the core's back.
LinkageStep ==
  \E address \in Links :
    WriteLink(address) \/ WriteReturnAddress(address) \/ WriteFramePointer(address)

BootStep == \E startIP \in BootIPs : reinitializeProcessor(startIP)

Next == CallStep \/ ReturnStep \/ LocalStep \/ LinkageStep \/ flushreg \/ BootStep

Spec == Init /\ [][Next]_vars

-------------------------------------------------------------------------------

\* The type invariant.  A valid pack other than a fresh supervisor frame has
\* an aligned address; fp always has the form frameAlignmentMask_ leaves.
TypeOK ==
  /\ frames \in [Slots -> Pack]
  /\ currentFrameIndex \in Slots
  /\ fp \in Nat /\ fp % 64 \in {0, 1}
  /\ DOMAIN mem \subseteq Nat /\ mem \in [DOMAIN mem -> Locals]
  /\ ip \in Nat
  /\ pc \in ProcessControls
  /\ ac \in Nat
  /\ behind \in BytesBehind

\* Whatever the program does, the running procedure's registers are in a pack
\* that counts as valid, so that the ring saves them before it gives the pack
\* to another frame.
CurrentPackIsValid == frames[currentFrameIndex].valid

===============================================================================
