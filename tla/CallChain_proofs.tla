--------------------------- MODULE CallChain_proofs ---------------------------
(*****************************************************************************)
(* Theorems about the frame cache, for every ring size.  First what holds    *)
(* for any program (RegisterFrames).  Then the chain of callers survives any *)
(* disciplined program: ChainInv is inductive, and from it a return restores *)
(* its caller and the frame cache implements ProcedureStack.                 *)
(*****************************************************************************)
EXTENDS CallConvention, SequenceTheorems, TLAPS

-------------------------------------------------------------------------------
(* Any program.                                                              *)

\* The masks of the code, as arithmetic: frame addresses are multiples of 64,
\* and a frame pointer keeps nothing below them but bit 0.
LEMMA FrameAddressing ==
  ASSUME NEW a \in Nat
  PROVE  /\ RoundToFrame(a) \in Nat /\ RoundToFrame(a) % 64 = 0
         /\ a <= RoundToFrame(a)
         /\ FramePointerOf(a) \in Nat /\ FramePointerOf(a) % 64 \in {0, 1}
         /\ ProperFramePointer(a) \in Nat /\ ProperFramePointer(a) % 64 = 0
         /\ PreviousFrameAddress(a) \in Nat
BY DEF RoundToFrame, FramePointerOf, ProperFramePointer, PreviousFrameAddress

LEMMA AlignedAddresses ==
  ASSUME NEW a \in Nat, a % 64 = 0
  PROVE  /\ FramePointerOf(a) = a
         /\ ProperFramePointer(a) = a
         /\ PreviousFrameAddress(a) = a
BY DEF FramePointerOf, ProperFramePointer, PreviousFrameAddress

\* Aligned frames share a byte only when they are the same frame.
LEMMA AlignedFramesDisjoint ==
  ASSUME NEW a \in Nat, NEW b \in Nat, a % 64 = 0, b % 64 = 0
  PROVE  Overlap(a, b) <=> a = b
BY DEF Overlap

LEMMA RingNeighbours ==
  ASSUME NEW p \in Slots
  PROVE  /\ (p + 1) % NumRegisterFrames \in Slots
         /\ (p - 1) % NumRegisterFrames \in Slots
         /\ (p + 1) % NumRegisterFrames # p
         /\ (p - 1) % NumRegisterFrames # p
         /\ (((p + 1) % NumRegisterFrames) - 1) % NumRegisterFrames = p
         /\ (((p - 1) % NumRegisterFrames) + 1) % NumRegisterFrames = p
BY RingAssumption DEF Slots

-------------------------------------------------------------------------------
(* Memory.                                                                   *)

Memory(m) == DOMAIN m \subseteq Nat /\ m \in [DOMAIN m -> Locals]

LEMMA SpoiledMemory ==
  ASSUME NEW m, Memory(m), NEW address \in Nat
  PROVE  Memory(Spoil(m, address))
BY DEF Memory, Spoil

LEMMA SavedMemory ==
  ASSUME NEW m, Memory(m), NEW regs \in Locals, NEW address \in Nat
  PROVE  Memory(saveRegisterFrame(m, regs, address))
BY DEF Memory, saveRegisterFrame

LEMMA RestoredFrame ==
  ASSUME NEW m, Memory(m), NEW address, NEW image \in restoreRegisterFrame(m, address)
  PROVE  image \in Locals
BY DataAssumption DEF Memory, restoreRegisterFrame

LEMMA WrittenBackMemory ==
  ASSUME TypeOK, NEW p \in Slots
  PROVE  Memory(WriteBack(p))
<1>1. Memory(mem)
  BY DEF TypeOK, Memory
<1>2. frames[p].regs \in Locals /\ frames[p].fpa \in Nat
  BY DEF TypeOK, Pack
<1> QED
  BY <1>1, <1>2, SavedMemory DEF WriteBack

LEMMA FlushedMemoryType ==
  ASSUME TypeOK, NEW m, Memory(m)
  PROVE  Memory(FlushedMemory(m))
<1> DEFINE order(p) == (p - currentFrameIndex) % NumRegisterFrames
           Saved == {p \in Flushed : frames[p].valid}
           Kept == {p \in Saved : \A q \in Saved :
                      Overlap(frames[p].fpa, frames[q].fpa) => order(q) <= order(p)}
           Old == {a \in DOMAIN m : \A p \in Saved : ~Overlap(a, frames[p].fpa)}
           New == {frames[p].fpa : p \in Kept}
           image(a) == IF a \in Old THEN m[a]
                       ELSE frames[CHOOSE p \in Kept : frames[p].fpa = a].regs
<1>1. FlushedMemory(m) = [a \in Old \union New |-> image(a)]
  BY DEF FlushedMemory
<1>2. \A p \in Kept : p \in Slots /\ frames[p].fpa \in Nat /\ frames[p].regs \in Locals
  BY DEF Flushed, TypeOK, Pack
<1>3. Old \subseteq Nat /\ New \subseteq Nat
  BY <1>2 DEF Memory
<1>4. ASSUME NEW a \in Old \union New
      PROVE  image(a) \in Locals
  <2>1. CASE a \in Old
    BY <2>1 DEF Memory
  <2>2. CASE a \notin Old
    <3>1. PICK p \in Kept : frames[p].fpa = a
      BY <2>2
    <3>2. (CHOOSE q \in Kept : frames[q].fpa = a) \in Kept
      BY <3>1
    <3> QED
      BY <2>2, <3>2, <1>2
  <2> QED
    BY <2>1, <2>2
<1> HIDE DEF Old, New, image
<1> QED
  BY <1>1, <1>3, <1>4 DEF Memory

-------------------------------------------------------------------------------
(* The type invariant, step by step.  With it goes CurrentPackIsValid.       *)

Inv == TypeOK /\ CurrentPackIsValid

LEMMA CurrentPack ==
  ASSUME TypeOK
  PROVE  /\ currentFrameIndex \in Slots /\ nextPack \in Slots /\ previousPack \in Slots
         /\ nextPack # currentFrameIndex /\ previousPack # currentFrameIndex
         /\ locals \in Locals
         /\ \A p \in Slots : frames[p] \in Pack /\ frames[p].regs \in Locals
BY RingNeighbours DEF TypeOK, Pack, nextPack, previousPack, locals

LEMMA BootTypes == BootFrame \in Locals /\ ClearedPack \in Pack
<1>1. InterruptStack \in Nat /\ PreviousFrameAddress(InterruptStack) \in Nat
  BY StackAssumption, FrameAddressing
<1>2. [pfp |-> 0, rt |-> 0, sp |-> 0, rip |-> 0, data |-> 0] \in Locals
  BY DataAssumption DEF Locals
<1>3. BootFrame \in Locals
  BY <1>1, DataAssumption DEF BootFrame, Locals
<1> QED
  BY <1>2, <1>3 DEF ClearedPack, Pack

LEMMA BootedInv ==
  ASSUME Booted, pc \in ProcessControls
  PROVE  Inv
<1>1. 0 \in Slots
  BY RingAssumption DEF Slots
<1>2. BootFrame \in Locals /\ ClearedPack \in Pack
  BY BootTypes
<1>3. frames \in [Slots -> Pack] /\ frames[0].valid
  BY <1>1, <1>2, StackAssumption DEF Booted, BootFrames, Pack
<1>4. fp \in Nat /\ fp % 64 \in {0, 1}
  BY StackAssumption, FrameAddressing DEF Booted
<1>5. DOMAIN mem = {} /\ mem \in [DOMAIN mem -> Locals]
  BY DEF Booted
<1>6. ip \in Nat /\ ac \in Nat
  BY CodeAssumption DEF Booted
<1>7. currentFrameIndex = 0
  BY DEF Booted
<1>8. behind \in BytesBehind
  BY DEF Booted, BytesBehind
<1> QED
  BY <1>1, <1>3, <1>4, <1>5, <1>6, <1>7, <1>8 DEF Inv, TypeOK, CurrentPackIsValid

LEMMA InitInv == Init => Inv
BY BootedInv DEF Init, ProcessControls

LEMMA EnterCallInv ==
  ASSUME Inv, NEW newFP \in Nat, NEW returnAddress \in Nat, NEW returnType \in 0 .. 7,
         EnterCall(newFP, returnAddress, returnType),
         ip' \in Nat, pc' \in ProcessControls, ac' \in Nat
  PROVE  Inv'
<1>1. /\ currentFrameIndex \in Slots /\ nextPack \in Slots
      /\ nextPack # currentFrameIndex
      /\ \A p \in Slots : frames[p] \in Pack /\ frames[p].regs \in Locals
  BY CurrentPack DEF Inv
<1>2. Memory(mem')
  BY <1>1, WrittenBackMemory DEF EnterCall, Inv
<1>3. fp' \in Nat /\ fp' % 64 \in {0, 1}
  BY FrameAddressing DEF EnterCall
<1> DEFINE caller == [frames[currentFrameIndex] EXCEPT !.regs.rip = returnAddress]
           calleeRegs == [frames[nextPack].regs EXCEPT !.pfp = PreviousFrameAddress(fp),
                                                       !.rt = returnType,
                                                       !.sp = newFP + 64]
           callee == [valid |-> TRUE, fpa |-> newFP, regs |-> calleeRegs]
<1>4. caller \in Pack
  <2>1. [frames[currentFrameIndex].regs EXCEPT !.rip = returnAddress] \in Locals
    BY <1>1 DEF Locals
  <2>2. caller = [frames[currentFrameIndex] EXCEPT !.regs =
                    [frames[currentFrameIndex].regs EXCEPT !.rip = returnAddress]]
    OBVIOUS
  <2> HIDE DEF caller
  <2> QED
    BY <1>1, <2>1, <2>2 DEF Pack
<1>5. callee \in Pack
  <2>1. PreviousFrameAddress(fp) \in Nat /\ newFP + 64 \in Nat
    BY FrameAddressing DEF Inv, TypeOK
  <2>2. calleeRegs \in Locals
    BY <1>1, <2>1 DEF Locals
  <2> HIDE DEF calleeRegs
  <2> QED
    BY <2>2 DEF Pack
<1>6. frames' = [frames EXCEPT ![currentFrameIndex] = caller, ![nextPack] = callee]
  BY <1>1 DEF EnterCall, Inv, TypeOK
<1> HIDE DEF caller, callee
<1>7. frames' \in [Slots -> Pack] /\ frames'[nextPack] = callee
  BY <1>1, <1>4, <1>5, <1>6 DEF Inv, TypeOK
<1>8. callee.valid
  BY DEF callee
<1> QED
  BY <1>1, <1>2, <1>3, <1>7, <1>8
     DEF Inv, TypeOK, CurrentPackIsValid, EnterCall, Memory

LEMMA ExitCallInv ==
  ASSUME Inv, ExitCall, pc' \in ProcessControls, ac' \in Nat
  PROVE  Inv'
<1> DEFINE target == ProperFramePointer(FramePointerOf(locals.pfp))
<1>1. /\ currentFrameIndex \in Slots /\ previousPack \in Slots
      /\ previousPack # currentFrameIndex
      /\ locals \in Locals
      /\ \A p \in Slots : frames[p] \in Pack /\ frames[p].regs \in Locals
  BY CurrentPack DEF Inv
<1>2. fp' \in Nat /\ fp' % 64 \in {0, 1} /\ target \in Nat
  BY <1>1, FrameAddressing DEF ExitCall, Locals
<1>3. relinquishOwnership(frames[currentFrameIndex]) \in Pack
  BY <1>1 DEF relinquishOwnership, Pack
<1>4. /\ Memory(mem')
      /\ frames' \in [Slots -> Pack]
      /\ frames'[previousPack].valid
  <2>1. CASE /\ frames[previousPack].valid
             /\ frames' = [frames EXCEPT
                             ![currentFrameIndex] = relinquishOwnership(@)]
             /\ UNCHANGED mem
    BY <2>1, <1>1, <1>3 DEF Inv, TypeOK, Memory
  <2>2. CASE /\ mem' = WriteBack(previousPack)
             /\ \E image \in restoreRegisterFrame(mem', target) :
                  frames' = [frames EXCEPT
                    ![currentFrameIndex] = relinquishOwnership(@),
                    ![previousPack] = [valid |-> TRUE, fpa |-> target, regs |-> image]]
    <3>1. Memory(mem')
      BY <2>2, <1>1, WrittenBackMemory DEF Inv
    <3>2. PICK image \in restoreRegisterFrame(mem', target) :
                  frames' = [frames EXCEPT
                    ![currentFrameIndex] = relinquishOwnership(@),
                    ![previousPack] = [valid |-> TRUE, fpa |-> target, regs |-> image]]
      BY <2>2
    <3>3. [valid |-> TRUE, fpa |-> target, regs |-> image] \in Pack
      BY <3>1, <1>2, RestoredFrame DEF Pack
    <3> QED
      BY <3>1, <3>2, <3>3, <1>1, <1>3 DEF Inv, TypeOK
  <2> QED
    BY <2>1, <2>2 DEF ExitCall
<1>5. ip' \in Nat
  BY <1>1, <1>4 DEF ExitCall, Pack, Locals
<1> QED
  BY <1>1, <1>2, <1>4, <1>5
     DEF Inv, TypeOK, CurrentPackIsValid, Memory, ExitCall

LEMMA CallInv == ASSUME Inv, CallStep PROVE Inv'
<1>1. /\ locals \in Locals /\ nextPack \in Slots
      /\ \A p \in Slots : frames[p].regs \in Locals
  BY CurrentPack DEF Inv
<1>2. PICK target \in Procedures :
        \/ call(target)
        \/ \E length \in {4, 8} : callx(target, length)
        \/ \E type \in 0 .. 3 : CallsLocal(target, type) \/ CallsSupervisor(target, type)
  BY DEF CallStep, PlainCall, SystemCall
<1>3. /\ target \in Nat /\ ip \in Nat /\ pc \in ProcessControls /\ ac \in Nat
      /\ RoundToFrame(locals.sp) \in Nat /\ frames[nextPack].regs.rt \in 0 .. 7
  BY <1>1, CodeAssumption, FrameAddressing DEF Inv, TypeOK, Locals
<1>4. CASE call(target)
  BY <1>3, <1>4, EnterCallInv DEF call
<1>5. CASE \E length \in {4, 8} : callx(target, length)
  BY <1>3, <1>5, EnterCallInv DEF callx
<1>6. CASE \E type \in 0 .. 3 : CallsLocal(target, type)
  BY <1>3, <1>6, EnterCallInv DEF CallsLocal
<1>7. CASE \E type \in 0 .. 3 : CallsSupervisor(target, type)
  <2>1. pc' \in ProcessControls
    BY <1>7 DEF CallsSupervisor, ProcessControls
  <2>2. EnterCall(SupervisorStack, ip + 4, SupervisorReturnType)
    BY <1>7 DEF CallsSupervisor
  <2>3. SupervisorReturnType \in 0 .. 7 /\ ip + 4 \in Nat
    BY <1>3 DEF SupervisorReturnType
  <2>4. ip' \in Nat /\ ac' \in Nat
    BY <1>3, <1>7 DEF CallsSupervisor
  <2> QED
    BY <2>1, <2>2, <2>3, <2>4, StackAssumption, EnterCallInv
<1> QED
  BY <1>2, <1>4, <1>5, <1>6, <1>7

LEMMA ReturnInv == ASSUME Inv, ReturnStep PROVE Inv'
<1>1. pc \in ProcessControls /\ ac \in Nat
  BY DEF Inv, TypeOK
<1>2. ExitCall /\ pc' \in ProcessControls /\ ac' \in Nat
  <2>1. CASE handleLocalReturn
    BY <1>1, <2>1 DEF handleLocalReturn
  <2>2. CASE handleFaultReturn
    <3>1. PICK saved \in SavedControls :
            /\ ac' = saved.ac
            /\ pc' = IF pc.em THEN saved.pc ELSE pc
      BY <2>2 DEF handleFaultReturn
    <3>2. saved.ac \in Nat /\ saved.pc \in ProcessControls
      BY ControlsAssumption
    <3> QED
      BY <1>1, <2>2, <3>1, <3>2 DEF handleFaultReturn
  <2>3. CASE handleSupervisorReturn
    BY <1>1, <2>3 DEF handleSupervisorReturn, ProcessControls
  <2> QED
    BY <2>1, <2>2, <2>3 DEF ReturnStep
<1> QED
  BY <1>2, ExitCallInv

LEMMA WriteLocalInv ==
  ASSUME Inv, NEW regs \in Locals, Advance,
         frames' = [frames EXCEPT ![currentFrameIndex].regs = regs],
         UNCHANGED <<currentFrameIndex, fp, mem, pc, ac, behind>>
  PROVE  Inv'
<1>1. currentFrameIndex \in Slots /\ frames[currentFrameIndex] \in Pack
  BY CurrentPack DEF Inv
<1>2. [frames[currentFrameIndex] EXCEPT !.regs = regs] \in Pack
  BY <1>1 DEF Pack
<1>3. frames' \in [Slots -> Pack]
  BY <1>1, <1>2 DEF Inv, TypeOK
<1>4. frames'[currentFrameIndex].valid
  BY <1>1 DEF Inv, TypeOK, CurrentPackIsValid, Pack
<1> QED
  BY <1>3, <1>4 DEF Inv, TypeOK, CurrentPackIsValid, Advance

LEMMA LocalInv == ASSUME Inv, LocalStep PROVE Inv'
<1>1. currentFrameIndex \in Slots /\ locals \in Locals
  BY CurrentPack DEF Inv
<1>2. CASE ReservedReturn
  BY <1>2 DEF ReservedReturn, Inv, TypeOK, CurrentPackIsValid, Advance
<1>3. CASE \E value \in Values : WriteLocal(value)
  <2>1. PICK value \in Values : WriteLocal(value)
    BY <1>3
  <2>2. [locals EXCEPT !.data = value] \in Locals
    BY <1>1 DEF Locals
  <2> QED
    BY <2>1, <2>2, WriteLocalInv DEF WriteLocal, locals
<1>4. CASE \E size \in FrameSizes : WriteStackPointer(size)
  <2>1. PICK size \in FrameSizes : WriteStackPointer(size)
    BY <1>4
  <2>2. [locals EXCEPT !.sp = fp + size] \in Locals
    BY <1>1, DataAssumption DEF Locals, Inv, TypeOK
  <2> QED
    BY <2>1, <2>2, WriteLocalInv DEF WriteStackPointer, locals
<1>5. CASE \E type \in ReturnTypes : WriteReturnType(type)
  <2>1. PICK type \in ReturnTypes : WriteReturnType(type)
    BY <1>5
  <2>2. [locals EXCEPT !.rt = type] \in Locals
    BY <1>1, DataAssumption DEF Locals
  <2> QED
    BY <2>1, <2>2, WriteLocalInv DEF WriteReturnType, locals
<1>6. CASE \E controls \in ProcessControls : modpc(controls)
  BY <1>6 DEF modpc, Inv, TypeOK, CurrentPackIsValid, Advance
<1>7. CASE \E bytes \in SRAMPacks : StoreBehindRing(bytes)
  BY <1>7, DataAssumption DEF StoreBehindRing, Inv, TypeOK, CurrentPackIsValid, Advance
<1> QED
  BY <1>2, <1>3, <1>4, <1>5, <1>6, <1>7 DEF LocalStep

LEMMA LinkageInv == ASSUME Inv, LinkageStep PROVE Inv'
<1>1. locals \in Locals
  BY CurrentPack DEF Inv
<1>2. PICK address \in Links :
        WriteLink(address) \/ WriteReturnAddress(address) \/ WriteFramePointer(address)
  BY DEF LinkageStep
<1>3. /\ address \in Nat /\ PreviousFrameAddress(address) \in Nat
      /\ FramePointerOf(address) \in Nat /\ FramePointerOf(address) % 64 \in {0, 1}
  BY DataAssumption, FrameAddressing
<1>4. CASE WriteLink(address)
  <2>1. [locals EXCEPT !.pfp = PreviousFrameAddress(address)] \in Locals
    BY <1>1, <1>3 DEF Locals
  <2> QED
    BY <1>4, <2>1, WriteLocalInv DEF WriteLink, locals
<1>5. CASE WriteReturnAddress(address)
  <2>1. [locals EXCEPT !.rip = address] \in Locals
    BY <1>1, <1>3 DEF Locals
  <2> QED
    BY <1>5, <2>1, WriteLocalInv DEF WriteReturnAddress, locals
<1>6. CASE WriteFramePointer(address)
  BY <1>3, <1>6 DEF WriteFramePointer, Inv, TypeOK, CurrentPackIsValid, Advance
<1> QED
  BY <1>2, <1>4, <1>5, <1>6

LEMMA FlushInv == ASSUME Inv, flushreg PROVE Inv'
<1> DEFINE m == IF PastTheRing /\ behind.valid THEN Spoil(mem, behind.fpa) ELSE mem
<1>1. Memory(m)
  BY SpoiledMemory DEF Memory, Inv, TypeOK, BytesBehind
<1>2. Memory(mem')
  <2>1. mem' = FlushedMemory(m)
    BY DEF flushreg
  <2> HIDE DEF m
  <2> QED
    BY <1>1, <2>1, FlushedMemoryType DEF Inv
<1>3. \A p \in Slots : relinquishOwnership(frames[p]) \in Pack
  BY DEF relinquishOwnership, Pack, Inv, TypeOK
<1>4. frames' \in [Slots -> Pack] /\ frames'[currentFrameIndex] = frames[currentFrameIndex]
  BY <1>3 DEF flushreg, Flushed, Inv, TypeOK
<1>5. behind' \in BytesBehind
  BY DEF flushreg, Inv, TypeOK, BytesBehind
<1> QED
  BY <1>2, <1>4, <1>5 DEF flushreg, Advance, Inv, TypeOK, CurrentPackIsValid, Memory

LEMMA BootInv == ASSUME Inv, BootStep PROVE Inv'
<1>1. PICK startIP \in BootIPs : reinitializeProcessor(startIP)
  BY DEF BootStep
<1>2. 0 \in Slots
  BY RingAssumption DEF Slots
<1>3. BootFrame \in Locals /\ ClearedPack \in Pack
  BY BootTypes
<1>4. BootFrames \in [Slots -> Pack] /\ BootFrames[0].valid
  BY <1>2, <1>3, StackAssumption DEF BootFrames, Pack
<1>5. fp' \in Nat /\ fp' % 64 \in {0, 1}
  BY <1>1, StackAssumption, FrameAddressing DEF reinitializeProcessor
<1>6. startIP \in Nat
  BY CodeAssumption
<1> QED
  BY <1>1, <1>2, <1>4, <1>5, <1>6
     DEF reinitializeProcessor, Inv, TypeOK, CurrentPackIsValid

LEMMA NextInv == Inv /\ [Next]_vars => Inv'
<1> SUFFICES ASSUME Inv, [Next]_vars PROVE Inv'
  OBVIOUS
<1>1. CASE UNCHANGED vars
  BY <1>1 DEF vars, Inv, TypeOK, CurrentPackIsValid
<1> QED
  BY <1>1, CallInv, ReturnInv, LocalInv, LinkageInv, FlushInv, BootInv DEF Next

\* Whatever the program does, the state keeps its types: frame pointers keep
\* the form the alignment mask gives them and memory holds whole frames only.
THEOREM TypeCorrect == Spec => []TypeOK
<1>1. Inv => TypeOK
  BY DEF Inv
<1> QED
  BY <1>1, InitInv, NextInv, PTL DEF Spec

\* And the pack the program runs in is always a valid one, so that the next
\* frame to take it saves it first.
THEOREM CurrentPackAlwaysValid == Spec => []CurrentPackIsValid
<1>1. Inv => CurrentPackIsValid
  BY DEF Inv
<1> QED
  BY <1>1, InitInv, NextInv, PTL DEF Spec

-------------------------------------------------------------------------------
(* The chain of callers.                                                     *)

LEMMA InvOfChainInv == ASSUME ChainInv PROVE Inv
BY DEF ChainInv, ChainTypeOK, CurrentPackIsCurrent, Inv, CurrentPackIsValid

LEMMA BootedChain ==
  ASSUME Booted, pc \in ProcessControls, chain = <<>>
  PROVE  ChainInv
<1>1. Inv
  BY BootedInv
<1>2. fp = InterruptStack /\ fp % 64 = 0
  BY StackAssumption, AlignedAddresses DEF Booted
<1>3. /\ currentFrameIndex = 0 /\ 0 \in Slots
      /\ frames[0].valid /\ frames[0].fpa = InterruptStack
      /\ \A p \in Slots \ {0} : ~frames[p].valid
  BY RingAssumption DEF Booted, BootFrames, ClearedPack, Slots
<1> QED
  BY <1>1, <1>2, <1>3
     DEF ChainInv, ChainTypeOK, CurrentPackIsCurrent, FramesApart, LinksFollowChain,
         PacksHoldLatestCallers, EveryCallerIsHeld, Inv

LEMMA ChainInit == HInit => ChainInv
BY BootedChain DEF HInit, Init, ProcessControls

\* A level's facts, by its index.
LEMMA Levels ==
  ASSUME ChainInv, NEW i \in DOMAIN chain
  PROVE  /\ i \in 1 .. Depth /\ Depth \in Nat
         /\ chain[i] \in Level /\ chain[i].fp \in Nat
         /\ chain[i].slot \in Slots /\ chain[i].regs \in Locals
<1>1. chain \in Seq(Level)
  BY DEF ChainInv, ChainTypeOK
<1>2. i \in 1 .. Depth /\ Depth \in Nat /\ chain[i] \in Level
  BY <1>1 DEF Depth
<1> QED
  BY <1>2 DEF Level

\* Who called whom, for the latest caller and for the others.
LEMMA CallerLinks ==
  ASSUME ChainInv, NEW i \in DOMAIN chain
  PROVE  /\ i = Depth => /\ locals.pfp = chain[i].fp
                         /\ currentFrameIndex = (chain[i].slot + 1) % NumRegisterFrames
         /\ i # Depth => /\ chain[i + 1].regs.pfp = chain[i].fp
                         /\ chain[i + 1].slot = (chain[i].slot + 1) % NumRegisterFrames
<1> DEFINE callee == IF i = Depth
                     THEN [slot |-> currentFrameIndex, pfp |-> locals.pfp]
                     ELSE [slot |-> chain[i + 1].slot, pfp |-> chain[i + 1].regs.pfp]
<1>1. /\ callee.pfp = chain[i].fp
      /\ callee.slot = (chain[i].slot + 1) % NumRegisterFrames
  BY DEF ChainInv, LinksFollowChain
<1>2. CASE i = Depth
  BY <1>1, <1>2
<1>3. CASE i # Depth
  BY <1>1, <1>3
<1> QED
  BY <1>2, <1>3

\* A valid pack beside the current one is the pack of one level, the last that
\* ran in it.
LEMMA HeldLevel ==
  ASSUME ChainInv, NEW p \in Slots \ {currentFrameIndex}, frames[p].valid
  PROVE  \E i \in DOMAIN chain :
           /\ chain[i].slot = p /\ frames[p].fpa = chain[i].fp
           /\ frames[p].regs = chain[i].regs
           /\ \A j \in DOMAIN chain : chain[j].slot = p => j <= i
BY DEF ChainInv, PacksHoldLatestCallers, HeldIn

\* So writing a pack back loses no image another level has in memory.
LEMMA WriteBackKeeps ==
  ASSUME ChainInv, NEW p \in Slots \ {currentFrameIndex}, NEW i \in DOMAIN chain,
         SavedInMemory(i) \/ HeldIn(p, i)
  PROVE  /\ chain[i].fp \in DOMAIN WriteBack(p)
         /\ WriteBack(p)[chain[i].fp] = chain[i].regs
<1>1. CASE ~frames[p].valid
  BY <1>1 DEF WriteBack, SavedInMemory, HeldIn
<1>2. CASE frames[p].valid
  <2>1. PICK k \in DOMAIN chain : /\ frames[p].fpa = chain[k].fp
                                  /\ frames[p].regs = chain[k].regs
    BY <1>2, HeldLevel
  <2>2. WriteBack(p) = saveRegisterFrame(mem, chain[k].regs, chain[k].fp)
    BY <1>2, <2>1 DEF WriteBack
  <2>3. CASE chain[k].fp = chain[i].fp
    <3>1. k = i
      BY <2>3 DEF ChainInv, FramesApart
    <3> QED
      BY <2>2, <3>1 DEF saveRegisterFrame
  <2>4. CASE chain[k].fp # chain[i].fp
    <3>1. ~Overlap(chain[i].fp, chain[k].fp)
      BY <2>4, Levels, AlignedFramesDisjoint DEF ChainInv, FramesApart
    <3>2. SavedInMemory(i)
      BY <2>1, <2>4 DEF HeldIn
    <3> QED
      BY <2>2, <2>4, <3>1, <3>2 DEF saveRegisterFrame, SavedInMemory
  <2> QED
    BY <2>3, <2>4
<1> QED
  BY <1>1, <1>2

-------------------------------------------------------------------------------
(* A call.                                                                   *)

LEMMA ChainGrows ==
  ASSUME ChainInv, Grow, frames'[currentFrameIndex].regs \in Locals
  PROVE  /\ chain' \in Seq(Level)
         /\ DOMAIN chain' = 1 .. Depth + 1 /\ DOMAIN chain = 1 .. Depth
         /\ Depth \in Nat /\ Len(chain') = Depth + 1
         /\ \A i \in 1 .. Depth : chain'[i] = chain[i]
         /\ chain'[Depth + 1] = [fp |-> fp, slot |-> currentFrameIndex,
                                 regs |-> frames'[currentFrameIndex].regs, pc |-> pc]
<1>1. /\ chain \in Seq(Level) /\ fp \in Nat /\ fp % 64 = 0
      /\ currentFrameIndex \in Slots /\ pc \in ProcessControls
  BY DEF ChainInv, ChainTypeOK, TypeOK, FramesApart
<1>2. ProperFramePointer(fp) = fp
  BY <1>1, AlignedAddresses
<1> DEFINE level == [fp |-> fp, slot |-> currentFrameIndex,
                     regs |-> frames'[currentFrameIndex].regs, pc |-> pc]
<1>3. level \in Level
  BY <1>1 DEF Level
<1>4. chain' = Append(chain, level)
  BY <1>2 DEF Grow
<1> HIDE DEF level
<1>5. /\ chain' \in Seq(Level)
      /\ DOMAIN chain' = 1 .. Depth + 1 /\ DOMAIN chain = 1 .. Depth
      /\ Depth \in Nat /\ Len(chain') = Depth + 1
      /\ \A i \in 1 .. Depth : chain'[i] = chain[i]
      /\ chain'[Depth + 1] = level
  BY <1>1, <1>3, <1>4 DEF Depth
<1> QED
  BY <1>5 DEF level

\* What EnterCall does to the packs, one by one.
LEMMA EnteredPacks ==
  ASSUME ChainInv, NEW newFP \in Nat, newFP % 64 = 0,
         NEW returnAddress \in Nat, NEW returnType \in 0 .. 7,
         EnterCall(newFP, returnAddress, returnType)
  PROVE  /\ currentFrameIndex' = nextPack /\ fp' = newFP /\ mem' = WriteBack(nextPack)
         /\ \A p \in Slots \ {currentFrameIndex, nextPack} : frames'[p] = frames[p]
         /\ frames'[currentFrameIndex].valid
         /\ frames'[currentFrameIndex].fpa = fp
         /\ frames'[currentFrameIndex].regs.pfp = locals.pfp
         /\ frames'[currentFrameIndex].regs \in Locals
         /\ frames'[currentFrameIndex].regs = [locals EXCEPT !.rip = returnAddress]
         /\ frames'[nextPack].valid
         /\ frames'[nextPack].fpa = newFP
         /\ frames'[nextPack].regs.pfp = fp
         /\ frames'[nextPack].regs.rt = returnType
         /\ frames'[nextPack].regs.sp = newFP + 64
<1>1. /\ currentFrameIndex \in Slots /\ nextPack \in Slots
      /\ nextPack # currentFrameIndex /\ locals \in Locals
      /\ \A p \in Slots : frames[p] \in Pack /\ frames[p].regs \in Locals
      /\ frames \in [Slots -> Pack]
  BY InvOfChainInv, CurrentPack DEF Inv, TypeOK
<1>2. fp \in Nat /\ PreviousFrameAddress(fp) = fp /\ FramePointerOf(newFP) = newFP
  BY AlignedAddresses DEF ChainInv, FramesApart, ChainTypeOK, TypeOK
<1> DEFINE calleeRegs == [frames[nextPack].regs EXCEPT !.pfp = PreviousFrameAddress(fp),
                                                       !.rt = returnType,
                                                       !.sp = newFP + 64]
           suspended == [locals EXCEPT !.rip = returnAddress]
<1>3. frames' = [frames EXCEPT
        ![currentFrameIndex] = [frames[currentFrameIndex] EXCEPT !.regs = suspended],
        ![nextPack] = [valid |-> TRUE, fpa |-> newFP, regs |-> calleeRegs]]
  BY <1>1 DEF EnterCall, locals
<1>4. suspended \in Locals /\ suspended.pfp = locals.pfp
  BY <1>1 DEF Locals
<1>5. calleeRegs.pfp = fp /\ calleeRegs.rt = returnType /\ calleeRegs.sp = newFP + 64
  BY <1>1, <1>2 DEF Locals
<1> HIDE DEF calleeRegs, suspended
<1>6. /\ frames'[currentFrameIndex] = [frames[currentFrameIndex] EXCEPT !.regs = suspended]
      /\ frames'[nextPack] = [valid |-> TRUE, fpa |-> newFP, regs |-> calleeRegs]
      /\ \A p \in Slots \ {currentFrameIndex, nextPack} : frames'[p] = frames[p]
  BY <1>1, <1>3
<1>7. frames[currentFrameIndex].valid /\ frames[currentFrameIndex].fpa = fp
  BY DEF ChainInv, CurrentPackIsCurrent
<1>8. /\ frames'[currentFrameIndex].valid
      /\ frames'[currentFrameIndex].fpa = fp
      /\ frames'[currentFrameIndex].regs = suspended
  BY <1>1, <1>6, <1>7 DEF Pack
<1>9. /\ frames'[currentFrameIndex].regs.pfp = locals.pfp
      /\ frames'[currentFrameIndex].regs \in Locals
  BY <1>4, <1>8
<1>10. frames'[currentFrameIndex].regs = [locals EXCEPT !.rip = returnAddress]
  BY <1>8 DEF suspended
<1>11. /\ frames'[nextPack].valid
       /\ frames'[nextPack].fpa = newFP
       /\ frames'[nextPack].regs.pfp = fp
       /\ frames'[nextPack].regs.rt = returnType
       /\ frames'[nextPack].regs.sp = newFP + 64
  BY <1>5, <1>6
<1>12. currentFrameIndex' = nextPack /\ fp' = newFP /\ mem' = WriteBack(nextPack)
  BY <1>2 DEF EnterCall
<1> QED
  BY <1>6, <1>8, <1>9, <1>10, <1>11, <1>12, Zenon

LEMMA EnterCallChain ==
  ASSUME ChainInv, NEW newFP \in Nat, newFP % 64 = 0,
         \A a \in LiveFrames : ~Overlap(a, newFP),
         NEW returnAddress \in Nat, NEW returnType \in 0 .. 7,
         EnterCall(newFP, returnAddress, returnType), Grow, Inv'
  PROVE  ChainInv'
<1> DEFINE c == currentFrameIndex
           q == nextPack
           n == Depth
<1>1. c \in Slots /\ q \in Slots /\ q # c /\ q = (c + 1) % NumRegisterFrames
  BY InvOfChainInv, CurrentPack DEF Inv, nextPack
<1>2. /\ c' = q /\ fp' = newFP /\ mem' = WriteBack(q)
      /\ \A p \in Slots \ {c, q} : frames'[p] = frames[p]
      /\ frames'[c].valid /\ frames'[c].fpa = fp
      /\ frames'[c].regs.pfp = locals.pfp /\ frames'[c].regs \in Locals
      /\ frames'[q].valid /\ frames'[q].fpa = newFP /\ frames'[q].regs.pfp = fp
  BY EnteredPacks
<1>3. /\ chain' \in Seq(Level)
      /\ DOMAIN chain' = 1 .. n + 1 /\ DOMAIN chain = 1 .. n
      /\ n \in Nat /\ Depth' = n + 1
      /\ \A i \in 1 .. n : chain'[i] = chain[i]
      /\ chain'[n + 1].fp = fp /\ chain'[n + 1].slot = c
      /\ chain'[n + 1].regs = frames'[c].regs
  BY <1>2, ChainGrows DEF Depth
<1>4. newFP # fp /\ \A i \in DOMAIN chain : newFP # chain[i].fp
  <2>1. fp \in Nat /\ fp % 64 = 0 /\ ProperFramePointer(fp) = fp
    BY AlignedAddresses DEF ChainInv, FramesApart, ChainTypeOK, TypeOK
  <2>2. \A a \in LiveFrames : a \in Nat /\ a # newFP
    BY <2>1, Levels DEF LiveFrames, Overlap
  <2> QED
    BY <2>1, <2>2 DEF LiveFrames
<1> HIDE DEF n
<1>5. CurrentPackIsCurrent'
  BY <1>2 DEF CurrentPackIsCurrent
<1>6. FramesApart'
  BY <1>2, <1>3, <1>4 DEF FramesApart, ChainInv
<1>7. LinksFollowChain'
  <2> SUFFICES ASSUME NEW i \in 1 .. n + 1
               PROVE  LET callee == IF i = n + 1
                            THEN [slot |-> q, pfp |-> frames'[q].regs.pfp]
                            ELSE [slot |-> chain'[i + 1].slot,
                                  pfp |-> chain'[i + 1].regs.pfp]
                      IN /\ callee.pfp = chain'[i].fp
                         /\ callee.slot = (chain'[i].slot + 1) % NumRegisterFrames
    BY <1>2, <1>3 DEF LinksFollowChain, locals
  <2>1. CASE i = n + 1
    BY <2>1, <1>1, <1>2, <1>3
  <2>2. CASE i = n
    BY <2>2, <1>1, <1>2, <1>3, CallerLinks DEF n
  <2>3. CASE i < n
    <3>1. i \in 1 .. n /\ i + 1 \in 1 .. n /\ i # n + 1
      BY <2>3, <1>3
    <3>2. /\ chain[i + 1].regs.pfp = chain[i].fp
          /\ chain[i + 1].slot = (chain[i].slot + 1) % NumRegisterFrames
      <4>1. i \in DOMAIN chain /\ i # Depth
        BY <2>3, <3>1, <1>3 DEF n
      <4> QED
        BY <4>1, CallerLinks
    <3>3. chain'[i] = chain[i] /\ chain'[i + 1] = chain[i + 1]
      BY <3>1, <1>3
    <3> QED
      BY <3>1, <3>2, <3>3
  <2> QED
    BY <2>1, <2>2, <2>3, <1>3
<1>8. PacksHoldLatestCallers'
  <2> SUFFICES ASSUME NEW p \in Slots \ {q}, frames'[p].valid
               PROVE  \E i \in 1 .. n + 1 :
                        /\ chain'[i].slot = p
                        /\ frames'[p].fpa = chain'[i].fp
                        /\ frames'[p].regs = chain'[i].regs
                        /\ \A j \in 1 .. n + 1 : chain'[j].slot = p => j <= i
    BY <1>2, <1>3 DEF PacksHoldLatestCallers, HeldIn
  <2>1. CASE p = c
    <3>1. n + 1 \in 1 .. n + 1
      BY <1>3
    <3> WITNESS n + 1 \in 1 .. n + 1
    <3> QED
      BY <2>1, <1>2, <1>3
  <2>2. CASE p # c
    <3>1. PICK i \in 1 .. n :
            /\ chain[i].slot = p /\ frames[p].fpa = chain[i].fp
            /\ frames[p].regs = chain[i].regs
            /\ \A j \in 1 .. n : chain[j].slot = p => j <= i
      BY <2>2, <1>2, <1>3, HeldLevel
    <3>2. i \in 1 .. n + 1
      BY <1>3
    <3> WITNESS i \in 1 .. n + 1
    <3> QED
      BY <2>2, <3>1, <1>2, <1>3
  <2> QED
    BY <2>1, <2>2
<1>9. EveryCallerIsHeld'
  <2> SUFFICES ASSUME NEW i \in 1 .. n + 1
               PROVE  (HeldIn(chain[i].slot, i) \/ SavedInMemory(i))'
    BY <1>3 DEF EveryCallerIsHeld
  <2>1. CASE i = n + 1
    BY <2>1, <1>1, <1>2, <1>3 DEF HeldIn
  <2>2. CASE i \in 1 .. n
    <3>1. HeldIn(chain[i].slot, i) \/ SavedInMemory(i)
      BY <2>2, <1>3 DEF ChainInv, EveryCallerIsHeld
    <3>2. CASE HeldIn(chain[i].slot, i) /\ chain[i].slot # q
      BY <2>2, <3>2, <1>2, <1>3, Levels DEF HeldIn
    <3>3. CASE HeldIn(q, i) \/ SavedInMemory(i)
      BY <2>2, <3>3, <1>1, <1>2, <1>3, WriteBackKeeps DEF SavedInMemory
    <3> QED
      BY <3>1, <3>2, <3>3
  <2> QED
    BY <2>1, <2>2, <1>3
<1> QED
  BY <1>3, <1>5, <1>6, <1>7, <1>8, <1>9 DEF ChainInv, ChainTypeOK, Inv

-------------------------------------------------------------------------------
(* A return.                                                                 *)

LEMMA ChainShrinks ==
  ASSUME ChainInv, chain # <<>>, Shrink
  PROVE  /\ Depth \in Nat \ {0} /\ DOMAIN chain = 1 .. Depth
         /\ chain' \in Seq(Level)
         /\ Depth' = Depth - 1 /\ DOMAIN chain' = 1 .. Depth - 1
         /\ \A i \in 1 .. Depth - 1 : chain'[i] = chain[i]
<1>1. chain \in Seq(Level) /\ chain # <<>>
  BY DEF ChainInv, ChainTypeOK
<1>2. chain' = SubSeq(chain, 1, Len(chain) - 1)
  BY DEF Shrink
<1>3. Depth \in Nat \ {0} /\ DOMAIN chain = 1 .. Depth
  BY <1>1 DEF Depth
<1>4. /\ chain' \in Seq(Level) /\ Len(chain') = Depth - 1
      /\ \A i \in 1 .. Depth - 1 : chain'[i] = chain[i]
  BY <1>1, <1>2, <1>3, SubSeqProperties DEF Depth
<1> QED
  BY <1>3, <1>4 DEF Depth

\* The previous pack holds the latest caller or holds nothing, and then memory
\* holds the caller: in both cases ExitCall ends with the caller's frame.
LEMMA ExitedPacks ==
  ASSUME ChainInv, chain # <<>>, ExitCall
  PROVE  /\ Depth \in DOMAIN chain
         /\ previousPack = chain[Depth].slot
         /\ currentFrameIndex' = previousPack
         /\ fp' = chain[Depth].fp
         /\ mem' = mem
         /\ frames'[previousPack].valid
         /\ frames'[previousPack].fpa = chain[Depth].fp
         /\ frames'[previousPack].regs = chain[Depth].regs
         /\ ip' = chain[Depth].regs.rip
         /\ ~frames'[currentFrameIndex].valid
         /\ \A p \in Slots \ {currentFrameIndex, previousPack} : frames'[p] = frames[p]
<1> DEFINE n == Depth
           p == previousPack
           target == ProperFramePointer(FramePointerOf(locals.pfp))
<1>1. /\ currentFrameIndex \in Slots /\ p \in Slots /\ p # currentFrameIndex
      /\ frames \in [Slots -> Pack]
      /\ frames[currentFrameIndex] \in Pack
  BY InvOfChainInv, CurrentPack DEF Inv, TypeOK
<1>2. n \in DOMAIN chain
  <2>1. chain \in Seq(Level) /\ chain # <<>>
    BY DEF ChainInv, ChainTypeOK
  <2> QED
    BY <2>1 DEF Depth
<1>3. /\ locals.pfp = chain[n].fp
      /\ currentFrameIndex = (chain[n].slot + 1) % NumRegisterFrames
  BY <1>2, CallerLinks
<1>4. p = chain[n].slot
  BY <1>2, <1>3, Levels, RingNeighbours DEF previousPack
<1>5. FramePointerOf(locals.pfp) = chain[n].fp /\ target = chain[n].fp
  BY <1>2, <1>3, Levels, AlignedAddresses DEF ChainInv, FramesApart
<1>6. frames[p].valid => frames[p].fpa = target /\ frames[p].regs = chain[n].regs
  <2> SUFFICES ASSUME frames[p].valid
               PROVE  frames[p].fpa = target /\ frames[p].regs = chain[n].regs
    OBVIOUS
  <2>1. PICK i \in DOMAIN chain :
          /\ chain[i].slot = p /\ frames[p].fpa = chain[i].fp
          /\ frames[p].regs = chain[i].regs
          /\ \A j \in DOMAIN chain : chain[j].slot = p => j <= i
    BY <1>1, HeldLevel
  <2>2. i \in 1 .. n /\ n \in Nat /\ n <= i
    BY <1>2, <1>4, <2>1, Levels
  <2>3. i = n
    BY <2>2
  <2> QED
    BY <2>1, <2>3, <1>5
<1>7. ~frames[p].valid => chain[n].fp \in DOMAIN mem /\ mem[chain[n].fp] = chain[n].regs
  BY <1>2, <1>4 DEF ChainInv, EveryCallerIsHeld, HeldIn, SavedInMemory
<1> DEFINE given == relinquishOwnership(frames[currentFrameIndex])
           restored == [valid |-> TRUE, fpa |-> chain[n].fp, regs |-> chain[n].regs]
<1>8. ~given.valid
  BY <1>1 DEF relinquishOwnership, Pack
<1>9. CASE frames[p].valid
  <2>1. frames' = [frames EXCEPT ![currentFrameIndex] = given] /\ mem' = mem
    BY <1>6, <1>9 DEF ExitCall
  <2> HIDE DEF given
  <2>2. /\ frames'[currentFrameIndex] = given
        /\ \A q \in Slots \ {currentFrameIndex} : frames'[q] = frames[q]
    BY <1>1, <2>1
  <2>3. ip' = frames'[p].regs.rip /\ currentFrameIndex' = p /\ fp' = chain[n].fp
    BY <1>5 DEF ExitCall
  <2> HIDE DEF p, n
  <2> QED
    BY <1>1, <1>2, <1>4, <1>5, <1>6, <1>8, <1>9, <2>1, <2>2, <2>3 DEF p, n
<1>10. CASE ~frames[p].valid
  <2>1. mem' = mem
    BY <1>10 DEF ExitCall, WriteBack
  <2>2. restoreRegisterFrame(mem', target) = {chain[n].regs}
    BY <2>1, <1>5, <1>7, <1>10 DEF restoreRegisterFrame
  <2>3. frames' = [frames EXCEPT ![currentFrameIndex] = given, ![p] = restored]
    BY <2>2, <1>5, <1>10 DEF ExitCall
  <2> HIDE DEF given
  <2>4. /\ frames'[currentFrameIndex] = given
        /\ frames'[p] = restored
        /\ \A q \in Slots \ {currentFrameIndex, p} : frames'[q] = frames[q]
    BY <1>1, <2>3
  <2>5. ip' = frames'[p].regs.rip /\ currentFrameIndex' = p /\ fp' = chain[n].fp
    BY <1>5 DEF ExitCall
  <2> HIDE DEF p, n
  <2> QED
    BY <1>1, <1>2, <1>4, <1>8, <2>1, <2>4, <2>5 DEF p, n
<1> QED
  BY <1>9, <1>10

LEMMA ExitCallChain ==
  ASSUME ChainInv, chain # <<>>, ExitCall, Shrink, Inv'
  PROVE  ChainInv'
<1> DEFINE c == currentFrameIndex
           p == previousPack
           n == Depth
<1>1. c \in Slots /\ p \in Slots /\ p # c
  BY InvOfChainInv, CurrentPack DEF Inv
<1>2. /\ n \in DOMAIN chain /\ p = chain[n].slot
      /\ c' = p /\ fp' = chain[n].fp /\ mem' = mem
      /\ frames'[p].valid /\ frames'[p].fpa = chain[n].fp
      /\ frames'[p].regs = chain[n].regs
      /\ ~frames'[c].valid
      /\ \A q \in Slots \ {c, p} : frames'[q] = frames[q]
  BY ExitedPacks
<1>3. /\ n \in Nat \ {0} /\ DOMAIN chain = 1 .. n
      /\ chain' \in Seq(Level) /\ Depth' = n - 1 /\ DOMAIN chain' = 1 .. n - 1
      /\ \A i \in 1 .. n - 1 : chain'[i] = chain[i]
  BY ChainShrinks
<1> HIDE DEF n
<1>4. CurrentPackIsCurrent'
  BY <1>2 DEF CurrentPackIsCurrent
<1>5. FramesApart'
  <2>1. \A i \in 1 .. n - 1 : i \in 1 .. n /\ i # n
    BY <1>3
  <2> QED
    BY <2>1, <1>2, <1>3 DEF FramesApart, ChainInv
<1>6. LinksFollowChain'
  <2> SUFFICES ASSUME NEW i \in 1 .. n - 1
               PROVE  LET callee == IF i = n - 1
                            THEN [slot |-> p, pfp |-> frames'[p].regs.pfp]
                            ELSE [slot |-> chain'[i + 1].slot,
                                  pfp |-> chain'[i + 1].regs.pfp]
                      IN /\ callee.pfp = chain'[i].fp
                         /\ callee.slot = (chain'[i].slot + 1) % NumRegisterFrames
    BY <1>2, <1>3 DEF LinksFollowChain, locals
  <2>1. i \in 1 .. n /\ i # n /\ i + 1 \in 1 .. n /\ chain'[i] = chain[i]
    BY <1>3
  <2>2. /\ chain[i + 1].regs.pfp = chain[i].fp
        /\ chain[i + 1].slot = (chain[i].slot + 1) % NumRegisterFrames
    BY <2>1, <1>3, CallerLinks DEF n
  <2>3. CASE i = n - 1
    <3>1. i + 1 = n
      BY <2>3, <1>3
    <3> QED
      BY <2>1, <2>2, <2>3, <3>1, <1>2
  <2>4. CASE i # n - 1
    <3>1. chain'[i + 1] = chain[i + 1]
      BY <2>4, <1>3
    <3> QED
      BY <2>1, <2>2, <2>4, <3>1
  <2> QED
    BY <2>3, <2>4
<1>7. \A q \in Slots \ {p} : frames'[q].valid => q # c /\ frames'[q] = frames[q]
  BY <1>2
<1>8. PacksHoldLatestCallers'
  <2> SUFFICES ASSUME NEW q \in Slots \ {p}, frames'[q].valid
               PROVE  \E i \in 1 .. n - 1 :
                        /\ chain'[i].slot = q
                        /\ frames'[q].fpa = chain'[i].fp
                        /\ frames'[q].regs = chain'[i].regs
                        /\ \A j \in 1 .. n - 1 : chain'[j].slot = q => j <= i
    BY <1>2, <1>3 DEF PacksHoldLatestCallers, HeldIn
  <2>1. PICK i \in 1 .. n :
          /\ chain[i].slot = q /\ frames[q].fpa = chain[i].fp
          /\ frames[q].regs = chain[i].regs
          /\ \A j \in 1 .. n : chain[j].slot = q => j <= i
    BY <1>7, <1>3, HeldLevel
  <2>2. i \in 1 .. n - 1
    BY <2>1, <1>2, <1>3
  <2> WITNESS i \in 1 .. n - 1
  <2> QED
    BY <2>1, <2>2, <1>3, <1>7
<1>9. EveryCallerIsHeld'
  <2> SUFFICES ASSUME NEW i \in 1 .. n - 1
               PROVE  (HeldIn(chain[i].slot, i) \/ SavedInMemory(i))'
    BY <1>3 DEF EveryCallerIsHeld
  <2>1. i \in 1 .. n /\ i # n /\ chain'[i] = chain[i] /\ chain[i].slot \in Slots
    BY <1>3, Levels
  <2>2. HeldIn(chain[i].slot, i) \/ SavedInMemory(i)
    BY <2>1, <1>3 DEF ChainInv, EveryCallerIsHeld
  <2>3. CASE SavedInMemory(i)
    BY <2>1, <2>3, <1>2 DEF SavedInMemory
  <2>4. CASE HeldIn(chain[i].slot, i) /\ chain[i].slot # p
    BY <2>1, <2>4, <1>2 DEF HeldIn
  <2>5. CASE HeldIn(p, i)
    \* The pack of the latest caller holds no other level.
    <3>1. frames[p].valid /\ frames[p].fpa = chain[i].fp
      BY <2>5 DEF HeldIn
    <3>2. PICK k \in 1 .. n : /\ frames[p].fpa = chain[k].fp
                              /\ \A j \in 1 .. n : chain[j].slot = p => j <= k
      BY <3>1, <1>1, <1>3, HeldLevel
    <3>3. k = n
      BY <3>2, <1>2, <1>3
    <3>4. chain[i].fp = chain[n].fp
      BY <3>1, <3>2, <3>3
    <3> QED
      BY <3>4, <2>1, <1>2, <1>3 DEF ChainInv, FramesApart
  <2> QED
    BY <2>2, <2>3, <2>4, <2>5
<1> QED
  BY <1>3, <1>4, <1>5, <1>6, <1>8, <1>9 DEF ChainInv, ChainTypeOK, Inv

-------------------------------------------------------------------------------
(* The steps that leave the chain alone.                                     *)

LEMMA SameChain ==
  ASSUME ChainInv, Inv', UNCHANGED <<currentFrameIndex, fp, chain>>,
         \A p \in Slots : frames'[p].valid => /\ frames[p].valid
                                              /\ frames'[p].fpa = frames[p].fpa
                                              /\ p # currentFrameIndex =>
                                                   frames'[p].regs = frames[p].regs,
         frames'[currentFrameIndex].valid,
         locals'.pfp = locals.pfp,
         EveryCallerIsHeld'
  PROVE  ChainInv'
<1>1. currentFrameIndex \in Slots
  BY InvOfChainInv DEF Inv, TypeOK
<1>2. ChainTypeOK'
  BY DEF ChainInv, ChainTypeOK, Inv
<1>3. CurrentPackIsCurrent'
  BY <1>1 DEF ChainInv, CurrentPackIsCurrent
<1>4. FramesApart'
  BY DEF ChainInv, FramesApart
<1>5. LinksFollowChain'
  BY DEF ChainInv, LinksFollowChain, Depth
<1>6. PacksHoldLatestCallers'
  <2> SUFFICES ASSUME NEW p \in Slots \ {currentFrameIndex}, frames'[p].valid
               PROVE  \E i \in DOMAIN chain :
                        /\ chain[i].slot = p
                        /\ frames'[p].fpa = chain[i].fp
                        /\ frames'[p].regs = chain[i].regs
                        /\ \A j \in DOMAIN chain : chain[j].slot = p => j <= i
    BY DEF PacksHoldLatestCallers, HeldIn
  <2> QED
    BY HeldLevel
<1> QED
  BY <1>2, <1>3, <1>4, <1>5, <1>6 DEF ChainInv

LEMMA WriteLocalChain ==
  ASSUME ChainInv, Inv', NEW regs, regs.pfp = locals.pfp,
         frames' = [frames EXCEPT ![currentFrameIndex].regs = regs],
         UNCHANGED <<currentFrameIndex, fp, mem, chain>>
  PROVE  ChainInv'
<1>1. /\ currentFrameIndex \in Slots /\ frames \in [Slots -> Pack]
      /\ frames[currentFrameIndex] \in Pack
      /\ frames[currentFrameIndex].valid
  BY InvOfChainInv DEF Inv, TypeOK, CurrentPackIsValid
<1>2. /\ frames'[currentFrameIndex].valid
      /\ frames'[currentFrameIndex].fpa = frames[currentFrameIndex].fpa
      /\ frames'[currentFrameIndex].regs = regs
      /\ \A p \in Slots \ {currentFrameIndex} : frames'[p] = frames[p]
  BY <1>1 DEF Pack
<1>3. locals'.pfp = locals.pfp
  BY <1>2 DEF locals
<1>4. EveryCallerIsHeld'
  BY <1>2, Levels DEF ChainInv, EveryCallerIsHeld, HeldIn, SavedInMemory
<1> QED
  BY <1>1, <1>2, <1>3, <1>4, SameChain

LEMMA LocalChain ==
  ASSUME ChainInv, Inv', LocalStep, UNCHANGED chain
  PROVE  ChainInv'
<1>1. locals \in Locals
  BY InvOfChainInv, CurrentPack DEF Inv
<1>2. CASE UNCHANGED <<frames, currentFrameIndex, fp, mem>>
  BY <1>2 DEF ChainInv, ChainTypeOK, Inv, CurrentPackIsCurrent, FramesApart,
              LinksFollowChain, PacksHoldLatestCallers, EveryCallerIsHeld, HeldIn,
              SavedInMemory, Depth, locals
<1>3. CASE \E value \in Values : WriteLocal(value)
  <2>1. PICK value \in Values : WriteLocal(value)
    BY <1>3
  <2>2. [locals EXCEPT !.data = value].pfp = locals.pfp
    BY <1>1 DEF Locals
  <2> QED
    BY <2>1, <2>2, WriteLocalChain DEF WriteLocal, locals
<1>4. CASE \E size \in FrameSizes : WriteStackPointer(size)
  <2>1. PICK size \in FrameSizes : WriteStackPointer(size)
    BY <1>4
  <2>2. [locals EXCEPT !.sp = fp + size].pfp = locals.pfp
    BY <1>1 DEF Locals
  <2> QED
    BY <2>1, <2>2, WriteLocalChain DEF WriteStackPointer, locals
<1>5. CASE \E type \in ReturnTypes : WriteReturnType(type)
  <2>1. PICK type \in ReturnTypes : WriteReturnType(type)
    BY <1>5
  <2>2. [locals EXCEPT !.rt = type].pfp = locals.pfp
    BY <1>1 DEF Locals
  <2> QED
    BY <2>1, <2>2, WriteLocalChain DEF WriteReturnType, locals
<1> QED
  BY <1>2, <1>3, <1>4, <1>5 DEF LocalStep, ReservedReturn, modpc, StoreBehindRing

\* A flush moves every frame whose pack it gives up to memory.
LEMMA FlushMovesFrames ==
  ASSUME ChainInv, NEW i \in DOMAIN chain,
         SavedInMemory(i) \/ (HeldIn(chain[i].slot, i) /\ chain[i].slot \in Flushed)
  PROVE  /\ chain[i].fp \in DOMAIN FlushedMemory(mem)
         /\ FlushedMemory(mem)[chain[i].fp] = chain[i].regs
<1> DEFINE order(p) == (p - currentFrameIndex) % NumRegisterFrames
           Saved == {p \in Flushed : frames[p].valid}
           Kept == {p \in Saved : \A q \in Saved :
                      Overlap(frames[p].fpa, frames[q].fpa) => order(q) <= order(p)}
           Old == {a \in DOMAIN mem : \A p \in Saved : ~Overlap(a, frames[p].fpa)}
           New == {frames[p].fpa : p \in Kept}
           image(a) == IF a \in Old THEN mem[a]
                       ELSE frames[CHOOSE p \in Kept : frames[p].fpa = a].regs
           a == chain[i].fp
<1>1. FlushedMemory(mem) = [b \in Old \union New |-> image(b)]
  BY DEF FlushedMemory
<1>2. a \in Nat /\ a % 64 = 0
  BY Levels DEF ChainInv, FramesApart
<1>3. \A p \in Saved : \E k \in DOMAIN chain :
        /\ chain[k].slot = p /\ frames[p].fpa = chain[k].fp
        /\ frames[p].regs = chain[k].regs
        /\ chain[k].fp \in Nat /\ chain[k].fp % 64 = 0
  BY HeldLevel, Levels DEF Flushed, ChainInv, FramesApart
<1>4. \A p, q \in Saved : Overlap(frames[p].fpa, frames[q].fpa) => p = q
  BY <1>3, AlignedFramesDisjoint DEF ChainInv, FramesApart
<1>5. \A p \in Saved : p \in Slots /\ currentFrameIndex \in Slots
  BY InvOfChainInv DEF Flushed, Inv, TypeOK
<1>6. \A p \in Saved : order(p) <= order(p)
  BY <1>5, RingAssumption DEF Slots
<1> HIDE DEF order
<1>7. Kept = Saved
  BY <1>4, <1>6
<1>8. \A p \in Saved : Overlap(frames[p].fpa, frames[p].fpa)
  BY <1>3 DEF Overlap
<1>9. CASE \E p \in Saved : frames[p].fpa = a
  <2>1. PICK p \in Saved : frames[p].fpa = a
    BY <1>9
  <2>2. a \notin Old /\ a \in New
    BY <2>1, <1>7, <1>8
  <2>3. (CHOOSE q \in Kept : frames[q].fpa = a) = p
    BY <2>1, <1>4, <1>7, <1>8
  <2>4. frames[p].regs = chain[i].regs
    BY <2>1, <1>3 DEF ChainInv, FramesApart
  <2>5. image(a) = chain[i].regs
    BY <2>2, <2>3, <2>4
  <2> HIDE DEF Old, New, image
  <2> QED
    BY <1>1, <2>2, <2>5
<1>10. CASE \A p \in Saved : frames[p].fpa # a
  <2>1. SavedInMemory(i)
    BY <1>10 DEF HeldIn
  <2>2. a \in Old /\ image(a) = chain[i].regs
    BY <2>1, <1>2, <1>3, <1>10, AlignedFramesDisjoint DEF SavedInMemory
  <2> HIDE DEF Old, New, image
  <2> QED
    BY <1>1, <2>2
<1> QED
  BY <1>9, <1>10

LEMMA FlushChain ==
  ASSUME ChainInv, Inv', flushreg, NothingBehind, UNCHANGED chain
  PROVE  ChainInv'
<1>1. /\ currentFrameIndex \in Slots /\ frames[currentFrameIndex].valid
      /\ \A p \in Slots : frames[p] \in Pack
  BY InvOfChainInv DEF Inv, TypeOK, CurrentPackIsValid
<1>2. /\ \A p \in Slots : IF p \in Flushed THEN ~frames'[p].valid
                          ELSE frames'[p] = frames[p]
      /\ frames'[currentFrameIndex] = frames[currentFrameIndex]
      /\ mem' = FlushedMemory(mem)
      /\ UNCHANGED <<currentFrameIndex, fp>>
  BY <1>1 DEF flushreg, NothingBehind, Flushed, relinquishOwnership, Pack
<1>3. EveryCallerIsHeld'
  <2> SUFFICES ASSUME NEW i \in DOMAIN chain
               PROVE  (HeldIn(chain[i].slot, i) \/ SavedInMemory(i))'
    BY DEF EveryCallerIsHeld
  <2>1. HeldIn(chain[i].slot, i) \/ SavedInMemory(i)
    BY DEF ChainInv, EveryCallerIsHeld
  <2>2. CASE HeldIn(chain[i].slot, i) /\ chain[i].slot \notin Flushed
    BY <2>2, <1>2, Levels DEF HeldIn
  <2>3. CASE SavedInMemory(i) \/ (HeldIn(chain[i].slot, i) /\ chain[i].slot \in Flushed)
    BY <2>3, <1>2, FlushMovesFrames DEF SavedInMemory
  <2> QED
    BY <2>1, <2>2, <2>3
<1>4. locals'.pfp = locals.pfp
  BY <1>2 DEF locals
<1> QED
  BY <1>1, <1>2, <1>3, <1>4, SameChain

LEMMA BootChain ==
  ASSUME ChainInv, Inv', BootStep, chain' = <<>>
  PROVE  ChainInv'
<1>1. PICK startIP \in BootIPs : reinitializeProcessor(startIP)
  BY DEF BootStep
<1>2. fp' = InterruptStack /\ fp' % 64 = 0
  BY <1>1, StackAssumption, AlignedAddresses DEF reinitializeProcessor
<1>3. /\ currentFrameIndex' = 0 /\ 0 \in Slots
      /\ frames'[0].valid /\ frames'[0].fpa = InterruptStack
      /\ \A p \in Slots \ {0} : ~frames'[p].valid
  BY <1>1, RingAssumption DEF reinitializeProcessor, BootFrames, ClearedPack, Slots
<1> QED
  BY <1>2, <1>3
     DEF ChainInv, ChainTypeOK, CurrentPackIsCurrent, FramesApart, LinksFollowChain,
         PacksHoldLatestCallers, EveryCallerIsHeld, Inv

-------------------------------------------------------------------------------
(* The theorems.                                                             *)

\* Where a call puts the new frame: next on the caller's stack, or where the
\* supervisor stack begins.
Placed(newFP) ==
  \/ newFP = RoundToFrame(locals.sp)
  \/ newFP = SupervisorStack /\ ~pc.em

LEMMA CallsPlaceFrame ==
  ASSUME Inv, CallStep
  PROVE  \E newFP \in Nat, returnAddress \in {ip + 4, ip + 8}, returnType \in 0 .. 7 :
           Placed(newFP) /\ EnterCall(newFP, returnAddress, returnType)
<1> DEFINE next == RoundToFrame(locals.sp)
<1>1. /\ next \in Nat /\ SupervisorStack \in Nat /\ ip \in Nat
      /\ frames[nextPack].regs.rt \in 0 .. 7
  BY CurrentPack, StackAssumption, FrameAddressing DEF Inv, TypeOK, Locals
<1>2. PICK target \in Procedures :
        \/ call(target)
        \/ \E length \in {4, 8} : callx(target, length)
        \/ \E type \in 0 .. 3 : CallsLocal(target, type) \/ CallsSupervisor(target, type)
  BY DEF CallStep, PlainCall, SystemCall
<1>7. Placed(next)
  BY DEF Placed
<1> HIDE DEF next
<1>3. CASE call(target)
  <2>1. EnterCall(next, ip + 4, frames[nextPack].regs.rt)
    BY <1>3 DEF call, next
  <2> QED
    BY <1>1, <1>7, <2>1
<1>4. CASE \E length \in {4, 8} : callx(target, length)
  <2>1. \E length \in {4, 8} : EnterCall(next, ip + length, frames[nextPack].regs.rt)
    BY <1>4 DEF callx, next
  <2> QED
    BY <1>1, <1>7, <2>1
<1>5. CASE \E type \in 0 .. 3 : CallsLocal(target, type)
  <2>1. EnterCall(next, ip + 4, 0)
    BY <1>5 DEF CallsLocal, next
  <2> QED
    BY <1>1, <1>7, <2>1
<1>6. CASE \E type \in 0 .. 3 : CallsSupervisor(target, type)
  <2>1. /\ EnterCall(SupervisorStack, ip + 4, SupervisorReturnType)
        /\ Placed(SupervisorStack)
    BY <1>6 DEF CallsSupervisor, Placed
  <2>2. SupervisorReturnType \in 0 .. 7
    BY DEF SupervisorReturnType
  <2> QED
    BY <1>1, <2>1, <2>2
<1> QED
  BY <1>2, <1>3, <1>4, <1>5, <1>6, Zenon

\* Every call is an EnterCall for some frame.
LEMMA CallsEnter ==
  ASSUME Inv, CallStep
  PROVE  \E newFP \in Nat, returnAddress \in {ip + 4, ip + 8}, returnType \in 0 .. 7 :
           EnterCall(newFP, returnAddress, returnType)
BY CallsPlaceFrame

LEMMA EnteredFrame ==
  ASSUME Inv, NEW newFP \in Nat, NEW returnAddress \in Nat, NEW returnType \in 0 .. 7,
         EnterCall(newFP, returnAddress, returnType)
  PROVE  frames'[currentFrameIndex'].fpa = newFP
<1> DEFINE calleeRegs == [frames[nextPack].regs EXCEPT !.pfp = PreviousFrameAddress(fp),
                                                       !.rt = returnType,
                                                       !.sp = newFP + 64]
           caller == [frames[currentFrameIndex] EXCEPT !.regs.rip = returnAddress]
           callee == [valid |-> TRUE, fpa |-> newFP, regs |-> calleeRegs]
<1>1. /\ currentFrameIndex \in Slots /\ nextPack \in Slots
      /\ nextPack # currentFrameIndex /\ frames \in [Slots -> Pack]
  BY CurrentPack DEF Inv, TypeOK
<1>2. /\ frames' = [frames EXCEPT ![currentFrameIndex] = caller, ![nextPack] = callee]
      /\ currentFrameIndex' = nextPack
  BY <1>1 DEF EnterCall
<1>3. callee.fpa = newFP
  OBVIOUS
<1> HIDE DEF callee, caller
<1> QED
  BY <1>1, <1>2, <1>3

LEMMA CallChainStep ==
  ASSUME ChainInv, Inv', CallStep, AlignedFrame, OwnFrame, Grow
  PROVE  ChainInv'
<1>1. Inv
  BY InvOfChainInv
<1>2. PICK newFP \in Nat, returnAddress \in {ip + 4, ip + 8}, returnType \in 0 .. 7 :
        EnterCall(newFP, returnAddress, returnType)
  BY <1>1, CallsEnter
<1>3. returnAddress \in Nat
  BY <1>1 DEF Inv, TypeOK
<1>4. frames'[currentFrameIndex'].fpa = newFP
  BY <1>1, <1>2, <1>3, EnteredFrame
<1> QED
  BY <1>2, <1>3, <1>4, EnterCallChain DEF AlignedFrame, OwnFrame

LEMMA ReturnsExit == ASSUME ReturnStep PROVE ExitCall
BY DEF ReturnStep, handleLocalReturn, handleFaultReturn, handleSupervisorReturn

LEMMA ChainNext == ChainInv /\ [DisciplinedNext]_hvars => ChainInv'
<1> SUFFICES ASSUME ChainInv, [DisciplinedNext]_hvars PROVE ChainInv'
  OBVIOUS
<1>1. CASE UNCHANGED hvars
  BY <1>1 DEF hvars, vars, ChainInv, ChainTypeOK, TypeOK, CurrentPackIsCurrent,
              FramesApart, LinksFollowChain, PacksHoldLatestCallers, EveryCallerIsHeld,
              HeldIn, SavedInMemory, Depth, locals
<1>2. CASE DisciplinedNext
  <2>1. Inv'
    BY <1>2, InvOfChainInv, NextInv DEF DisciplinedNext, Next
  <2> QED
    BY <1>2, <2>1, CallChainStep, ReturnsExit, ExitCallChain, LocalChain, FlushChain,
       BootChain DEF DisciplinedNext
<1> QED
  BY <1>1, <1>2

\* The chain of callers is always intact: ChainInv is an invariant.
THEOREM ChainIntact == DisciplinedSpec => []ChainInv
BY ChainInit, ChainNext, PTL DEF DisciplinedSpec

\* So no suspended caller's frame is ever lost between the packs and memory,
\* whatever the ring's size and however deep the calls.
THEOREM CallersHeld == DisciplinedSpec => []EveryCallerIsHeld
<1>1. ChainInv => EveryCallerIsHeld
  BY DEF ChainInv
<1> QED
  BY <1>1, ChainIntact, PTL

\* The packs of the ring hold the latest callers and nothing stale.
THEOREM PacksNotStale == DisciplinedSpec => []PacksHoldLatestCallers
<1>1. ChainInv => PacksHoldLatestCallers
  BY DEF ChainInv
<1> QED
  BY <1>1, ChainIntact, PTL

\* The pack in use is that of the frame pointer.
THEOREM CurrentPackCorrect == DisciplinedSpec => []CurrentPackIsCurrent
<1>1. ChainInv => CurrentPackIsCurrent
  BY DEF ChainInv
<1> QED
  BY <1>1, ChainIntact, PTL

\* Previous frame pointers and the ring's neighbours lead back along the
\* callers, to the first.
THEOREM LinksCorrect == DisciplinedSpec => []LinksFollowChain
<1>1. ChainInv => LinksFollowChain
  BY DEF ChainInv
<1> QED
  BY <1>1, ChainIntact, PTL

\* A return gives the caller back its frame, its registers and its next
\* instruction, from a pack or from memory.
THEOREM ReturnsRestore == DisciplinedSpec => ReturnRestoresCaller
<1>1. ChainInv =>
        [ReturnStep /\ chain # <<>> =>
           /\ fp' = chain[Depth].fp
           /\ frames'[currentFrameIndex'].regs = chain[Depth].regs
           /\ ip' = chain[Depth].regs.rip]_hvars
  BY ReturnsExit, ExitedPacks
<1> QED
  BY <1>1, ChainIntact, PTL DEF ReturnRestoresCaller

\* flushreg leaves every caller's registers in memory, unless it is executed
\* in the last pack of the ring.
THEOREM FlushSaves == DisciplinedSpec => FlushSavesCallers
<1>1. ASSUME ChainInv, flushreg, ~PastTheRing, NEW i \in DOMAIN chain
      PROVE  chain[i].fp \in DOMAIN mem' /\ mem'[chain[i].fp] = chain[i].regs
  <2>1. Flushed = Slots \ {currentFrameIndex}
    BY <1>1 DEF Flushed, PastTheRing
  <2>2. SavedInMemory(i) \/ (HeldIn(chain[i].slot, i) /\ chain[i].slot \in Flushed)
    BY <1>1, <2>1, Levels DEF ChainInv, EveryCallerIsHeld, HeldIn
  <2> QED
    BY <1>1, <2>2, FlushMovesFrames DEF flushreg
<1>2. ChainInv =>
        [flushreg /\ ~PastTheRing =>
           \A i \in DOMAIN chain : /\ chain[i].fp \in DOMAIN mem'
                                   /\ mem'[chain[i].fp] = chain[i].regs]_hvars
  BY <1>1
<1> QED
  BY <1>2, ChainIntact, PTL DEF FlushSavesCallers

-------------------------------------------------------------------------------
(* The frame cache implements the stack of activations.                      *)

LEMMA LevelsRegs ==
  ASSUME NEW levels \in Seq(Level), NEW regs, regs = [i \in DOMAIN levels |-> levels[i].regs]
  PROVE  /\ regs \in Seq(Locals) /\ Len(regs) = Len(levels) /\ Len(levels) \in Nat
         /\ \A i \in 1 .. Len(levels) : regs[i] = levels[i].regs
<1>1. Len(levels) \in Nat /\ DOMAIN levels = 1 .. Len(levels)
  OBVIOUS
<1>2. ASSUME NEW i \in 1 .. Len(levels) PROVE levels[i].regs \in Locals
  <2>1. levels[i] \in Level
    OBVIOUS
  <2> QED
    BY <2>1 DEF Level
<1>3. regs \in [1 .. Len(levels) -> Locals]
  BY <1>1, <1>2
<1> QED
  BY <1>1, <1>3

LEMMA AbstractInit == HInit => Abstract!Init
<1> SUFFICES ASSUME HInit PROVE Abstract!Init
  OBVIOUS
<1>1. Inv /\ chain = <<>>
  BY InitInv DEF HInit
<1>2. callerRegs \in Seq(Locals) /\ Len(callerRegs) = 0
  <2>1. chain \in Seq(Level) /\ Len(chain) = 0
    BY <1>1
  <2> QED
    BY <2>1, LevelsRegs DEF callerRegs
<1>3. callerRegs = <<>>
  BY <1>2, EmptySeq
<1> QED
  BY <1>1, <1>3, CurrentPack DEF Abstract!Init, Inv, TypeOK

\* A call is an abstract call that suspends the caller's registers.
LEMMA AbstractCall ==
  ASSUME ChainInv, ChainInv', CallStep, AlignedFrame, Grow
  PROVE  Abstract!Call
<1>1. Inv /\ Inv' /\ locals' \in Locals /\ ip' \in Nat /\ ip \in Nat /\ locals \in Locals
  <2>1. Inv /\ Inv'
    BY InvOfChainInv DEF ChainInv, ChainTypeOK, Inv, CurrentPackIsCurrent, CurrentPackIsValid
  <2> QED
    BY <2>1, CurrentPack DEF Inv, TypeOK, Pack, locals
<1>2. PICK newFP \in Nat, returnAddress \in {ip + 4, ip + 8}, returnType \in 0 .. 7 :
        EnterCall(newFP, returnAddress, returnType)
  BY <1>1, CallsEnter
<1>3. newFP % 64 = 0
  BY <1>1, <1>2, EnteredFrame DEF AlignedFrame
<1>4. /\ frames'[currentFrameIndex].regs = [locals EXCEPT !.rip = returnAddress]
      /\ frames'[currentFrameIndex].regs \in Locals
  <2>1. returnAddress \in Nat
    BY <1>1
  <2> QED
    BY <1>2, <1>3, <2>1, EnteredPacks, Zenon
<1> DEFINE suspended == [locals EXCEPT !.rip = returnAddress]
<1>5. callerRegs' = Append(callerRegs, suspended)
  <2>1. /\ chain \in Seq(Level) /\ chain' \in Seq(Level)
        /\ Len(chain') = Len(chain) + 1 /\ Len(chain) \in Nat
        /\ \A i \in 1 .. Len(chain) : chain'[i] = chain[i]
        /\ chain'[Len(chain) + 1].regs = suspended
    BY <1>4, ChainGrows DEF ChainInv, ChainTypeOK, Depth
  <2>2. /\ callerRegs \in Seq(Locals) /\ Len(callerRegs) = Len(chain)
        /\ \A i \in 1 .. Len(chain) : callerRegs[i] = chain[i].regs
    BY <2>1, LevelsRegs DEF callerRegs
  <2>3. /\ callerRegs' \in Seq(Locals) /\ Len(callerRegs') = Len(chain')
        /\ \A i \in 1 .. Len(chain') : callerRegs'[i] = chain'[i].regs
    <3>1. callerRegs' = [i \in DOMAIN chain' |-> chain'[i].regs]
      BY DEF callerRegs
    <3>2. chain' \in Seq(Level)
      BY <2>1
    <3> HIDE DEF suspended
    <3> QED
      BY <3>1, <3>2, LevelsRegs
  <2>4. suspended \in Locals
    BY <1>4
  <2> HIDE DEF suspended
  <2>5. /\ Append(callerRegs, suspended) \in Seq(Locals)
        /\ Len(Append(callerRegs, suspended)) = Len(chain) + 1
        /\ \A i \in 1 .. Len(chain) : Append(callerRegs, suspended)[i] = callerRegs[i]
        /\ Append(callerRegs, suspended)[Len(chain) + 1] = suspended
    BY <2>1, <2>2, <2>4
  <2>6. \A i \in 1 .. Len(chain') : callerRegs'[i] = Append(callerRegs, suspended)[i]
    BY <2>1, <2>2, <2>3, <2>5
  <2> QED
    BY <2>1, <2>3, <2>5, <2>6, SeqEqual
<1> QED
  BY <1>1, <1>5 DEF Abstract!Call

\* A return is an abstract return to the latest caller.
LEMMA AbstractReturn ==
  ASSUME ChainInv, ChainInv', ReturnStep, chain # <<>>, Shrink
  PROVE  Abstract!Return
<1>1. /\ Depth \in DOMAIN chain
      /\ locals' = chain[Depth].regs
      /\ ip' = chain[Depth].regs.rip
  BY ReturnsExit, ExitedPacks DEF locals
<1>2. /\ chain \in Seq(Level) /\ chain' \in Seq(Level)
      /\ Depth = Len(chain) /\ Depth \in Nat \ {0}
      /\ Len(chain') = Depth - 1
      /\ \A i \in 1 .. Depth - 1 : chain'[i] = chain[i]
  BY ChainShrinks DEF ChainInv, ChainTypeOK, Depth
<1>3. /\ callerRegs \in Seq(Locals) /\ Len(callerRegs) = Depth
      /\ \A i \in 1 .. Depth : callerRegs[i] = chain[i].regs
  BY <1>2, LevelsRegs DEF callerRegs
<1>4. /\ callerRegs' \in Seq(Locals) /\ Len(callerRegs') = Depth - 1
      /\ \A i \in 1 .. Depth - 1 : callerRegs'[i] = chain'[i].regs
  <2>1. callerRegs' = [i \in DOMAIN chain' |-> chain'[i].regs]
    BY DEF callerRegs
  <2> QED
    BY <1>2, <2>1, LevelsRegs
<1>5. /\ SubSeq(callerRegs, 1, Depth - 1) \in Seq(Locals)
      /\ Len(SubSeq(callerRegs, 1, Depth - 1)) = Depth - 1
      /\ \A i \in 1 .. Depth - 1 : SubSeq(callerRegs, 1, Depth - 1)[i] = callerRegs[i]
  BY <1>2, <1>3, SubSeqProperties
<1>6. callerRegs' = SubSeq(callerRegs, 1, Depth - 1)
  <2>1. \A i \in 1 .. Len(callerRegs') : callerRegs'[i] = SubSeq(callerRegs, 1, Depth - 1)[i]
    BY <1>2, <1>3, <1>4, <1>5
  <2> QED
    BY <1>4, <1>5, <2>1, SeqEqual
<1>7. callerRegs # <<>> /\ callerRegs[Depth] = chain[Depth].regs
  BY <1>2, <1>3
<1> QED
  BY <1>1, <1>3, <1>6, <1>7 DEF Abstract!Return

\* Every other step works in the running activation, or starts over.
LEMMA AbstractWork ==
  ASSUME ChainInv, ChainInv', LocalStep \/ flushreg, UNCHANGED chain
  PROVE  Abstract!Work
<1>1. Inv /\ Inv'
  BY InvOfChainInv DEF ChainInv, ChainTypeOK, Inv, CurrentPackIsCurrent, CurrentPackIsValid
<1>2. locals' \in Locals /\ ip' \in Nat
  BY <1>1 DEF Inv, TypeOK, Pack, locals
<1>3. UNCHANGED callerRegs
  BY DEF callerRegs
<1>4. /\ currentFrameIndex \in Slots /\ frames \in [Slots -> Pack]
      /\ frames[currentFrameIndex] \in Pack /\ locals \in Locals
      /\ frames[currentFrameIndex].regs = locals
  BY <1>1, CurrentPack DEF Inv, TypeOK, locals
<1>5. ASSUME NEW regs, regs.pfp = locals.pfp,
             frames' = [frames EXCEPT ![currentFrameIndex].regs = regs],
             currentFrameIndex' = currentFrameIndex
      PROVE  locals'.pfp = locals.pfp
  BY <1>4, <1>5 DEF locals, Pack
<1>6. locals'.pfp = locals.pfp
  <2>1. CASE UNCHANGED <<frames, currentFrameIndex>>
    BY <2>1 DEF locals
  <2>2. CASE \E value \in Values : WriteLocal(value)
    <3>1. PICK value \in Values : WriteLocal(value)
      BY <2>2
    <3>2. [locals EXCEPT !.data = value].pfp = locals.pfp
      BY <1>4 DEF Locals
    <3> QED
      BY <3>1, <3>2, <1>5 DEF WriteLocal, locals
  <2>3. CASE \E size \in FrameSizes : WriteStackPointer(size)
    <3>1. PICK size \in FrameSizes : WriteStackPointer(size)
      BY <2>3
    <3>2. [locals EXCEPT !.sp = fp + size].pfp = locals.pfp
      BY <1>4 DEF Locals
    <3> QED
      BY <3>1, <3>2, <1>5 DEF WriteStackPointer, locals
  <2>4. CASE \E type \in ReturnTypes : WriteReturnType(type)
    <3>1. PICK type \in ReturnTypes : WriteReturnType(type)
      BY <2>4
    <3>2. [locals EXCEPT !.rt = type].pfp = locals.pfp
      BY <1>4 DEF Locals
    <3> QED
      BY <3>1, <3>2, <1>5 DEF WriteReturnType, locals
  <2>5. CASE flushreg
    BY <2>5, <1>4 DEF flushreg, Flushed, locals
  <2> QED
    BY <2>1, <2>2, <2>3, <2>4, <2>5 DEF LocalStep, ReservedReturn, modpc, StoreBehindRing
<1> QED
  BY <1>2, <1>3, <1>6 DEF Abstract!Work

LEMMA AbstractReset ==
  ASSUME ChainInv', chain' = <<>>
  PROVE  Abstract!Reset
<1>1. TypeOK' /\ chain' \in Seq(Level) /\ Len(chain') = 0
  BY DEF ChainInv, ChainTypeOK
<1>2. locals' \in Locals /\ ip' \in Nat
  BY <1>1 DEF TypeOK, Pack, locals
<1>3. callerRegs' = [i \in DOMAIN chain' |-> chain'[i].regs]
  BY DEF callerRegs
<1>4. callerRegs' \in Seq(Locals) /\ Len(callerRegs') = 0
  BY <1>1, <1>3, LevelsRegs
<1>5. callerRegs' = <<>>
  BY <1>4, EmptySeq
<1> QED
  BY <1>2, <1>5 DEF Abstract!Reset

\* To a disciplined program the packs and the frames in memory are a stack of
\* activations, each with local registers of its own.
THEOREM FramesImplementStack == DisciplinedSpec => ImplementsProcedureStack
<1>1. ChainInv /\ ChainInv' /\ [DisciplinedNext]_hvars => [Abstract!Next]_Abstract!avars
  <2> SUFFICES ASSUME ChainInv, ChainInv', [DisciplinedNext]_hvars
               PROVE  [Abstract!Next]_Abstract!avars
    OBVIOUS
  <2>1. CASE UNCHANGED hvars
    BY <2>1 DEF hvars, vars, Abstract!avars, callerRegs, locals
  <2>2. CASE DisciplinedNext
    BY <2>2, AbstractCall, AbstractReturn, AbstractWork, AbstractReset
       DEF DisciplinedNext, Abstract!Next
  <2> QED
    BY <2>1, <2>2
<1> QED
  BY <1>1, AbstractInit, ChainIntact, PTL
     DEF DisciplinedSpec, ImplementsProcedureStack, Abstract!Spec

-------------------------------------------------------------------------------
(* Process controls.                                                         *)

\* How a callee was entered, given its return type and its process controls,
\* and whether it has yet to clear the former.
Entered(callerPC, rt, calleePC, unclear) ==
  IF ~calleePC.em \/ rt = 0 \/ unclear
  THEN calleePC.em = callerPC.em /\ calleePC.te = callerPC.te
  ELSE ~callerPC.em /\ rt = IF callerPC.te THEN 3 ELSE 2

LEMMA ReturnTypesByLevel ==
  ReturnTypesFollowModes <=>
    \A i \in DOMAIN chain :
      /\ i = Depth => Entered(chain[i].pc, locals.rt, pc, bare)
      /\ i # Depth => Entered(chain[i].pc, chain[i + 1].regs.rt, chain[i + 1].pc, FALSE)
BY DEF ReturnTypesFollowModes, Entered

LEMMA ConventionIsDisciplined == [ControlledNext]_cvars => [DisciplinedNext]_hvars
BY DEF ControlledNext, ConventionCall, ConventionReturn, ConventionLocal, ConventionFlush,
       ConventionBoot, DisciplinedNext, CallStep, LocalStep, cvars

LEMMA EnteredTypes ==
  ASSUME ChainInv, NEW newFP \in Nat, NEW returnAddress \in Nat, NEW returnType \in 0 .. 7,
         EnterCall(newFP, returnAddress, returnType), AlignedFrame
  PROVE  /\ locals'.rt = returnType
         /\ frames'[currentFrameIndex].regs.rt = locals.rt
         /\ frames'[currentFrameIndex].regs \in Locals
<1>1. Inv /\ locals \in Locals
  BY InvOfChainInv, CurrentPack DEF Inv
<1>2. newFP % 64 = 0
  BY <1>1, EnteredFrame DEF AlignedFrame
<1>3. /\ currentFrameIndex' = nextPack
      /\ frames'[nextPack].regs.rt = returnType
      /\ frames'[currentFrameIndex].regs = [locals EXCEPT !.rip = returnAddress]
      /\ frames'[currentFrameIndex].regs \in Locals
  BY <1>2, EnteredPacks
<1>4. [locals EXCEPT !.rip = returnAddress].rt = locals.rt
  BY <1>1 DEF Locals
<1> QED
  BY <1>3, <1>4 DEF locals

\* A call that keeps the convention enters its callee as it should be.
LEMMA CallEntered ==
  ASSUME ChainInv, ConventionCall, AlignedFrame
  PROVE  /\ Entered(pc, locals'.rt, pc', bare')
         /\ frames'[currentFrameIndex].regs.rt = locals.rt
         /\ frames'[currentFrameIndex].regs \in Locals
<1>1. Inv /\ locals \in Locals
  BY InvOfChainInv, CurrentPack DEF Inv
<1>2. /\ RoundToFrame(locals.sp) \in Nat /\ SupervisorStack \in Nat /\ ip \in Nat
      /\ frames[nextPack].regs.rt \in 0 .. 7
      /\ ip + 4 \in Nat /\ 0 \in 0 .. 7
  BY <1>1, CurrentPack, StackAssumption, FrameAddressing DEF Inv, TypeOK, Locals
<1>3. CASE PlainCall /\ bare' = pc.em
  <2>1. pc' = pc /\ \E returnAddress \in {ip + 4, ip + 8} :
          EnterCall(RoundToFrame(locals.sp), returnAddress, frames[nextPack].regs.rt)
    BY <1>3 DEF PlainCall, call, callx
  <2>2. Entered(pc, locals'.rt, pc', bare')
    BY <1>3, <2>1 DEF Entered
  <2> QED
    BY <1>2, <2>1, <2>2, EnteredTypes
<1>4. CASE \E target \in Procedures, type \in 0 .. 3 : CallsLocal(target, type)
  <2>1. pc' = pc /\ EnterCall(RoundToFrame(locals.sp), ip + 4, 0)
    BY <1>4 DEF CallsLocal
  <2>2. locals'.rt = 0
    BY <1>2, <2>1, EnteredTypes
  <2>3. Entered(pc, locals'.rt, pc', bare')
    BY <2>1, <2>2 DEF Entered
  <2> QED
    BY <1>2, <2>1, <2>3, EnteredTypes
<1>5. CASE /\ bare' = FALSE
           /\ \E target \in Procedures, type \in 0 .. 3 : CallsSupervisor(target, type)
  <2>1. pc'.em /\ ~pc.em /\ EnterCall(SupervisorStack, ip + 4, SupervisorReturnType)
    BY <1>5 DEF CallsSupervisor
  <2>2. SupervisorReturnType \in 0 .. 7
    BY DEF SupervisorReturnType
  <2>3. locals'.rt = SupervisorReturnType
    BY <1>2, <2>1, <2>2, EnteredTypes
  <2>4. Entered(pc, locals'.rt, pc', bare')
    BY <1>5, <2>1, <2>3 DEF Entered, SupervisorReturnType
  <2> QED
    BY <1>2, <2>1, <2>2, <2>4, EnteredTypes
<1> QED
  BY <1>3, <1>4, <1>5 DEF ConventionCall, SystemCall

LEMMA ReturnControls ==
  ASSUME ChainInv, ReturnTypesFollowModes, ReturnStep, chain # <<>>, ~bare \/ ~pc.em
  PROVE  pc' = chain[Depth].pc
<1>1. ExitCall /\ Depth \in DOMAIN chain
  BY ReturnsExit, ExitedPacks
<1>2. Entered(chain[Depth].pc, locals.rt, pc, bare)
  BY <1>1, ReturnTypesByLevel
<1>3. pc \in ProcessControls /\ chain[Depth].pc \in ProcessControls
  BY <1>1, Levels DEF Level, ChainInv, ChainTypeOK, TypeOK
<1>4. \A x, y \in ProcessControls : x.em = y.em /\ x.te = y.te => x = y
  BY DEF ProcessControls
<1>5. CASE ~pc.em \/ locals.rt = 0
  <2>1. pc' = pc
    BY <1>5 DEF ReturnStep, handleLocalReturn, handleFaultReturn, handleSupervisorReturn
  <2>2. pc.em = chain[Depth].pc.em /\ pc.te = chain[Depth].pc.te
    BY <1>2, <1>5 DEF Entered
  <2> QED
    BY <1>3, <1>4, <2>1, <2>2
<1>6. CASE pc.em /\ locals.rt # 0
  <2>1. /\ locals.rt = IF chain[Depth].pc.te THEN 3 ELSE 2
        /\ ~chain[Depth].pc.em
    BY <1>2, <1>6 DEF Entered
  <2>2. locals.rt \in {2, 3}
    BY <2>1
  <2>3. pc' = [em |-> FALSE, te |-> locals.rt = 3]
    BY <1>6, <2>2
       DEF ReturnStep, handleLocalReturn, handleFaultReturn, handleSupervisorReturn
  <2>4. (locals.rt = 3) = chain[Depth].pc.te
    BY <1>3, <2>1 DEF ProcessControls
  <2>5. pc' \in ProcessControls /\ pc'.em = chain[Depth].pc.em /\ pc'.te = chain[Depth].pc.te
    BY <1>3, <2>1, <2>3, <2>4 DEF ProcessControls
  <2> QED
    BY <1>3, <1>4, <2>5
<1> QED
  BY <1>5, <1>6

\* The instructions other than calls and returns stay in their frame.
LEMMA LocalStays ==
  ASSUME LocalStep \/ flushreg
  PROVE  currentFrameIndex' = currentFrameIndex /\ fp' = fp
BY DEF LocalStep, ReservedReturn, WriteLocal, WriteStackPointer, WriteReturnType, modpc,
       StoreBehindRing, flushreg

\* And change the return type only where the convention lets them.
LEMMA LocalEntered ==
  ASSUME ChainInv, ConventionLocal, NEW callerPC, Entered(callerPC, locals.rt, pc, bare)
  PROVE  Entered(callerPC, locals'.rt, pc', bare')
<1>1. /\ currentFrameIndex \in Slots /\ frames \in [Slots -> Pack]
      /\ frames[currentFrameIndex] \in Pack /\ frames[currentFrameIndex].regs \in Locals
  BY InvOfChainInv, CurrentPack DEF Inv, TypeOK
<1>2. ASSUME bare, NEW type \in ReturnTypes, WriteReturnType(type), bare' = (type # 0)
      PROVE  Entered(callerPC, locals'.rt, pc', bare')
  <2>1. locals'.rt = type
    <3> DEFINE regs == [locals EXCEPT !.rt = type]
    <3>1. regs.rt = type
      BY <1>1 DEF Locals, locals
    <3>2. /\ frames' = [frames EXCEPT ![currentFrameIndex].regs = regs]
          /\ currentFrameIndex' = currentFrameIndex
      BY <1>2 DEF WriteReturnType, locals
    <3> HIDE DEF regs
    <3> QED
      BY <1>1, <3>1, <3>2 DEF locals, Pack
  <2>2. pc' = pc
    BY <1>2 DEF WriteReturnType
  <2> QED
    BY <1>2, <2>1, <2>2 DEF Entered
<1>3. CASE (pc.em => locals'.rt = locals.rt) /\ pc' = pc /\ bare' = bare
  BY <1>3 DEF Entered
<1> QED
  BY <1>2, <1>3 DEF ConventionLocal

LEMMA ControlsNext ==
  ASSUME ChainInv, ChainInv', ReturnTypesFollowModes, [ControlledNext]_cvars
  PROVE  ReturnTypesFollowModes'
<1>1. CASE UNCHANGED cvars
  BY <1>1 DEF cvars, hvars, vars, ReturnTypesFollowModes, Depth, locals
<1>2. ReturnTypesFollowModes' <=>
        \A i \in DOMAIN chain' :
          /\ i = Depth' => Entered(chain'[i].pc, locals'.rt, pc', bare')
          /\ i # Depth' => Entered(chain'[i].pc, chain'[i + 1].regs.rt, chain'[i + 1].pc, FALSE)
  BY DEF ReturnTypesFollowModes, Entered
<1>3. CASE ConventionCall /\ AlignedFrame /\ OwnFrame
  <2> DEFINE n == Depth
  <2>1. /\ Entered(pc, locals'.rt, pc', bare')
        /\ frames'[currentFrameIndex].regs.rt = locals.rt
        /\ frames'[currentFrameIndex].regs \in Locals
    BY <1>3, CallEntered
  <2>2. /\ DOMAIN chain' = 1 .. n + 1 /\ DOMAIN chain = 1 .. n
        /\ n \in Nat /\ Depth' = n + 1
        /\ \A i \in 1 .. n : chain'[i] = chain[i]
        /\ chain'[n + 1].pc = pc
        /\ chain'[n + 1].regs.rt = locals.rt
    BY <1>3, <2>1, ChainGrows DEF Depth, ConventionCall
  <2>3. \A i \in 1 .. n :
          /\ i = n => Entered(chain[i].pc, locals.rt, pc, FALSE)
          /\ i # n => Entered(chain[i].pc, chain[i + 1].regs.rt, chain[i + 1].pc, FALSE)
    BY <1>3, <2>2, ReturnTypesByLevel DEF ConventionCall, Entered
  <2> HIDE DEF n
  <2>4. ASSUME NEW i \in 1 .. n + 1
        PROVE  /\ i = n + 1 => Entered(chain'[i].pc, locals'.rt, pc', bare')
               /\ i # n + 1 => Entered(chain'[i].pc, chain'[i + 1].regs.rt, chain'[i + 1].pc, FALSE)
    <3>1. CASE i = n + 1
      BY <2>1, <2>2, <3>1
    <3>2. CASE i = n
      <4>1. n \in 1 .. n /\ n # n + 1
        BY <2>2, <3>2
      <4>2. Entered(chain[n].pc, locals.rt, pc, FALSE)
        BY <2>3, <4>1
      <4>3. /\ chain'[n] = chain[n] /\ chain'[n + 1].regs.rt = locals.rt
            /\ chain'[n + 1].pc = pc
        BY <2>2, <4>1
      <4> QED
        BY <3>2, <4>1, <4>2, <4>3, Zenon
    <3>3. CASE i \in 1 .. n - 1
      <4>1. i \in 1 .. n /\ i # n /\ i + 1 \in 1 .. n /\ i # n + 1
        BY <2>2, <3>3
      <4>2. Entered(chain[i].pc, chain[i + 1].regs.rt, chain[i + 1].pc, FALSE)
        BY <2>3, <4>1
      <4>3. chain'[i] = chain[i] /\ chain'[i + 1] = chain[i + 1]
        BY <2>2, <4>1
      <4> QED
        BY <4>1, <4>2, <4>3, Zenon
    <3>4. i = n + 1 \/ i = n \/ i \in 1 .. n - 1
      BY <2>2
    <3> QED
      BY <3>1, <3>2, <3>3, <3>4, Zenon
  <2> QED
    BY <1>2, <2>2, <2>4
<1>4. CASE ConventionReturn
  <2> DEFINE n == Depth
  <2>1. pc' = chain[n].pc
    BY <1>4, ReturnControls DEF ConventionReturn
  <2>2. locals'.rt = chain[n].regs.rt
    BY <1>4, ReturnsExit, ExitedPacks DEF locals, ConventionReturn
  <2>3. /\ n \in Nat \ {0} /\ DOMAIN chain = 1 .. n
        /\ Depth' = n - 1 /\ DOMAIN chain' = 1 .. n - 1
        /\ \A i \in 1 .. n - 1 : chain'[i] = chain[i]
    BY <1>4, ChainShrinks DEF ConventionReturn
  <2>4. \A i \in 1 .. n :
          i # n => Entered(chain[i].pc, chain[i + 1].regs.rt, chain[i + 1].pc, FALSE)
    BY <2>3, ReturnTypesByLevel
  <2>5. ~bare'
    BY <1>4 DEF ConventionReturn
  <2> HIDE DEF n
  <2>6. ASSUME NEW i \in 1 .. n - 1
        PROVE  /\ i = n - 1 => Entered(chain'[i].pc, locals'.rt, pc', bare')
               /\ i # n - 1 => Entered(chain'[i].pc, chain'[i + 1].regs.rt, chain'[i + 1].pc, FALSE)
    <3>1. i \in 1 .. n /\ i # n
      BY <2>3
    <3>2. Entered(chain[i].pc, chain[i + 1].regs.rt, chain[i + 1].pc, FALSE)
      BY <2>4, <3>1
    <3>3. CASE i = n - 1
      <4>1. i + 1 = n
        BY <2>3, <3>3
      <4>2. Entered(chain'[i].pc, locals'.rt, pc', FALSE)
        BY <2>1, <2>2, <2>3, <3>2, <3>3, <4>1
      <4> QED
        BY <3>3, <4>2, <2>5 DEF Entered
    <3>4. CASE i # n - 1
      <4>1. i + 1 \in 1 .. n - 1
        BY <2>3, <3>4
      <4> QED
        BY <2>3, <3>2, <3>4, <4>1
    <3> QED
      BY <3>3, <3>4
  <2> QED
    BY <1>2, <2>3, <2>6
<1>5. CASE ConventionLocal
  <2>1. chain' = chain
    BY <1>5 DEF ConventionLocal
  <2>2. \A i \in DOMAIN chain :
          /\ i = Depth => Entered(chain[i].pc, locals'.rt, pc', bare')
          /\ i # Depth => Entered(chain[i].pc, chain[i + 1].regs.rt, chain[i + 1].pc, FALSE)
    BY <1>5, LocalEntered, ReturnTypesByLevel
  <2> QED
    BY <1>2, <2>1, <2>2 DEF Depth
<1>6. CASE ConventionFlush
  <2>1. currentFrameIndex \in Slots
    BY InvOfChainInv DEF Inv, TypeOK
  <2>2. locals'.rt = locals.rt /\ pc' = pc /\ UNCHANGED <<chain, bare>>
    BY <1>6, <2>1 DEF ConventionFlush, flushreg, Flushed, locals
  <2> QED
    BY <2>2 DEF ReturnTypesFollowModes, Depth
<1>7. CASE ConventionBoot
  BY <1>2, <1>7 DEF ConventionBoot
<1> QED
  BY <1>1, <1>3, <1>4, <1>5, <1>6, <1>7 DEF ControlledNext

LEMMA ControlledInitChain == ControlledInit => ChainInv
BY BootedChain DEF ControlledInit

LEMMA ControlledInvariant ==
  ControlledSpec => [](ChainInv /\ ReturnTypesFollowModes)
<1>1. ControlledInit => ChainInv /\ ReturnTypesFollowModes
  BY ControlledInitChain DEF ControlledInit, ReturnTypesFollowModes
<1>2. ChainInv /\ ReturnTypesFollowModes /\ [ControlledNext]_cvars
        => (ChainInv /\ ReturnTypesFollowModes)'
  BY ConventionIsDisciplined, ChainNext, ControlsNext
<1> QED
  BY <1>1, <1>2, PTL DEF ControlledSpec

\* Where supervisor procedures that call and callx reach clear their return
\* types first, and none but calls, returns and that writes return types or
\* process controls in supervisor mode, each supervisor procedure's return type
\* says how it was entered.
THEOREM ReturnTypesCorrect == ControlledSpec => []ReturnTypesFollowModes
BY ControlledInvariant, PTL

\* And a return restores the execution mode and the trace flag of the caller,
\* whatever the packs had in them and whatever user procedures write.
THEOREM ControlsRestored == ControlledSpec => ReturnRestoresControls
<1>1. ChainInv /\ ReturnTypesFollowModes /\ [ControlledNext]_cvars =>
        [ReturnStep /\ chain # <<>> => pc' = chain[Depth].pc]_cvars
  <2> SUFFICES ASSUME ChainInv, ReturnTypesFollowModes, ControlledNext,
                      ReturnStep, chain # <<>>
               PROVE  pc' = chain[Depth].pc
    OBVIOUS
  <2>1. currentFrameIndex' # currentFrameIndex
    BY ReturnsExit, InvOfChainInv, CurrentPack DEF ExitCall, Inv
  <2>2. ~ConventionLocal /\ ~ConventionFlush
    BY <2>1, LocalStays DEF ConventionLocal, ConventionFlush, LocalStep
  <2>3. ~bare \/ ~pc.em
    BY <2>2 DEF ControlledNext, ConventionCall, ConventionReturn, ConventionBoot
  <2> QED
    BY <2>3, ReturnControls
<1> QED
  BY <1>1, ControlledInvariant, PTL DEF ControlledSpec, ReturnRestoresControls

-------------------------------------------------------------------------------
(* Tidy programs.                                                            *)

\* A call's frame begins above the stacks of all live procedures.
LEMMA FreshStack ==
  ASSUME ChainInv, TidyInv, NEW newFP \in Nat, Placed(newFP)
  PROVE  /\ newFP % 64 = 0
         /\ locals.sp <= newFP
         /\ \A i \in DOMAIN chain : chain[i].regs.sp <= newFP
<1>1. /\ locals.sp \in Nat /\ fp \in Nat /\ SupervisorStack \in Nat
      /\ \A i \in DOMAIN chain : chain[i].regs.sp \in Nat
  <2>1. locals \in Locals /\ fp \in Nat
    BY InvOfChainInv, CurrentPack DEF Inv, TypeOK
  <2> QED
    BY <2>1, Levels, StackAssumption DEF Locals
<1>2. newFP % 64 = 0 /\ locals.sp <= newFP
  <2>1. CASE newFP = RoundToFrame(locals.sp)
    <3>1. RoundToFrame(locals.sp) % 64 = 0 /\ locals.sp <= RoundToFrame(locals.sp)
      BY <1>1, FrameAddressing
    <3> QED
      BY <2>1, <3>1
  <2>2. CASE newFP = SupervisorStack /\ ~pc.em
    <3>1. SupervisorStack % 64 = 0 /\ BelowSupervisorStack
      BY DEF TidyInv
    <3> QED
      BY <2>2, <3>1 DEF BelowSupervisorStack
  <2> QED
    BY <2>1, <2>2 DEF Placed
<1>3. \A i \in DOMAIN chain : chain[i].regs.sp <= locals.sp
  BY <1>1 DEF TidyInv, StacksInOrder, AboveRegisters
<1> QED
  BY <1>1, <1>2, <1>3

\* So a tidy program's calls are those of a disciplined one.
LEMMA TidyCall ==
  ASSUME ChainInv, TidyInv, CallStep
  PROVE  \E newFP \in Nat, returnAddress \in Nat, returnType \in 0 .. 7 :
           /\ Placed(newFP) /\ EnterCall(newFP, returnAddress, returnType)
           /\ AlignedFrame /\ OwnFrame
<1>1. Inv /\ ip \in Nat
  BY InvOfChainInv DEF Inv, TypeOK
<1>2. PICK newFP \in Nat, returnAddress \in {ip + 4, ip + 8}, returnType \in 0 .. 7 :
        Placed(newFP) /\ EnterCall(newFP, returnAddress, returnType)
  BY <1>1, CallsPlaceFrame
<1>3. returnAddress \in Nat
  BY <1>1
<1>4. frames'[currentFrameIndex'].fpa = newFP
  BY <1>1, <1>2, <1>3, EnteredFrame
<1>5. /\ newFP % 64 = 0 /\ locals.sp <= newFP
      /\ \A i \in DOMAIN chain : chain[i].regs.sp <= newFP
  BY <1>2, FreshStack
<1>6. /\ locals.sp \in Nat /\ fp \in Nat /\ ProperFramePointer(fp) = fp
      /\ \A i \in DOMAIN chain : chain[i].regs.sp \in Nat /\ chain[i].fp \in Nat
  <2>1. locals \in Locals /\ fp \in Nat /\ fp % 64 = 0
    BY <1>1, CurrentPack DEF Inv, TypeOK, ChainInv, FramesApart
  <2> QED
    BY <2>1, Levels, AlignedAddresses DEF Locals
<1>7. ~Overlap(ProperFramePointer(fp), newFP)
  BY <1>5, <1>6 DEF Overlap, TidyInv, AboveRegisters
<1>8. \A i \in DOMAIN chain : ~Overlap(chain[i].fp, newFP)
  BY <1>5, <1>6 DEF Overlap, TidyInv, StacksInOrder
<1>9. AlignedFrame /\ OwnFrame
  BY <1>4, <1>5, <1>7, <1>8 DEF AlignedFrame, OwnFrame, LiveFrames
<1> QED
  BY <1>2, <1>3, <1>9

LEMMA TidyCallKeeps ==
  ASSUME ChainInv, TidyInv, CallStep, BelowSupervisorStack', Grow
  PROVE  TidyInv'
<1> DEFINE n == Depth
<1>1. PICK newFP \in Nat, returnAddress \in Nat, returnType \in 0 .. 7 :
        Placed(newFP) /\ EnterCall(newFP, returnAddress, returnType)
  BY TidyCall
<1>2. /\ newFP % 64 = 0 /\ locals.sp <= newFP
      /\ \A i \in DOMAIN chain : chain[i].regs.sp <= newFP
  BY <1>1, FreshStack
<1>3. /\ fp' = newFP /\ currentFrameIndex' = nextPack
      /\ frames'[nextPack].regs.sp = newFP + 64
      /\ frames'[currentFrameIndex].regs \in Locals
      /\ frames'[currentFrameIndex].regs = [locals EXCEPT !.rip = returnAddress]
  BY <1>1, <1>2, EnteredPacks
<1>4. locals \in Locals /\ fp \in Nat
  BY InvOfChainInv, CurrentPack DEF Inv, TypeOK
<1>5. frames'[currentFrameIndex].regs.sp = locals.sp
  BY <1>3, <1>4 DEF Locals
<1>6. /\ DOMAIN chain' = 1 .. n + 1 /\ DOMAIN chain = 1 .. n /\ n \in Nat
      /\ \A i \in 1 .. n : chain'[i] = chain[i]
      /\ chain'[n + 1].fp = fp /\ chain'[n + 1].pc = pc
      /\ chain'[n + 1].regs.sp = locals.sp
  <2>1. /\ DOMAIN chain' = 1 .. n + 1 /\ DOMAIN chain = 1 .. n /\ n \in Nat
        /\ \A i \in 1 .. n : chain'[i] = chain[i]
        /\ chain'[n + 1] = [fp |-> fp, slot |-> currentFrameIndex,
                            regs |-> frames'[currentFrameIndex].regs, pc |-> pc]
    BY <1>3, ChainGrows
  <2> HIDE DEF n
  <2> QED
    BY <1>5, <2>1
<1>7. \A i \in 1 .. n :
        /\ chain[i].fp + 64 <= chain[i].regs.sp
        /\ chain[i].regs.sp <= fp
        /\ \A j \in 1 .. n : i < j => chain[i].regs.sp <= chain[j].fp
        /\ ~chain[i].pc.em => chain[i].regs.sp <= SupervisorStack
  BY <1>6 DEF TidyInv, StacksInOrder
<1> HIDE DEF n
<1>8. locals'.sp = newFP + 64 /\ AboveRegisters'
  BY <1>3 DEF AboveRegisters, locals
<1>9. fp + 64 <= locals.sp /\ (~pc.em => locals.sp <= SupervisorStack)
  BY DEF TidyInv, AboveRegisters, BelowSupervisorStack
<1>10. StacksInOrder'
  <2> SUFFICES ASSUME NEW i \in 1 .. n + 1
               PROVE  /\ chain'[i].fp + 64 <= chain'[i].regs.sp
                      /\ chain'[i].regs.sp <= newFP
                      /\ \A j \in 1 .. n + 1 : i < j => chain'[i].regs.sp <= chain'[j].fp
    BY <1>3, <1>6 DEF StacksInOrder
  <2>1. CASE i = n + 1
    BY <2>1, <1>2, <1>6, <1>9
  <2>2. CASE i \in 1 .. n
    <3>1. ASSUME NEW j \in 1 .. n + 1, i < j
          PROVE  chain'[i].regs.sp <= chain'[j].fp
      <4>1. CASE j = n + 1
        BY <4>1, <2>2, <1>6, <1>7
      <4>2. CASE j \in 1 .. n
        BY <3>1, <4>2, <2>2, <1>6, <1>7
      <4> QED
        BY <4>1, <4>2, <1>6
    <3> QED
      BY <2>2, <3>1, <1>2, <1>6, <1>7
  <2> QED
    BY <2>1, <2>2, <1>6
<1>11. \A i \in 1 .. n + 1 : ~chain'[i].pc.em => chain'[i].regs.sp <= SupervisorStack
  <2> TAKE i \in 1 .. n + 1
  <2>1. CASE i = n + 1
    BY <2>1, <1>6, <1>9
  <2>2. CASE i \in 1 .. n
    BY <2>2, <1>6, <1>7
  <2> QED
    BY <2>1, <2>2, <1>6
<1> QED
  BY <1>6, <1>8, <1>10, <1>11 DEF TidyInv

LEMMA TidyReturnKeeps ==
  ASSUME ChainInv, ReturnTypesFollowModes, TidyInv, ConventionReturn
  PROVE  TidyInv'
<1> DEFINE n == Depth
<1> USE DEF ConventionReturn
<1>1. /\ n \in Nat \ {0} /\ DOMAIN chain = 1 .. n
      /\ DOMAIN chain' = 1 .. n - 1
      /\ \A i \in 1 .. n - 1 : chain'[i] = chain[i]
  BY ChainShrinks
<1>2. fp' = chain[n].fp /\ locals'.sp = chain[n].regs.sp
  BY ReturnsExit, ExitedPacks DEF locals
<1>3. pc' = chain[n].pc
  BY ReturnControls
<1> HIDE DEF ConventionReturn
<1>4. \A i \in 1 .. n :
        /\ chain[i].fp + 64 <= chain[i].regs.sp
        /\ \A j \in 1 .. n : i < j => chain[i].regs.sp <= chain[j].fp
        /\ ~chain[i].pc.em => chain[i].regs.sp <= SupervisorStack
  BY <1>1 DEF TidyInv, StacksInOrder
<1> HIDE DEF n
<1>5. AboveRegisters' /\ BelowSupervisorStack'
  BY <1>1, <1>2, <1>3, <1>4 DEF AboveRegisters, BelowSupervisorStack
<1>6. \A i \in 1 .. n - 1 : i \in 1 .. n /\ n \in 1 .. n /\ i < n
  BY <1>1
<1>7. StacksInOrder'
  BY <1>1, <1>2, <1>4, <1>6 DEF StacksInOrder
<1> QED
  BY <1>1, <1>4, <1>5, <1>6, <1>7 DEF TidyInv

\* The steps that leave chain and frame pointer as they are.
LEMMA TidyLocalKeeps ==
  ASSUME TidyInv, UNCHANGED <<chain, fp>>, AboveRegisters', BelowSupervisorStack'
  PROVE  TidyInv'
BY DEF TidyInv, StacksInOrder

LEMMA TidyFlushKeeps ==
  ASSUME ChainInv, TidyInv, flushreg, UNCHANGED chain
  PROVE  TidyInv'
<1>1. currentFrameIndex \in Slots
  BY InvOfChainInv DEF Inv, TypeOK
<1>2. locals' = locals /\ UNCHANGED <<fp, pc>>
  BY <1>1 DEF flushreg, Flushed, locals
<1> QED
  BY <1>2, TidyLocalKeeps DEF TidyInv, AboveRegisters, BelowSupervisorStack

LEMMA BootedTidy ==
  ASSUME InterruptStack + 64 <= SupervisorStack, SupervisorStack % 64 = 0,
         frames = BootFrames, currentFrameIndex = 0, fp = FramePointerOf(InterruptStack),
         chain = <<>>
  PROVE  TidyInv
<1>1. fp = InterruptStack
  BY StackAssumption, AlignedAddresses
<1>2. locals.sp = InterruptStack + 64
  BY RingAssumption DEF locals, BootFrames, BootFrame, Slots
<1> QED
  BY <1>1, <1>2, StackAssumption
     DEF TidyInv, AboveRegisters, BelowSupervisorStack, StacksInOrder

\* A step of a tidy program is one of a disciplined program, and keeps TidyInv.
LEMMA TidyStep ==
  ASSUME ChainInv, ReturnTypesFollowModes, TidyInv, [TidyNext]_cvars
  PROVE  [ControlledNext]_cvars /\ TidyInv'
<1>1. CASE UNCHANGED cvars
  BY <1>1 DEF cvars, hvars, vars, TidyInv, AboveRegisters, BelowSupervisorStack,
              StacksInOrder, locals
<1>2. CASE ConventionCall /\ BelowSupervisorStack'
  <2>1. CallStep /\ Grow
    BY <1>2 DEF ConventionCall, CallStep
  <2>2. AlignedFrame /\ OwnFrame
    BY <2>1, TidyCall
  <2> QED
    BY <1>2, <2>1, <2>2, TidyCallKeeps DEF ControlledNext
<1>3. CASE ConventionReturn
  BY <1>3, TidyReturnKeeps DEF ControlledNext
<1>4. CASE ConventionLocal /\ AboveRegisters' /\ BelowSupervisorStack'
  <2>1. UNCHANGED <<chain, fp>>
    BY <1>4, LocalStays DEF ConventionLocal, LocalStep
  <2> QED
    BY <1>4, <2>1, TidyLocalKeeps DEF ControlledNext
<1>5. CASE ConventionFlush
  BY <1>5, TidyFlushKeeps DEF ControlledNext, ConventionFlush
<1>6. CASE ConventionBoot
  <2>1. TidyInv'
    <3>1. /\ frames' = BootFrames /\ currentFrameIndex' = 0
          /\ fp' = InterruptStack /\ DOMAIN chain' = {}
      BY <1>6, StackAssumption, AlignedAddresses
         DEF ConventionBoot, BootStep, reinitializeProcessor
    <3>2. locals'.sp = InterruptStack + 64
      BY <3>1, RingAssumption DEF locals, BootFrames, BootFrame, Slots
    <3>3. /\ AboveRegisters' /\ BelowSupervisorStack' /\ StacksInOrder'
      BY <3>1, <3>2, StackAssumption
         DEF TidyInv, AboveRegisters, BelowSupervisorStack, StacksInOrder
    <3> QED
      BY <3>1, <3>3 DEF TidyInv
  <2> QED
    BY <1>6, <2>1 DEF ControlledNext
<1> QED
  BY <1>1, <1>2, <1>3, <1>4, <1>5, <1>6 DEF TidyNext

LEMMA TidyInitial ==
  TidyInit => ControlledInit /\ ChainInv /\ ReturnTypesFollowModes /\ TidyInv
BY BootedTidy, ControlledInitChain
   DEF TidyInit, ControlledInit, Booted, ReturnTypesFollowModes

LEMMA TidyNextInv ==
  /\ ChainInv /\ ReturnTypesFollowModes /\ TidyInv
  /\ [TidyNext]_cvars
  => /\ [ControlledNext]_cvars
     /\ ChainInv' /\ ReturnTypesFollowModes' /\ TidyInv'
<1> SUFFICES ASSUME ChainInv, ReturnTypesFollowModes, TidyInv, [TidyNext]_cvars
             PROVE  /\ [ControlledNext]_cvars
                    /\ ChainInv' /\ ReturnTypesFollowModes' /\ TidyInv'
  OBVIOUS
<1>1. [ControlledNext]_cvars /\ TidyInv'
  BY TidyStep
<1>2. ChainInv'
  BY <1>1, ConventionIsDisciplined, ChainNext
<1> QED
  BY <1>1, <1>2, ControlsNext

\* A program needs to know nothing of the frames above its own to be
\* disciplined: stack pointers above the register area, and user stacks that
\* end below the supervisor's, are enough.
THEOREM TidyDisciplined == TidySpec => TidyIsDisciplined
BY TidyInitial, TidyNextInv, PTL DEF TidySpec, TidyIsDisciplined, ControlledSpec

\* And then no frame is ever put on the stack of a live procedure, in user and
\* in supervisor mode.
THEOREM StacksOrdered == TidySpec => []StacksInOrder
<1>1. TidyInv => StacksInOrder
  BY DEF TidyInv
<1> QED
  BY <1>1, TidyInitial, TidyNextInv, PTL DEF TidySpec

\* Whatever it calls, and in whichever mode, a tidy program gets back its frame,
\* its registers, its place in the code, its mode and its trace flag.
THEOREM TidyReturnsRestore == TidySpec => ReturnRestoresCaller /\ ReturnRestoresControls
<1>1. ChainInv =>
        [ReturnStep /\ chain # <<>> =>
           /\ fp' = chain[Depth].fp
           /\ frames'[currentFrameIndex'].regs = chain[Depth].regs
           /\ ip' = chain[Depth].regs.rip]_hvars
  BY ReturnsExit, ExitedPacks
<1>2. TidySpec => ControlledSpec
  BY TidyInitial, TidyNextInv, PTL DEF TidySpec, ControlledSpec
<1> QED
  BY <1>1, <1>2, ControlledInvariant, ControlsRestored, PTL DEF ReturnRestoresCaller
===============================================================================
