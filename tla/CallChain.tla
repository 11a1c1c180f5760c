------------------------------ MODULE CallChain -------------------------------
(*****************************************************************************)
(* What the frame cache is for: the chain of suspended callers.  A history   *)
(* variable remembers, for each procedure that has called and not been       *)
(* returned to, its frame's address, the pack it ran in, its registers and   *)
(* its process controls; the properties relate the packs and the memory of   *)
(* RegisterFrames to it.                                                     *)
(*                                                                           *)
(* The properties are about disciplined programs: a new frame is aligned     *)
(* and lies on no live one, the boot procedure does not return, and a flush  *)
(* past the ring finds nothing that looks like a pack.  The runs without     *)
(* the discipline show what each of these is needed for.                     *)
(*****************************************************************************)
EXTENDS RegisterFrames, Sequences

VARIABLE chain  \* the suspended callers, the latest last

hvars == <<vars, chain>>

Level == [fp : Nat, slot : Slots, regs : Locals, pc : ProcessControls]

LiveFrames == {chain[i].fp : i \in DOMAIN chain} \union {ProperFramePointer(fp)}

Grow ==
  chain' = Append(chain, [fp |-> ProperFramePointer(fp), slot |-> currentFrameIndex,
                          regs |-> frames'[currentFrameIndex].regs, pc |-> pc])

Shrink == chain' = IF chain = <<>> THEN <<>> ELSE SubSeq(chain, 1, Len(chain) - 1)

HInit == Init /\ chain = <<>>

-------------------------------------------------------------------------------

\* The new frame is aligned.  Frames end 64 bytes on, so aligned ones overlap
\* only when they are the same.
AlignedFrame == frames'[currentFrameIndex'].fpa % 64 = 0

OwnFrame == \A a \in LiveFrames : ~Overlap(a, frames'[currentFrameIndex'].fpa)

\* A flush past the ring saves nothing.
NothingBehind == PastTheRing => ~behind.valid

DisciplinedNext ==
  \/ CallStep /\ AlignedFrame /\ OwnFrame /\ Grow
  \/ ReturnStep /\ chain # <<>> /\ Shrink
  \/ LocalStep /\ UNCHANGED chain
  \/ flushreg /\ NothingBehind /\ UNCHANGED chain
  \/ BootStep /\ chain' = <<>>

DisciplinedSpec == HInit /\ [][DisciplinedNext]_hvars

\* The same program with a supervisor stack pointer that has its trace bit set,
\* and without the instructions that write return types and process controls.
TracingNext ==
  \/ CallStep /\ OwnFrame /\ Grow
  \/ handleLocalReturn /\ chain # <<>> /\ Shrink
  \/ handleSupervisorReturn /\ chain # <<>> /\ Shrink

TracingSpec == HInit /\ [][TracingNext]_hvars

-------------------------------------------------------------------------------

Depth == Len(chain)

\* Pack p holds the frame of level i as it was suspended.
HeldIn(p, i) == /\ p # currentFrameIndex
                /\ frames[p].valid
                /\ frames[p].fpa = chain[i].fp
                /\ frames[p].regs = chain[i].regs

SavedInMemory(i) == /\ chain[i].fp \in DOMAIN mem
                    /\ mem[chain[i].fp] = chain[i].regs

ChainTypeOK == TypeOK /\ chain \in Seq(Level)

\* The running pack is tagged with the frame pointer.
CurrentPackIsCurrent ==
  /\ frames[currentFrameIndex].valid
  /\ frames[currentFrameIndex].fpa = fp

\* A pack is never a leftover: each valid one beside the current holds the
\* latest suspended caller that ran in it, unchanged, under its address.
PacksHoldLatestCallers ==
  \A p \in Slots \ {currentFrameIndex} :
    frames[p].valid =>
      \E i \in DOMAIN chain :
        /\ chain[i].slot = p
        /\ HeldIn(p, i)
        /\ \A j \in DOMAIN chain : chain[j].slot = p => j <= i

\* No suspended frame is lost: it is in a pack or in memory as it was left.
EveryCallerIsHeld ==
  \A i \in DOMAIN chain : HeldIn(chain[i].slot, i) \/ SavedInMemory(i)

\* r0 links the frames in the order of the calls, and the ring goes around in
\* that order.
LinksFollowChain ==
  \A i \in DOMAIN chain :
    LET callee == IF i = Depth
                  THEN [slot |-> currentFrameIndex, pfp |-> locals.pfp]
                  ELSE [slot |-> chain[i + 1].slot, pfp |-> chain[i + 1].regs.pfp]
    IN /\ callee.pfp = chain[i].fp
       /\ callee.slot = (chain[i].slot + 1) % NumRegisterFrames

\* Live frames lie on aligned addresses, no two on the same.
FramesApart ==
  /\ fp % 64 = 0
  /\ \A i \in DOMAIN chain :
       /\ chain[i].fp % 64 = 0
       /\ chain[i].fp # fp
       /\ \A j \in DOMAIN chain : chain[i].fp = chain[j].fp => i = j

\* What a step of a disciplined program keeps.
ChainInv ==
  /\ ChainTypeOK
  /\ CurrentPackIsCurrent
  /\ FramesApart
  /\ LinksFollowChain
  /\ PacksHoldLatestCallers
  /\ EveryCallerIsHeld

\* What ret is for: the caller goes on after its call, with the registers it
\* had, however often its pack was taken from it in the meantime.
ReturnRestoresCaller ==
  [][ReturnStep /\ chain # <<>> =>
       /\ fp' = chain[Depth].fp
       /\ frames'[currentFrameIndex'].regs = chain[Depth].regs
       /\ ip' = chain[Depth].regs.rip]_hvars

\* flushreg brings the stack in memory up to date, from any pack but the last.
FlushSavesCallers ==
  [][flushreg /\ ~PastTheRing =>
       \A i \in DOMAIN chain : /\ chain[i].fp \in DOMAIN mem'
                               /\ mem'[chain[i].fp] = chain[i].regs]_hvars

-------------------------------------------------------------------------------
(* What the source says of itself.                                           *)

\* Core.cc:305: flushreg clears "all registers except the current one".
FlushClearsAllButCurrent ==
  [][flushreg => \A p \in Slots \ {currentFrameIndex} : ~frames'[p].valid]_hvars

\* Core.h:149: of a pack taken for a new frame, "the instruction contents will
\* be responsible for populating this back up": call is a local call, and its
\* frame says so.
CallPopulatesReturnType ==
  [][\A target \in Procedures :
       call(target) => frames'[currentFrameIndex'].regs.rt = 0]_hvars

\* Core.cc:536: "a given number of bits needs to be ignored when dealing with
\* the frame pointer", so a frame that was entered through an address with the
\* trace bit set is found again after it has called something.
FramePointerBitsIgnored ==
  [][ReturnStep /\ chain # <<>> =>
       frames'[currentFrameIndex'].regs = chain[Depth].regs]_hvars

-------------------------------------------------------------------------------

\* The program's view: a stack of activations, with no packs and no memory.
callerRegs == [i \in DOMAIN chain |-> chain[i].regs]

Abstract == INSTANCE ProcedureStack WITH stack <- callerRegs, regs <- locals

ImplementsProcedureStack == Abstract!Spec
===============================================================================
