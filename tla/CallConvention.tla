---------------------------- MODULE CallConvention ----------------------------
(*****************************************************************************)
(* Programs that keep a convention, and what they get for it: execution      *)
(* mode and trace flag come back with every return, and frames stay apart.   *)
(*                                                                           *)
(* calls writes the return type of the frame it makes.  call and callx leave *)
(* the one that the pack's former frame had (Core.cc:367, 389).  In user     *)
(* mode no return type changes the controls, but in supervisor mode a        *)
(* leftover does: a supervisor procedure reached by call or callx has to     *)
(* clear its return type before it calls or returns, and no other supervisor *)
(* procedure writes its own.  None writes process controls with modpc or     *)
(* asks for a reset.  A history variable remembers who has yet to clear.     *)
(*****************************************************************************)
EXTENDS CallChain

VARIABLE bare  \* a supervisor procedure runs that was reached by call or
               \* callx, and has not cleared its return type

cvars == <<hvars, bare>>

\* The program has an instruction that clears a return type.
ASSUME ConventionAssumption == 0 \in ReturnTypes

ConventionCall ==
  /\ ~bare
  /\ \/ PlainCall /\ bare' = pc.em
     \/ SystemCall /\ bare' = FALSE
  /\ Grow

ConventionReturn == ~bare /\ ReturnStep /\ chain # <<>> /\ Shrink /\ UNCHANGED bare

ConventionLocal ==
  /\ \/ bare /\ \E type \in ReturnTypes : WriteReturnType(type) /\ bare' = (type # 0)
     \/ LocalStep /\ (pc.em => locals'.rt = locals.rt) /\ pc' = pc /\ bare' = bare
  /\ UNCHANGED chain

ConventionFlush == flushreg /\ NothingBehind /\ UNCHANGED <<chain, bare>>

ConventionBoot == BootStep /\ ~pc.em /\ chain' = <<>> /\ bare' = FALSE

\* boot0 keeps pc, so the processor may start over with tracing enabled.
ControlledInit ==
  /\ Booted /\ chain = <<>> /\ bare = FALSE
  /\ pc \in ProcessControls /\ ~pc.em

\* With the discipline of CallChain: new frames are apart from live ones.
ControlledNext ==
  \/ ConventionCall /\ AlignedFrame /\ OwnFrame
  \/ ConventionReturn \/ ConventionLocal \/ ConventionFlush \/ ConventionBoot

ControlledSpec == ControlledInit /\ [][ControlledNext]_cvars

\* With no knowledge of the frames above one's own.  A procedure keeps its
\* stack pointer above its register area and, in user mode, below the
\* supervisor stack, which is aligned and lies above the first frame.
BelowSupervisorStack == ~pc.em => locals.sp <= SupervisorStack

AboveRegisters == fp + 64 <= locals.sp

TidyInit == /\ ControlledInit
            /\ SupervisorStack % 64 = 0
            /\ InterruptStack + 64 <= SupervisorStack

TidyNext ==
  \/ ConventionCall /\ BelowSupervisorStack'
  \/ ConventionLocal /\ AboveRegisters' /\ BelowSupervisorStack'
  \/ ConventionReturn \/ ConventionFlush \/ ConventionBoot

TidySpec == TidyInit /\ [][TidyNext]_cvars

-------------------------------------------------------------------------------

\* A supervisor procedure's return type says how it was entered: one of the two
\* supervisor types if from user mode, with the trace flag the caller had; the
\* local type if from supervisor mode.  Only who has yet to clear his may have
\* any.  A user procedure was always entered from user mode.
ReturnTypesFollowModes ==
  \A i \in DOMAIN chain :
    LET rt == IF i = Depth THEN locals.rt ELSE chain[i + 1].regs.rt
        em == IF i = Depth THEN pc.em ELSE chain[i + 1].pc.em
        te == IF i = Depth THEN pc.te ELSE chain[i + 1].pc.te
    IN IF ~em \/ rt = 0 \/ (i = Depth /\ bare)
       THEN em = chain[i].pc.em /\ te = chain[i].pc.te
       ELSE ~chain[i].pc.em /\ rt = IF chain[i].pc.te THEN 3 ELSE 2

\* So a return puts mode and trace flag back to what they were at the call.
ReturnRestoresControls ==
  [][ReturnStep /\ chain # <<>> => pc' = chain[Depth].pc]_cvars

\* The stack a procedure had when it called, from its frame to its stack
\* pointer, lies below every frame that has been made since.
StacksInOrder ==
  \A i \in DOMAIN chain :
    /\ chain[i].fp + 64 <= chain[i].regs.sp
    /\ chain[i].regs.sp <= fp
    /\ \A j \in DOMAIN chain : i < j => chain[i].regs.sp <= chain[j].fp

\* What a step of a tidy program keeps, beside ChainInv and
\* ReturnTypesFollowModes.
TidyInv ==
  /\ SupervisorStack % 64 = 0 /\ InterruptStack + 64 <= SupervisorStack
  /\ AboveRegisters
  /\ BelowSupervisorStack
  /\ StacksInOrder
  /\ \A i \in DOMAIN chain : ~chain[i].pc.em => chain[i].regs.sp <= SupervisorStack

\* The steps of a tidy program are disciplined ones: no frame it makes lies on a
\* live one, no second frame is put at the supervisor stack pointer while one
\* is live, and the supervisor's stack is not run into.
TidyIsDisciplined == ControlledSpec
===============================================================================
