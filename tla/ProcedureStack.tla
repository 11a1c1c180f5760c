---------------------------- MODULE ProcedureStack ----------------------------
(*****************************************************************************)
(* What the frame cache promises a program, without packs and without the    *)
(* stack in memory: every activation has local registers of its own, a call  *)
(* suspends them as they are but for the return address it writes in rip,    *)
(* and a return gives them back.  Cf. the instructions call, callx, calls    *)
(* and ret of src/src/Core.cc.                                               *)
(*****************************************************************************)
EXTENDS Sequences, Integers

CONSTANT Locals

VARIABLES
  stack,  \* the suspended activations' registers, the latest last
  regs,   \* the running activation's registers
  ip

avars == <<stack, regs, ip>>

Init ==
  /\ stack = <<>>
  /\ regs \in Locals
  /\ ip \in Nat

\* The call is one or two words long; the callee's registers start with
\* anything in them.
Call ==
  /\ \E returnAddress \in {ip + 4, ip + 8} :
       stack' = Append(stack, [regs EXCEPT !.rip = returnAddress])
  /\ regs' \in Locals
  /\ ip' \in Nat

Return ==
  /\ stack # <<>>
  /\ regs' = stack[Len(stack)]
  /\ ip' = regs'.rip
  /\ stack' = SubSeq(stack, 1, Len(stack) - 1)

\* Only calls, returns and resets write the link to the caller.
Work ==
  /\ regs' \in Locals
  /\ regs'.pfp = regs.pfp
  /\ ip' \in Nat
  /\ UNCHANGED stack

Reset ==
  /\ regs' \in Locals
  /\ ip' \in Nat
  /\ stack' = <<>>

Next == Call \/ Return \/ Work \/ Reset

Spec == Init /\ [][Next]_avars
===============================================================================
