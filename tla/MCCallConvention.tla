--------------------------- MODULE MCCallConvention ---------------------------
(*****************************************************************************)
(* Values for the constants of CallConvention.                               *)
(*****************************************************************************)
EXTENDS CallConvention

\* What a restore finds where no frame lies: a frame of another shape.
MCJunk == {[pfp |-> 64, rt |-> 0, sp |-> 128, rip |-> 0, data |-> 0]}

\* The words below a frame that was not made by a fault or an interrupt.
MCSavedControls == {[pc |-> [em |-> FALSE, te |-> FALSE], ac |-> 1]}

\* A program's data that looks like a pack.
MCStrayBytes == {[valid |-> TRUE, fpa |-> 128]}
===============================================================================
