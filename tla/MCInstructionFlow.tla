-------------------------- MODULE MCInstructionFlow ---------------------------
(*****************************************************************************)
(* A space of four words, two registers, and instructions of every kind.     *)
(*****************************************************************************)
EXTENDS InstructionFlow

\* An instruction with the fields that its op does not have left at zero.
Blank(op) ==
  [op |-> op, mask |-> {}, disp |-> 0, mode |-> "AbsoluteOffset", abase |-> "g0",
   index |-> "g0", scale |-> 1, src1 |-> "g0", src2 |-> "g14", dest |-> "g0"]

MCInstructions ==
  {[Blank(op) EXCEPT !.disp = disp] : op \in {"b", "bal"}, disp \in {-8, 4}}
    \union {[Blank(op) EXCEPT !.mask = mask, !.disp = 8]
            : op \in {"condBranch", "cmpobx", "cmpibx"}, mask \in SUBSET Bits}
    \union {[Blank(op) EXCEPT !.mask = mask] : op \in {"condFault", "testOp"},
                                               mask \in SUBSET Bits}
    \union {[Blank(op) EXCEPT !.disp = 8] : op \in {"bbc", "bbs"}}
    \union {Blank(op) : op \in {"cmpo", "cmpi", "mark", "fmark"}}
    \union {[Blank("bx") EXCEPT !.mode = "RegisterIndirect", !.abase = base]
            : base \in {"g0", "g14"}}
    \union {[Blank("balx") EXCEPT !.mode = mode, !.disp = 4, !.scale = 4, !.index = "g14"]
            : mode \in MEMFormatMode}
    \union {[Blank("lda") EXCEPT !.mode = mode, !.disp = 12] : mode \in MEMFormatMode}
    \union {[Blank(op) EXCEPT !.mode = mode] : op \in {"load", "store"},
                                               mode \in {"AbsoluteOffset", "IPWithDisplacement"}}
====
