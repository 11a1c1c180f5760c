----------------------------- MODULE MCMemoryBus ------------------------------
(*****************************************************************************)
(* A small memory for MemoryBus: windows of 8 bytes, regions of 16 bytes,    *)
(* two of them external.                                                     *)
(*****************************************************************************)
EXTENDS MemoryBus

\* A byte, a short, a word, a long, a triple and a quad of words, scaled to
\* half of the code's sizes but for the byte.
Shapes == {<<1, 1>>, <<2, 2>>, <<4, 4>>, <<2, 6>>, <<4, 8>>}

Access(op, base, shape, seed) ==
  [op |-> op, base |-> base, unit |-> shape[1], size |-> shape[2], done |-> 0,
   data |-> [i \in 0 .. shape[2] - 1 |-> (seed + i) % 3]]

MCBootImage == <<1, 2, 1>>
MCFreshMemory == [a \in Addresses |-> 0]
MCFreshEEPROM == [i \in 0 .. 3 |-> i % 3]

\* Loads and stores of every shape over the banks, and the memory inside.
MemoryAccesses ==
  {Access("load", base, shape, 0) : base \in {0, 4, 12, 28, 32, 47, 49, 60, 66, 69, 92, 95},
                                    shape \in Shapes}
    \union {Access("store", base, shape, 1) : base \in {4, 24}, shape \in {<<1, 1>>, <<4, 8>>}}
    \union {Access("store", base, <<2, 6>>, 1) : base \in {58, 67}}
    \union {Access("store", 92, <<4, 4>>, 2)}
====
