------------------------------ MODULE FlatMemory ------------------------------
(*****************************************************************************)
(* What the memory system promises: one array of bytes, of which stores      *)
(* leave some alone.  An access names a range of it and moves the bytes of   *)
(* the range in order, some at a time.                                       *)
(*****************************************************************************)
EXTENDS Integers

CONSTANTS
  Bytes,      \* what a byte may hold
  SpaceSize,  \* addresses are 0 .. SpaceSize - 1 and wrap
  Memory,     \* the addresses that are memory
  ReadOnly,   \* those of them that stores leave alone
  Longest     \* the longest access

VARIABLES
  memory,  \* the byte at each address of Memory
  access   \* the access under way, or the last one

flatVars == <<memory, access>>

Wrap(address) == address % SpaceSize

\* How far an address lies behind the start of the access.
Offset(address) == Wrap(address - access.base)

Begin ==
  /\ access.op = "idle"
  /\ \E size \in 1 .. Longest :
       /\ access' \in [op : {"load", "store"}, base : 0 .. SpaceSize - 1, unit : 1 .. size,
                      size : {size}, done : {0}, data : [0 .. size - 1 -> Bytes]]
       /\ \A i \in 0 .. size - 1 : Wrap(access'.base + i) \in Memory
  /\ UNCHANGED memory

\* The next n bytes of a load.
Load(n) ==
  /\ access.op = "load"
  /\ access.done + n <= access.size
  /\ access' = [access EXCEPT
       !.done = access.done + n,
       !.data = [i \in 0 .. access.size - 1 |->
                   IF i \in access.done .. access.done + n - 1
                   THEN memory[Wrap(access.base + i)]
                   ELSE access.data[i]]]
  /\ UNCHANGED memory

\* The next n bytes of a store.
Store(n) ==
  /\ access.op = "store"
  /\ access.done + n <= access.size
  /\ access' = [access EXCEPT !.done = access.done + n]
  /\ memory' = [a \in Memory |->
       IF Offset(a) \in access.done .. access.done + n - 1 /\ a \notin ReadOnly
       THEN access.data[Offset(a)]
       ELSE memory[a]]

Complete ==
  /\ access.op # "idle"
  /\ access.done = access.size
  /\ access' = [access EXCEPT !.op = "idle"]
  /\ UNCHANGED memory

FlatInit ==
  /\ memory \in [Memory -> Bytes]
  /\ access.op = "idle"

FlatNext == Begin \/ Complete \/ \E n \in 1 .. Longest : Load(n) \/ Store(n)

FlatSpec == FlatInit /\ [][FlatNext]_flatVars
====
