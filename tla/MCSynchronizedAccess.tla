------------------------- MODULE MCSynchronizedAccess -------------------------
(*****************************************************************************)
(* Memory of 32 words: a boot record, messages, and the words that the       *)
(* interrupt control register and the messages have.                         *)
(*****************************************************************************)
EXTENDS SynchronizedAccess

MCTypes ==
  [v \in Value |->
     CASE v = 1 -> "reinitialize" [] v = 2 -> "store system base" [] v = 3 -> "boot"
       [] v = 5 -> "checksum fail" [] OTHER -> "no effect"]

\* A boot record; a message to reinitialize; one that stores the bases over
\* the message before; and small words.
MCFreshMemory ==
  [a \in Address |->
     CASE a = 0 -> 7  [] a = 1 -> 8  [] a = 3 -> 9
       [] a = 4 -> 1  [] a = 5 -> 10 [] a = 6 -> 11 [] a = 7 -> 12
       [] a = 8 -> 2  [] a = 9 -> 5
       [] a = 12 -> 3 [] a = 13 -> 5
       [] a = 28 -> 15 [] a = 29 -> 16 [] a = 31 -> 17
       [] OTHER -> 0]

MCInstructions ==
  [op : {"synmovq"}, addr : {IACAddress}, src : {0, 4, 8, 12, 13}, value : {0}]
    \union [op : {"synmovq", "synmovl"}, addr : {4, 6, 9}, src : {0, 8}, value : {0}]
    \union [op : {"synmov"}, addr : {1, 5, 12, InterruptControl}, src : {4, 9}, value : {0}]
    \union [op : {"synld"}, addr : {5, 9}, src : {0}, value : {0}]
    \union [op : {"atadd", "atmod"}, addr : {4, 9, 14}, src : {0}, value : {1, 30}]
====
