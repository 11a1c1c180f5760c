---------------------------- MODULE MCMappedDevices ----------------------------
(*****************************************************************************)
(* Device pages of 12 bytes, with an external memory and internal regions    *)
(* around them that are just large enough to be run over.                    *)
(*****************************************************************************)
EXTENDS MappedDevices

Access(op, base, unit, data) ==
  [op |-> op, base |-> base, unit |-> unit, size |-> Len(data), done |-> 0,
   data |-> [i \in 0 .. Len(data) - 1 |-> data[i + 1]]]

\* Register n of a device, by its page.
At(device, n) == PeripheralBase + PageSize * device + n

MCBootImage == <<8, 11, 8>>
MCFreshMemory == [a \in Addresses |-> 0]
MCFreshEEPROM == [i \in 0 .. 3 |-> 0]
MCFrequency == <<0, 0, 11, 8>>
MCFirstRate == <<0, 8, 11, 0>>

\* Over the end of a window and of the last page, to a device that does not
\* exist and to the bus; and over registers of each device.
MCAccesses ==
  {Access("load", base, 1, <<0>>) : base \in {At(0, 3), At(4, 0)}}
    \union {Access("store", base, 2, <<0, 0>>) : base \in {7, ConfigBase - 1}}
    \union {Access("load", base, 2, <<0, 0>>) : base \in {At(1, 0), At(2, 11), At(3, 4)}}
    \union {Access("store", At(1, 3), 1, <<x>>) : x \in {0, 255}}
    \union {Access("store", At(1, 4), 4, <<11, 8, 0, 0>>)}
    \union {Access("store", At(2, 11), 2, <<255, 255>>), Access("store", At(3, 7), 1, <<0>>)}
    \union {Access("store", At(3, 3), 4, <<x, y, x, 255 - x>>) : <<x, y>> \in {<<0, 255>>, <<255, 0>>}}
===============================================================================
