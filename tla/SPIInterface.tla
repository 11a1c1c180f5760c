----------------------------- MODULE SPIInterface -----------------------------
(*****************************************************************************)
(* The SPI device of the peripheral page (SPIInterface in                    *)
(* src/src/MemoryInterfaceCommands.cc), as loads and stores of single bytes  *)
(* reach it.  The microcontroller's registers and the SPI library are        *)
(* modelled from their use here: a transfer takes a byte in for the one that *)
(* goes out, SPI.begin enables the device, and SPI.end disables it unless    *)
(* the library counts another user.  MappedDevices puts it behind the bus.   *)
(*****************************************************************************)
EXTENDS Integers, Sequences

CONSTANT Incoming  \* the bytes that come in

\* The registers, by their offsets from 0 on.
Registers ==
  <<"Data", "TransferComplete", "WriteCollision", "ClockPhase", "ClockPolarity", "ClockRate",
    "DataOrder", "PeripheralEnable", "ClockFrequency00", "ClockFrequency01",
    "ClockFrequency10", "ClockFrequency11">>
Shared == {"ClockPolarity", "ClockPhase", "DataOrder"}  \* in SPCR beside the enable bit
Controls == Shared \union {"PeripheralEnable"}
Flags == {"TransferComplete", "WriteCollision"}
ClockFrequency == {Registers[i] : i \in 9 .. 12}

RegisterAt(offset) == IF offset < Len(Registers) THEN Registers[offset + 1] ELSE "none"

NoByte == -1

VARIABLES
  spcr,     \* the control bits that are set in SPCR
  spr,      \* SPI2X, SPR1 and SPR0 as one number
  spdr,     \* the data register
  flags,    \* SPIF and WCOL, which the hardware sets
  written   \* the byte last stored in a control or the clock rate, or NoByte

vars == <<spcr, spr, spdr, flags, written>>

Flag(set) == IF set THEN 255 ELSE 0

\* SPSR | 1 is all of SPSR with its lowest bit set, and is moved up by three.
computeClockRateSetup ==
  ((spr % 4) + 8 * (1 + (IF "WriteCollision" \in flags THEN 64 ELSE 0)
                      + (IF "TransferComplete" \in flags THEN 128 ELSE 0))) % 256

\* The table of frequencies has eight rows, and the setup that is computed lies
\* past them: a byte of the frequency is anything.
read(offset, byte) ==
  LET register == RegisterAt(offset)
  IN /\ \/ register = "Data" /\ byte = spdr
        \/ register \in Controls /\ byte = Flag(register \in spcr)
        \/ register \in Flags /\ byte = Flag(register \in flags)
        \/ register = "ClockRate" /\ byte = computeClockRateSetup
        \/ register \in ClockFrequency /\ byte \in Incoming
        \/ register = "none" /\ byte = 0
     /\ UNCHANGED vars

\* Fault: the order of the data is kept in the bit of the clock's phase.
OrderSetsPhase(register, value) ==
  LET b == IF register = "DataOrder" THEN "ClockPhase" ELSE register
  IN spcr' = IF value = 0 THEN spcr \ {b} ELSE spcr \union {b}

setControl(register, value) ==
  spcr' = IF value = 0 THEN spcr \ {register} ELSE spcr \union {register}

\* SPI.begin or SPI.end, of which the last may leave the device to others.
setEnable(value) ==
  \/ setControl("PeripheralEnable", value)
  \/ value = 0 /\ UNCHANGED spcr

\* Bit by bit, cleared where the value has a one.
setClockRate(value) == spr' = 7 - (value % 8)

\* The data register is given its own offset, 0, and so 0 is what goes out.
write(offset, value) ==
  LET register == RegisterAt(offset)
  IN /\ \/ register = "Data" /\ spdr' \in Incoming /\ UNCHANGED <<spcr, spr>>
        \/ register \in Shared /\ setControl(register, value) /\ UNCHANGED <<spr, spdr>>
        \/ register = "PeripheralEnable" /\ setEnable(value) /\ UNCHANGED <<spr, spdr>>
        \/ register = "ClockRate" /\ setClockRate(value) /\ UNCHANGED <<spcr, spdr>>
        \/ register \in Flags \union ClockFrequency \union {"none"}
             /\ UNCHANGED <<spcr, spr, spdr>>
     /\ written' = [x \in DOMAIN written |-> IF x = register THEN value ELSE written[x]]
     /\ UNCHANGED flags

\* The hardware ends a transfer, or finds a collision.
Transfer ==
  /\ flags' \in SUBSET Flags
  /\ UNCHANGED <<spcr, spr, spdr, written>>

\* After bringUpSPI.
Init ==
  /\ spcr = {"PeripheralEnable"} /\ spr = 0 /\ spdr = 0 /\ flags = {}
  /\ written = [x \in Shared \union {"ClockRate"} |-> NoByte]

-------------------------------------------------------------------------------
(* Properties.                                                               *)

\* Each control of the line is on exactly when the last byte stored in it was
\* not zero, whatever was stored in the registers that share SPCR with it; of
\* the clock rate the last three bits stay, inverted.
ControlsHold ==
  /\ \A x \in Shared : written[x] # NoByte => (x \in spcr <=> written[x] # 0)
  /\ written["ClockRate"] # NoByte => spr = 7 - (written["ClockRate"] % 8)
====
