----------------------------- MODULE MappedDevices -----------------------------
(*****************************************************************************)
(* The peripheral page behind the bus: what readFromInternalSpace and        *)
(* writeToInternalSpace (src/src/MemoryInterfaceCommands.cc) do with the     *)
(* bytes that MemoryBus leaves open.                                         *)
(*                                                                           *)
(* A load or store of several bytes runs over the registers of a device one  *)
(* by one, and off its page to the next device, to one that does not exist   *)
(* and so to the bus, or to the EEPROM; the hardware of the devices goes on  *)
(* between two bytes.  Every behavior is one of MemoryBus.                   *)
(*****************************************************************************)
EXTENDS MemoryBus

CONSTANTS
  Incoming,      \* the bytes that the hardware of a device can bring
  CPUFrequency,  \* the bytes of F_CPU, from the least to the most
  FirstRate,     \* the bytes of 115200, likewise
  Buffer         \* bound: how many bytes Serial keeps for the program

\* Among the bytes are all that a load of a register can compute: a flag, how
\* many bytes are available, and the setup of the SPI clock.
ASSUME DeviceAssumption ==
  /\ Incoming \subseteq Bytes /\ Bytes \subseteq 0 .. 255
  /\ {0, 255} \union (0 .. Buffer) \union (8 .. 11) \subseteq Bytes
  /\ {CPUFrequency, FirstRate} \subseteq [1 .. 4 -> Bytes]
  /\ Buffer \in 1 .. 255

VARIABLES
  spcr, spr, spdr, flags, written,                         \* as in SPIInterface
  clockRate_, tracks, begun, lineRate, received, stored    \* as in SerialConsole

SPI == INSTANCE SPIInterface
Console == INSTANCE SerialConsole

spiVars == <<spcr, spr, spdr, flags, written>>
consoleVars == <<clockRate_, tracks, begun, lineRate, received, stored>>
devices == <<spcr, spr, spdr, flags, written,
             clockRate_, tracks, begun, lineRate, received, stored>>
allVars == <<vars, devices>>

target == addressToTargetPeripheral(next)
offset == (next - PeripheralBase) % PageSize   \* the last byte of the address

\* The query device: four constants, and zero behind them.
QueryInterface(byte) == byte = IF offset < 4 THEN CPUFrequency[offset + 1] ELSE 0

\* The GPIO interface has nothing in it, and reads as zero.
ReadTarget(byte) ==
  \/ target = 0 /\ QueryInterface(byte) /\ UNCHANGED devices
  \/ target = 1 /\ Console!read(offset, byte) /\ UNCHANGED spiVars
  \/ target = 2 /\ byte = 0 /\ UNCHANGED devices
  \/ target = 3 /\ SPI!read(offset, byte) /\ UNCHANGED consoleVars

WriteTarget(byte) ==
  \/ target = 1 /\ Console!write(offset, byte) /\ UNCHANGED spiVars
  \/ target = 2 /\ UNCHANGED devices
  \/ target = 3 /\ SPI!write(offset, byte) /\ UNCHANGED consoleVars

\* The byte that is next goes to a device, or comes from one.
AtDevice ==
  /\ InProgress /\ inInternalSpace(unitStart)
  /\ InDevice(next, IF access.op = "load" THEN ReadableDevices ELSE WritableDevices)

DeviceLoad == InternalLoad /\ AtDevice /\ ReadTarget(access'.data[access.done])

DeviceStore == InternalStore /\ AtDevice /\ WriteTarget(access.data[access.done])

MemoryStep == ~AtDevice /\ Next /\ UNCHANGED devices

Hardware ==
  /\ \/ SPI!Transfer /\ UNCHANGED consoleVars
     \/ Console!Receive /\ UNCHANGED spiVars
  /\ UNCHANGED vars

DeviceInit == Init /\ SPI!Init /\ Console!Init

DeviceNext == MemoryStep \/ DeviceLoad \/ DeviceStore \/ Hardware

DeviceSpec == DeviceInit /\ [][DeviceNext]_allVars

-------------------------------------------------------------------------------
(* Properties.                                                               *)

\* Controls of the SPI device that share a register (SPIInterface::write).
ControlsHold == SPI!ControlsHold

\* The rate of the console, stored byte by byte (SerialConsole::begin).
RateTakenAtBegin == Console!RateTakenAtBegin
====
