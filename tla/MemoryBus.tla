------------------------------ MODULE MemoryBus -------------------------------
(*****************************************************************************)
(* Loads and stores of the processor, and how they reach the bytes           *)
(* (src/src/MemoryInterfaceCommands.cc, src/include/Core.h).                 *)
(*                                                                           *)
(* The microcontroller sees external memory through one window of its own    *)
(* address space; pins select the bank behind it.  setEBIUpper sets them,    *)
(* and remembers the bank so as to leave them alone the next time.  An       *)
(* access outside the internal space is one native access through the        *)
(* window.  In the internal space it is a loop over its bytes, each of       *)
(* which goes to the boot program, the SRAM inside the Core object, the      *)
(* EEPROM, a device, or the bus after all.                                   *)
(*                                                                           *)
(* Sizes are parameters: the code has windows of 32 KB, regions of 64 KB     *)
(* (bits 16 to 23 of an internal address), device pages of 256 bytes, an     *)
(* SRAM of 2048 bytes of which 254 bytes (the byte 0xFE) come too early, and *)
(* 4 KB of EEPROM.                                                           *)
(*****************************************************************************)
EXTENDS Integers, Sequences

CONSTANTS
  Bytes,             \* what a byte may hold; 0 among them
  SpaceSize,         \* addresses are 0 .. SpaceSize - 1 and wrap
  WindowSize,        \* bytes of the EBI window
  RegionSize,        \* bytes of an internal region: a power of two windows
  InternalBase,      \* InternalMemorySpaceBase: first address of the internal space
  BootBase,          \* InternalBootProgramBase
  SRAMBase,          \* InternalSRAMBase
  PeripheralBase,    \* InternalPeripheralBase
  ConfigBase,        \* ConfigurationSpaceBaseAddress, from where on it is EEPROM
  PageSize,          \* bytes of a device's page
  BootImage,         \* the boot program, a sequence of bytes
  SRAMBytes,         \* NumSRAMBytesMapped
  Skew,              \* how far the SRAM's index is off (InternalSRAMStart)
  Accesses,          \* the loads and stores that are made: a set of access records
  FreshMemory,       \* what the external memory holds at power-on
  FreshEEPROM        \* what setupInternalConfigurationSpace leaves in the EEPROM

Addresses == 0 .. SpaceSize - 1
EEPROMBytes == SpaceSize - ConfigBase
CoreBytes == -Skew .. SRAMBytes - 1   \* SRAM and the fields before it in Core

NoBank == -1   \* ebiUpper_ starts with a value no bank has

ASSUME LayoutAssumption ==
  /\ WindowSize \in Nat \ {0} /\ PageSize \in Nat \ {0} /\ RegionSize \in Nat \ {0}
  /\ {SpaceSize, InternalBase, BootBase, SRAMBase, PeripheralBase, ConfigBase} \subseteq Nat
  /\ 0 < InternalBase /\ InternalBase < BootBase /\ InternalBase % WindowSize = 0
  /\ BootBase + RegionSize <= SRAMBase /\ SRAMBase + RegionSize <= PeripheralBase
  /\ PeripheralBase < ConfigBase /\ ConfigBase < SpaceSize
  /\ 16 <= SpaceSize /\ SpaceSize <= PeripheralBase + RegionSize
  /\ SRAMBytes \in Nat /\ Skew \in Nat /\ SRAMBytes + Skew <= RegionSize
ASSUME DataAssumption ==
  /\ 0 \in Bytes
  /\ BootImage \in Seq(Bytes)
  /\ FreshMemory \in [Addresses -> Bytes]
  /\ FreshEEPROM \in [0 .. EEPROMBytes - 1 -> Bytes]
ASSUME AccessAssumption ==
  \A x \in Accesses :
    /\ x \in [op : {"load", "store"}, base : Addresses, unit : Nat \ {0},
              size : Nat \ {0}, done : {0}, data : [0 .. x.size - 1 -> Bytes]]
    /\ x.unit <= x.size /\ x.size <= 16 /\ x.size % x.unit = 0

VARIABLES
  ext,       \* external memory, by bank and offset in the bank
  core,      \* internalSRAM_ from 0 on; other fields of the Core before it
  eeprom,
  a15,       \* the pin EBI_A15
  port,      \* PORTL and PORTK: the address bits from 16 on
  ebiUpper,  \* the bank last selected, or NoBank
  access,    \* the load or store under way, or the last one
  stray      \* a native store left the window

pins == <<a15, port, ebiUpper>>
cells == <<ext, core, eeprom>>
vars == <<ext, core, eeprom, a15, port, ebiUpper, access, stray>>

-------------------------------------------------------------------------------
(* Where an address lies.                                                    *)

Wrap(address) == address % SpaceSize
Bank(address) == address \div WindowSize
computeWindowOffsetAddress(address) == address % WindowSize
inInternalSpace(address) == address >= InternalBase

InRegion(address, base) == base <= address /\ address < base + RegionSize

\* The test and the index of the code: the offset is taken from the number of
\* the region instead of its base, then cut to 16 bits.
InSRAM(address) == InRegion(address, SRAMBase) /\ address - Skew < SRAMBase + SRAMBytes
SRAMIndex(address) == address - SRAMBase - Skew

InEEPROM(address) == address >= ConfigBase

addressToTargetPeripheral(address) == (address - PeripheralBase) \div PageSize
QueryDevice == 0
ReadableDevices == {0, 1, 2, 3}   \* Query, SerialConsole, IO, SPI
WritableDevices == {1, 2, 3}

InDevice(address, devices) ==
  /\ InRegion(address, PeripheralBase)
  /\ ~InEEPROM(address)
  /\ addressToTargetPeripheral(address) \in devices

readFromInternalBootProgram(index) ==
  IF index < Len(BootImage) THEN BootImage[index + 1] ELSE 0

-------------------------------------------------------------------------------
(* The window.                                                               *)

PinBank == port * 2 + a15

\* Fault: the ports are written only when the fake A15 stays as it is.
KeepPorts(address) ==
  IF Bank(address) = ebiUpper
  THEN UNCHANGED pins
  ELSE /\ a15' = Bank(address) % 2
       /\ port' = IF Bank(address) % 2 = a15 THEN Bank(address) \div 2 ELSE port
       /\ ebiUpper' = Bank(address)

\* Fault: the bank's last bit is not part of the comparison.
IgnoreA15(address) ==
  IF Bank(address) \div 2 = ebiUpper \div 2
  THEN UNCHANGED pins
  ELSE /\ a15' = Bank(address) % 2
       /\ port' = Bank(address) \div 2
       /\ ebiUpper' = Bank(address)

\* Fault: the pin is given the bank, not its last bit.
WholeBankOnPin(address) ==
  IF Bank(address) = ebiUpper
  THEN UNCHANGED pins
  ELSE /\ a15' = Bank(address)
       /\ port' = Bank(address) \div 2
       /\ ebiUpper' = Bank(address)

setEBIUpper(address) ==
  IF Bank(address) = ebiUpper
  THEN UNCHANGED pins
  ELSE /\ a15' = Bank(address) % 2
       /\ port' = Bank(address) \div 2
       /\ ebiUpper' = Bank(address)

\* Where a native access to an address goes, once the pins are set.
Selected(address) == PinBank' * WindowSize + computeWindowOffsetAddress(address)

InWindow(address, size) == computeWindowOffsetAddress(address) + size <= WindowSize

\* A byte past the window is a register of the microcontroller.
loadFromBus(address, size) ==
  {f \in [0 .. size - 1 -> Bytes] :
     \A i \in 0 .. size - 1 :
       computeWindowOffsetAddress(address) + i < WindowSize =>
         f[i] = ext[Selected(address) + i]}

storeToBus(address, size, data) ==
  ext' = [a \in Addresses |->
            IF a \in Selected(address) .. Selected(address) + size - 1
            THEN data[a - Selected(address)]
            ELSE ext[a]]

-------------------------------------------------------------------------------
(* Steps of an access.                                                       *)

next == Wrap(access.base + access.done)
unitStart == Wrap(access.base + access.done - (access.done % access.unit))

InProgress == access.op # "idle" /\ access.done < access.size /\ ~stray

Received(n, bytes) ==
  access' = [access EXCEPT
    !.done = access.done + n,
    !.data = [i \in 0 .. access.size - 1 |->
                IF i \in access.done .. access.done + n - 1
                THEN bytes[i - access.done]
                ELSE access.data[i]]]

Sent(n) == access' = [access EXCEPT !.done = access.done + n]

Begin ==
  /\ access.op = "idle" /\ ~stray
  /\ access' \in Accesses
  /\ UNCHANGED <<ext, core, eeprom, a15, port, ebiUpper, stray>>

\* load outside the internal space.
BusLoad ==
  /\ InProgress /\ access.op = "load" /\ ~inInternalSpace(unitStart)
  /\ setEBIUpper(next)
  /\ \E bytes \in loadFromBus(next, access.unit) : Received(access.unit, bytes)
  /\ UNCHANGED <<ext, core, eeprom, stray>>

\* store outside the internal space.
BusStore ==
  /\ InProgress /\ access.op = "store" /\ ~inInternalSpace(unitStart)
  /\ setEBIUpper(next)
  /\ \/ /\ InWindow(next, access.unit)
        /\ storeToBus(next, access.unit,
                      [i \in 0 .. access.unit - 1 |-> access.data[access.done + i]])
        /\ Sent(access.unit)
        /\ UNCHANGED stray
     \/ /\ ~InWindow(next, access.unit)
        /\ stray' = TRUE
        /\ UNCHANGED <<ext, access>>
  /\ UNCHANGED <<core, eeprom>>

ReceiveByte(byte) == Received(1, [i \in {0} |-> byte])

\* readFromInternalSpace: one byte of a load.
ReadBootProgram ==
  /\ InRegion(next, BootBase)
  /\ ReceiveByte(readFromInternalBootProgram(next - BootBase))
  /\ UNCHANGED pins

ReadSRAM ==
  /\ InSRAM(next)
  /\ ReceiveByte(core[SRAMIndex(next)])
  /\ UNCHANGED pins

ReadEEPROM ==
  /\ InEEPROM(next)
  /\ ReceiveByte(eeprom[next - ConfigBase])
  /\ UNCHANGED pins

ReadDevice ==
  /\ InDevice(next, ReadableDevices)
  /\ \E byte \in Bytes : ReceiveByte(byte)
  /\ UNCHANGED pins

ReadBus ==
  /\ ~(InRegion(next, BootBase) \/ InSRAM(next) \/ InEEPROM(next)
         \/ InDevice(next, ReadableDevices))
  /\ setEBIUpper(next)
  /\ \E bytes \in loadFromBus(next, 1) : Received(1, bytes)

InternalLoad ==
  /\ InProgress /\ access.op = "load" /\ inInternalSpace(unitStart)
  /\ ReadBootProgram \/ ReadSRAM \/ ReadEEPROM \/ ReadDevice \/ ReadBus
  /\ UNCHANGED <<ext, core, eeprom, stray>>

\* Fault: a write that is ignored ends the step there.
StallOnBootProgram ==
  /\ InRegion(next, BootBase)
  /\ UNCHANGED access
  /\ UNCHANGED <<cells, pins>>

\* writeToInternalSpace: one byte of a store.
WriteBootProgram ==
  /\ InRegion(next, BootBase)
  /\ Sent(1)
  /\ UNCHANGED <<cells, pins>>

WriteSRAM ==
  /\ InSRAM(next)
  /\ core' = [core EXCEPT ![SRAMIndex(next)] = access.data[access.done]]
  /\ Sent(1)
  /\ UNCHANGED <<ext, eeprom, pins>>

WriteEEPROM ==
  /\ InEEPROM(next)
  /\ eeprom' = [eeprom EXCEPT ![next - ConfigBase] = access.data[access.done]]
  /\ Sent(1)
  /\ UNCHANGED <<ext, core, pins>>

WriteDevice ==
  /\ InDevice(next, WritableDevices)
  /\ Sent(1)
  /\ UNCHANGED <<cells, pins>>

\* The query device is not among the cases of a write: it goes to the bus.
WriteBus ==
  /\ ~(InRegion(next, BootBase) \/ InSRAM(next) \/ InEEPROM(next)
         \/ InDevice(next, WritableDevices))
  /\ setEBIUpper(next)
  /\ storeToBus(next, 1, [i \in {0} |-> access.data[access.done]])
  /\ Sent(1)
  /\ UNCHANGED <<core, eeprom>>

InternalStore ==
  /\ InProgress /\ access.op = "store" /\ inInternalSpace(unitStart)
  /\ WriteBootProgram \/ WriteSRAM \/ WriteEEPROM \/ WriteDevice \/ WriteBus
  /\ UNCHANGED stray

Complete ==
  /\ access.op # "idle" /\ access.done = access.size
  /\ access' = [access EXCEPT !.op = "idle"]
  /\ UNCHANGED <<ext, core, eeprom, a15, port, ebiUpper, stray>>

\* After setupEBI: all pins low, and the bank unknown.
Init ==
  /\ ext = FreshMemory
  /\ core = [i \in CoreBytes |-> 0]
  /\ eeprom = FreshEEPROM
  /\ a15 = 0 /\ port = 0 /\ ebiUpper = NoBank
  /\ access = [op |-> "idle", base |-> 0, unit |-> 1, size |-> 1, done |-> 1,
               data |-> [i \in {0} |-> 0]]
  /\ stray = FALSE

Step == BusLoad \/ BusStore \/ InternalLoad \/ InternalStore \/ Complete

Next == Begin \/ Step

Spec == Init /\ [][Next]_vars

-------------------------------------------------------------------------------
(* Programs that use memory as memory: no device, none of the bytes below    *)
(* the SRAM, no native access over the end of a window.                      *)

IsMemory(address) ==
  /\ ~InDevice(address, ReadableDevices)
  /\ InSRAM(address) => SRAMIndex(address) >= 0

Memory == {address \in Addresses : IsMemory(address)}
ReadOnly == {address \in Addresses : InRegion(address, BootBase)}

Disciplined(x) ==
  /\ \A i \in 0 .. x.size - 1 :
       /\ Wrap(x.base + i) \in Memory
       /\ i % x.unit = 0 =>
            inInternalSpace(Wrap(x.base + i)) \/ InWindow(Wrap(x.base + i), x.unit)

DisciplinedNext == (Begin /\ Disciplined(access')) \/ Step

\* The processor runs its loop for ever (loop in Sim3SX_Arduino.cc), and an
\* access is code without a wait in it.
Fairness == WF_vars(Step)

DisciplinedSpec == Init /\ [][DisciplinedNext]_vars /\ Fairness

Cell(address) ==
  CASE InRegion(address, BootBase) -> readFromInternalBootProgram(address - BootBase)
    [] InSRAM(address)             -> core[SRAMIndex(address)]
    [] InEEPROM(address)           -> eeprom[address - ConfigBase]
    [] OTHER                       -> ext[address]

Flat == INSTANCE FlatMemory WITH
  memory <- [address \in Memory |-> Cell(address)], Longest <- 16

-------------------------------------------------------------------------------
(* Properties.                                                               *)

TypeOK ==
  /\ ext \in [Addresses -> Bytes]
  /\ core \in [CoreBytes -> Bytes]
  /\ eeprom \in [0 .. EEPROMBytes - 1 -> Bytes]
  /\ a15 \in {0, 1} /\ port \in Nat /\ ebiUpper \in Nat \union {NoBank}
  /\ stray \in BOOLEAN
  /\ access.data \in [0 .. access.size - 1 -> Bytes]
  /\ access.done \in 0 .. access.size

\* The bank that setEBIUpper believes to be selected is the one the pins
\* select, whatever accesses came before: it skips the pins on that belief.
PinsSelectBank == ebiUpper # NoBank => PinBank = ebiUpper

\* The window, the banks, the internal regions and the byte loops together
\* behave as one array of bytes.
ImplementsFlatMemory == Flat!FlatSpec

\* A load or store that is begun ends.
AccessesComplete == access.op # "idle" ~> access.op = "idle"
====
