------------------------- MODULE MappedDevices_proofs --------------------------
(*****************************************************************************)
(* Theorems about MappedDevices, for any layout and any accesses: behind the *)
(* devices the bus is still the bus, and what a program stores in a device's *)
(* registers stays there until it stores something else.                     *)
(*****************************************************************************)
EXTENDS MappedDevices, MemoryBus_proofs

\* The devices fix bytes that the bus leaves open, and do nothing else to it
\* (readFromInternalSpace, writeToInternalSpace).
THEOREM DevicesImplementBus == DeviceSpec => Spec
<1>1. DeviceInit => Init
  BY DEF DeviceInit
<1>2. [DeviceNext]_allVars => [Next]_vars
  <2>1. DeviceLoad \/ DeviceStore => Next
    BY DEF DeviceLoad, DeviceStore, Next, Step
  <2>2. MemoryStep => Next
    BY DEF MemoryStep
  <2>3. Hardware => UNCHANGED vars
    BY DEF Hardware
  <2>4. UNCHANGED allVars => UNCHANGED vars
    BY DEF allVars
  <2> QED
    BY <2>1, <2>2, <2>3, <2>4 DEF DeviceNext
<1> QED
  BY <1>1, <1>2, PTL DEF DeviceSpec, Spec

\* The bank the core believes in is the one the pins select, with devices too.
THEOREM DevicesKeepPins == DeviceSpec => []PinsSelectBank
BY DevicesImplementBus, PinsCorrect, PTL

-------------------------------------------------------------------------------

\* What a step does to a device, if anything.
LEMMA SPIStep ==
  ASSUME [DeviceNext]_allVars
  PROVE  \/ UNCHANGED spiVars
         \/ SPI!Transfer
         \/ SPI!write(offset, access.data[access.done])
<1>1. CASE DeviceLoad
  BY <1>1 DEF DeviceLoad, ReadTarget, SPI!read, SPI!vars, devices, spiVars
<1>2. CASE DeviceStore
  BY <1>2 DEF DeviceStore, WriteTarget, devices, spiVars
<1>3. CASE MemoryStep \/ Hardware \/ UNCHANGED allVars
  BY <1>3 DEF MemoryStep, Hardware, allVars, devices, spiVars
<1> QED
  BY <1>1, <1>2, <1>3 DEF DeviceNext

LEMMA ConsoleStep ==
  ASSUME [DeviceNext]_allVars
  PROVE  \/ UNCHANGED consoleVars
         \/ Console!Receive
         \/ Console!read(offset, access'.data[access.done])
         \/ Console!write(offset, access.data[access.done])
<1>1. CASE DeviceLoad
  BY <1>1 DEF DeviceLoad, ReadTarget, devices, consoleVars
<1>2. CASE DeviceStore
  BY <1>2 DEF DeviceStore, WriteTarget, devices, consoleVars
<1>3. CASE MemoryStep \/ Hardware \/ UNCHANGED allVars
  BY <1>3 DEF MemoryStep, Hardware, allVars, devices, consoleVars
<1> QED
  BY <1>1, <1>2, <1>3 DEF DeviceNext

-------------------------------------------------------------------------------
(* What was stored in the SPI device.                                        *)

SPIInv ==
  /\ DOMAIN written = SPI!Shared \union {"ClockRate"}
  /\ SPI!ControlsHold

LEMMA WrittenOne ==
  ASSUME SPIInv, NEW register, NEW value,
         written' = [x \in DOMAIN written |-> IF x = register THEN value ELSE written[x]]
  PROVE  /\ DOMAIN written' = SPI!Shared \union {"ClockRate"}
         /\ \A x \in SPI!Shared \union {"ClockRate"} :
              written'[x] = IF x = register THEN value ELSE written[x]
BY DEF SPIInv

\* The bits of SPCR are changed one at a time, and the rate lies beside them
\* (SPIInterface::write).
LEMMA WriteSPIInv ==
  ASSUME SPIInv, NEW o, NEW value, SPI!write(o, value)
  PROVE  SPIInv'
<1> DEFINE register == SPI!RegisterAt(o)
<1>1. /\ DOMAIN written' = SPI!Shared \union {"ClockRate"}
      /\ \A x \in SPI!Shared \union {"ClockRate"} :
           written'[x] = IF x = register THEN value ELSE written[x]
  BY WrittenOne DEF SPI!write
<1>2. "ClockRate" \notin SPI!Controls /\ "PeripheralEnable" \notin SPI!Shared
  BY DEF SPI!Controls, SPI!Shared
<1>3. CASE register \in SPI!Shared
  <2>1. /\ spcr' = (IF value = 0 THEN spcr \ {register} ELSE spcr \union {register})
        /\ spr' = spr
    BY <1>2, <1>3 DEF SPI!write, SPI!setControl, SPI!Shared, SPI!Flags, SPI!ClockFrequency, SPI!Registers
  <2> QED
    BY <1>1, <1>2, <1>3, <2>1 DEF SPIInv, SPI!ControlsHold, SPI!Controls
<1>4. CASE register = "PeripheralEnable"
  <2>1. /\ \A x \in SPI!Shared : x \in spcr' <=> x \in spcr
        /\ spr' = spr
    BY <1>2, <1>4 DEF SPI!write, SPI!setEnable, SPI!setControl, SPI!Shared, SPI!Flags, SPI!ClockFrequency, SPI!Registers
  <2> QED
    BY <1>1, <1>2, <1>4, <2>1 DEF SPIInv, SPI!ControlsHold
<1>5. CASE register = "ClockRate"
  <2>1. spcr' = spcr /\ spr' = 7 - (value % 8)
    BY <1>5 DEF SPI!write, SPI!setClockRate, SPI!Shared, SPI!Flags, SPI!ClockFrequency, SPI!Registers
  <2> QED
    BY <1>1, <1>2, <1>5, <2>1 DEF SPIInv, SPI!ControlsHold, SPI!Controls
<1>6. CASE register \notin SPI!Controls \union {"ClockRate"}
  <2>1. spcr' = spcr /\ spr' = spr
    BY <1>6 DEF SPI!write, SPI!Controls
  <2> QED
    BY <1>1, <1>6, <2>1 DEF SPIInv, SPI!ControlsHold, SPI!Controls
<1> QED
  BY <1>3, <1>4, <1>5, <1>6 DEF SPI!Controls

\* Polarity, phase and order of the SPI line are what was last stored, for any
\* accesses that run over the device's registers (SPIInterface::write).
THEOREM ControlsStay == DeviceSpec => []ControlsHold
<1>1. DeviceInit => SPIInv
  BY DEF DeviceInit, SPI!Init, SPIInv, SPI!ControlsHold
<1>2. SPIInv /\ [DeviceNext]_allVars => SPIInv'
  <2> SUFFICES ASSUME SPIInv, [DeviceNext]_allVars
               PROVE  SPIInv'
    OBVIOUS
  <2>1. CASE UNCHANGED spiVars \/ SPI!Transfer
    BY <2>1 DEF spiVars, SPI!Transfer, SPIInv, SPI!ControlsHold
  <2>2. CASE SPI!write(offset, access.data[access.done])
    BY <2>2, WriteSPIInv
  <2> QED
    BY <2>1, <2>2, SPIStep
<1>3. SPIInv => ControlsHold
  BY DEF SPIInv, ControlsHold
<1> QED
  BY <1>1, <1>2, <1>3, PTL DEF DeviceSpec

-------------------------------------------------------------------------------
(* The rate of the console.                                                  *)

\* The bytes of clockRate_ are those that were stored last.
RateInv == stored = clockRate_

LEMMA RateStep ==
  ASSUME RateInv, [DeviceNext]_allVars
  PROVE  /\ RateInv'
         /\ \/ lineRate' = lineRate /\ (begun' => begun)
            \/ ~begun /\ lineRate' = stored /\ stored' = stored
<1>1. CASE UNCHANGED consoleVars \/ Console!Receive
            \/ Console!read(offset, access'.data[access.done])
  BY <1>1 DEF consoleVars, Console!Receive, Console!read, RateInv
<1>2. CASE Console!write(offset, access.data[access.done])
  BY <1>2 DEF Console!write, Console!setStatus, Console!begin, Console!end, Console!Serial,
              Console!setClockRate, RateInv
<1> QED
  BY <1>1, <1>2, ConsoleStep

\* However the bytes of the rate are stored, a line that is begun keeps the
\* rate it has, and one that is begun anew has the rate stored last
\* (SerialConsole::begin).
THEOREM RateKeptByLine == DeviceSpec => RateTakenAtBegin
<1>1. DeviceInit => RateInv
  BY DEF DeviceInit, Console!Init, RateInv
<1>2. RateInv /\ [DeviceNext]_allVars => RateInv'
  BY RateStep
<1>3. RateInv /\ [DeviceNext]_allVars =>
        [/\ begun /\ begun' => lineRate' = lineRate
         /\ ~begun /\ begun' => lineRate' = stored]_(Console!vars)
  <2> SUFFICES ASSUME RateInv, [DeviceNext]_allVars
               PROVE  /\ begun /\ begun' => lineRate' = lineRate
                      /\ ~begun /\ begun' => lineRate' = stored
    OBVIOUS
  <2> QED
    BY RateStep
<1> QED
  BY <1>1, <1>2, <1>3, PTL DEF DeviceSpec, RateTakenAtBegin, Console!RateTakenAtBegin
===============================================================================
