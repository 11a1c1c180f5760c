---------------------------- MODULE SerialConsole -----------------------------
(*****************************************************************************)
(* The serial console of the peripheral page (SerialConsole in               *)
(* src/src/MemoryInterfaceCommands.cc).  Its clock rate is four bytes, which *)
(* a program stores one by one.  The Serial library is modelled from its use *)
(* here: bytes come in a queue, and it is tested like a truth value, which   *)
(* on some boards says whether it is begun and on others is always true.     *)
(*****************************************************************************)
EXTENDS Sequences, Integers

CONSTANTS
  Incoming,   \* the bytes that come in, and how many may go out
  FirstRate,  \* the bytes of 115200, from the least to the most
  Buffer      \* how many bytes Serial keeps for the program

\* The registers, by their offsets from 0 on; the rate comes last.
Registers ==
  <<"Data", "Available", "AvailableForWrite", "Status", "ClockFrequency00", "ClockFrequency01",
    "ClockFrequency10", "ClockFrequency11">>
RateByte(i) == Registers[4 + i]

RegisterAt(offset) == IF offset < Len(Registers) THEN Registers[offset + 1] ELSE "none"

VARIABLES
  clockRate_,
  tracks,    \* whether Serial is false while it is not begun
  begun,     \* whether Serial is begun
  lineRate,  \* the rate it was last begun with
  received,  \* what came in and was not read
  stored     \* the byte last stored in each clock frequency register

vars == <<clockRate_, tracks, begun, lineRate, received, stored>>

Serial == begun \/ ~tracks

\* Fault: a line that is begun is begun again.
BeginAnew == begun' = TRUE /\ lineRate' = clockRate_

begin ==
  \/ ~Serial /\ begun' = TRUE /\ lineRate' = clockRate_
  \/ Serial /\ UNCHANGED <<begun, lineRate>>

\* What came in may be dropped.
end ==
  /\ \/ Serial /\ begun' = FALSE /\ received' \in {received, <<>>}
     \/ ~Serial /\ UNCHANGED <<begun, received>>
  /\ UNCHANGED lineRate

setClockRate(value, i) ==
  /\ clockRate_' = [clockRate_ EXCEPT ![i] = value]
  /\ stored' = [stored EXCEPT ![i] = value]

setStatus(value) ==
  \/ value # 0 /\ begin /\ UNCHANGED received
  \/ value = 0 /\ end

\* A byte that goes out leaves nothing here to tell.
write(offset, value) ==
  LET register == RegisterAt(offset)
  IN /\ \/ register = "Status" /\ setStatus(value) /\ UNCHANGED <<clockRate_, stored>>
        \/ \E i \in 1 .. 4 : register = RateByte(i) /\ setClockRate(value, i)
                             /\ UNCHANGED <<begun, lineRate, received>>
        \/ register \in {"Data", "Available", "AvailableForWrite", "none"}
             /\ UNCHANGED <<clockRate_, begun, lineRate, received, stored>>
     /\ UNCHANGED tracks

\* A read of an empty queue is -1, and 255 as a byte.
getCharacter(byte) ==
  \/ received = <<>> /\ byte = 255 /\ UNCHANGED received
  \/ received # <<>> /\ byte = Head(received) /\ received' = Tail(received)

read(offset, byte) ==
  LET register == RegisterAt(offset)
  IN /\ \/ register = "Data" /\ getCharacter(byte)
        \/ register # "Data" /\ UNCHANGED received
     /\ \/ register = "Data"
        \/ register = "Status" /\ byte = (IF Serial THEN 255 ELSE 0)
        \/ register = "Available" /\ byte = Len(received)
        \/ register = "AvailableForWrite" /\ byte \in Incoming
        \/ \E i \in 1 .. 4 : register = RateByte(i) /\ byte = clockRate_[i]
        \/ register = "none" /\ byte = 0
     /\ UNCHANGED <<clockRate_, tracks, begun, lineRate, stored>>

\* A byte comes in while Serial is begun; there is no room for it past Buffer.
Receive ==
  /\ begun /\ Len(received) < Buffer
  /\ \E byte \in Incoming : received' = Append(received, byte)
  /\ UNCHANGED <<clockRate_, tracks, begun, lineRate, stored>>

\* After setup, which begins Serial.
Init ==
  /\ clockRate_ = FirstRate /\ stored = FirstRate
  /\ tracks \in BOOLEAN /\ begun = TRUE /\ lineRate = FirstRate
  /\ received = <<>>

-------------------------------------------------------------------------------
(* Properties.                                                               *)

\* A line that is begun keeps its rate, whatever is stored in the rate's four
\* registers and in the status; a begin takes each byte as it was stored last,
\* and so, between two of the stores, a rate that is half the new one.
RateTakenAtBegin ==
  [][/\ begun /\ begun' => lineRate' = lineRate
     /\ ~begun /\ begun' => lineRate' = stored]_vars
====
