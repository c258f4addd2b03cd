------------------------------- MODULE SifiveI2c -------------------------------
(***************************************************************************)
(* The I2C master (freedom-metal, sifive_i2c0.c): a call sends an address  *)
(* and bytes, or receives bytes, one command of the controller at a time,  *)
(* and waits after each for the transfer in progress (TIP) or a timeout.   *)
(***************************************************************************)
EXTENDS Integers, Sequences, SequencesExt

CONSTANTS
  Calls,      \* the calls of the program: [op, tx, rx, stop]
  MaxCalls    \* bound: calls made

CallsAssumption ==
  Calls \subseteq [op : {"write", "read", "transfer"}, tx : Nat, rx : Nat, stop : BOOLEAN]

TIMEOUT == 1   \* METAL_I2C_RXDATA_TIMEOUT

VARIABLES
  tip,      \* the command under way, or None
  rxack,    \* the last byte was acknowledged
  data,     \* the byte that was received last: [of, i]
  held,     \* the bus is between a START and a STOP
  sending,  \* the addressed device sends until the master's NACK
  waited,   \* seconds in this wait
  call, nr, \* the call, and its number
  at, i,    \* its next step, and the byte
  dir,      \* the direction of the bytes, "w" or "r"
  acks,     \* the acknowledgements of the bytes sent in this call
  buf,      \* the bytes stored
  ret

vars == <<tip, rxack, data, held, sending, waited, call, nr, at, i, dir, acks, buf, ret>>

None == [start |-> FALSE, stop |-> FALSE, nack |-> FALSE, dir |-> "none", of |-> 0, i |-> 0]
Byte == [of |-> 0, i |-> 0]

Init ==
  /\ tip = None /\ rxack = TRUE /\ data = Byte /\ held = FALSE /\ sending = FALSE
  /\ waited = 0 /\ call \in Calls /\ nr = 0 /\ at = "idle" /\ i = 0 /\ dir = "w"
  /\ acks = <<>> /\ buf = <<>> /\ ret = 0

-----------------------------------------------------------------------------
(* The controller, the addressed device and the clock. *)

\* The command is done: the device acknowledges a byte sent to it, or not.
Complete ==
  /\ tip # None /\ tip' = None
  /\ IF tip.dir = "r" THEN data' = [of |-> tip.of, i |-> tip.i] /\ UNCHANGED rxack
     ELSE rxack' \in BOOLEAN /\ UNCHANGED data
  /\ held' = ~tip.stop
  /\ sending' = CASE tip.start -> tip.i = 1 /\ rxack'  \* the R/W bit of the address
                  [] tip.dir = "r" -> sending /\ ~tip.nack
                  [] OTHER -> sending
  /\ UNCHANGED <<waited, call, nr, at, i, dir, acks, buf, ret>>

Waiting == at \in {"free", "addressed", "byte"}

Tick ==
  /\ Waiting /\ tip # None /\ waited <= TIMEOUT
  /\ waited' = waited + 1
  /\ UNCHANGED <<tip, rxack, data, held, sending, call, nr, at, i, dir, acks, buf, ret>>

-----------------------------------------------------------------------------
(* The calls. *)

Command(d, start, stop, nack, k) ==
  tip' = [start |-> start, stop |-> stop, nack |-> nack, dir |-> d, of |-> nr, i |-> k]
Return(v) == at' = "idle" /\ ret' = v

\* metal_i2c_write, _read and _transfer.  A transfer of nothing returns an uninitialised ret.
metal_i2c(c) ==
  /\ at = "idle" /\ nr < MaxCalls
  /\ call' = c /\ nr' = nr + 1 /\ i' = 0 /\ acks' = <<>> /\ buf' = <<>> /\ waited' = 0
  /\ dir' = IF c.op = "read" \/ (c.op = "transfer" /\ c.tx = 0) THEN "r" ELSE "w"
  /\ IF c.op = "transfer" /\ c.tx + c.rx = 0 THEN at' = "idle" /\ ret' \in {-1, 0}
     ELSE at' = "free" /\ UNCHANGED ret
  /\ UNCHANGED <<tip, rxack, data, held, sending>>

\* Before init_done every call is refused.
refused ==
  /\ at = "idle" /\ nr = 0 /\ ret' = -1
  /\ UNCHANGED <<tip, rxack, data, held, sending, waited, call, nr, at, i, dir, acks, buf>>

\* Slip: the address is sent whatever the controller is doing.
write_addr_at_once ==
  /\ at = "free"
  /\ Command("w", TRUE, FALSE, FALSE, IF dir = "r" THEN 1 ELSE 0)
  /\ at' = "addressed" /\ waited' = 0
  /\ UNCHANGED <<rxack, data, held, sending, call, nr, i, dir, acks, buf, ret>>

\* The address and the R/W bit, with a START, when nothing is in progress.
write_addr ==
  /\ at = "free" /\ tip = None
  /\ Command("w", TRUE, FALSE, FALSE, IF dir = "r" THEN 1 ELSE 0)
  /\ at' = "addressed" /\ waited' = 0
  /\ UNCHANGED <<rxack, data, held, sending, call, nr, i, dir, acks, buf, ret>>

Bytes == IF dir = "w" THEN call.tx ELSE call.rx

\* The address is acknowledged, or the call returns.
Addressed ==
  /\ at = "addressed" /\ tip = None /\ acks' = Append(acks, rxack)
  /\ \/ rxack /\ Bytes > 0 /\ at' = "send" /\ ret' = 0
     \/ rxack /\ Bytes = 0 /\ Return(0)
     \/ ~rxack /\ Return(-1)
  /\ UNCHANGED <<tip, rxack, data, held, sending, waited, call, nr, i, dir, buf>>

LastByte == i = Bytes - 1
\* Slip: a transfer stops only if it is asked to.
Stops_asked == LastByte /\ call.stop
Stops == LastByte /\ IF call.op = "transfer" THEN dir = "r" \/ call.rx = 0 ELSE call.stop

\* Slip: the last byte is acknowledged.
Send_acks ==
  /\ at = "send" /\ at' = "byte" /\ waited' = 0
  /\ Command(dir, FALSE, Stops, FALSE, i)
  /\ UNCHANGED <<rxack, data, held, sending, call, nr, i, dir, acks, buf, ret>>

\* The next byte, with the STOP if it is asked for and the NACK of the last one read.
Send ==
  /\ at = "send" /\ at' = "byte" /\ waited' = 0
  /\ Command(dir, FALSE, Stops, dir = "r" /\ LastByte, i)
  /\ UNCHANGED <<rxack, data, held, sending, call, nr, i, dir, acks, buf, ret>>

\* After the bytes a transfer turns round, even when one of them was not acknowledged.
After(v) ==
  IF call.op = "transfer" /\ dir = "w" /\ call.rx > 0
  THEN at' = "free" /\ dir' = "r" /\ i' = 0 /\ ret' = v
  ELSE Return(v) /\ UNCHANGED <<dir, i>>

\* Slip: the data register is read while the byte is on its way.
Received_early ==
  /\ at = "byte" /\ dir = "r" /\ buf' = Append(buf, data)
  /\ IF LastByte THEN After(0) ELSE at' = "send" /\ i' = i + 1 /\ UNCHANGED <<dir, ret>>
  /\ waited' = 0 /\ UNCHANGED <<tip, rxack, data, held, sending, call, nr, acks>>

Received ==
  /\ at = "byte" /\ dir = "r" /\ tip = None /\ buf' = Append(buf, data)
  /\ IF LastByte THEN After(0) ELSE at' = "send" /\ i' = i + 1 /\ UNCHANGED <<dir, ret>>
  /\ waited' = 0 /\ UNCHANGED <<tip, rxack, data, held, sending, call, nr, acks>>

\* Slip: the acknowledgement of a byte is not looked at.
Sent_deaf ==
  /\ at = "byte" /\ dir = "w" /\ tip = None /\ acks' = Append(acks, rxack)
  /\ \/ ~LastByte /\ at' = "send" /\ i' = i + 1 /\ UNCHANGED <<dir, ret>>
     \/ LastByte /\ After(0)
  /\ waited' = 0 /\ UNCHANGED <<tip, rxack, data, held, sending, call, nr, buf>>

Sent ==
  /\ at = "byte" /\ dir = "w" /\ tip = None /\ acks' = Append(acks, rxack)
  /\ \/ rxack /\ ~LastByte /\ at' = "send" /\ i' = i + 1 /\ UNCHANGED <<dir, ret>>
     \/ rxack /\ LastByte /\ After(0)
     \/ ~rxack /\ After(-1)
  /\ waited' = 0 /\ UNCHANGED <<tip, rxack, data, held, sending, call, nr, buf>>

\* Slip: the wait for the address has no timeout.
GiveUp_byte ==
  /\ at = "byte" /\ tip # None /\ waited > TIMEOUT /\ Return(-1)
  /\ UNCHANGED <<tip, rxack, data, held, sending, waited, call, nr, i, dir, acks, buf>>

\* METAL_I2C_REG_CHECK: the call returns and the command goes on.
GiveUp ==
  /\ Waiting /\ tip # None /\ waited > TIMEOUT /\ Return(-1)
  /\ UNCHANGED <<tip, rxack, data, held, sending, waited, call, nr, i, dir, acks, buf>>

Step == write_addr \/ Addressed \/ Send \/ Received \/ Sent \/ GiveUp
Next == Complete \/ Tick \/ refused \/ (\E c \in Calls : metal_i2c(c)) \/ Step
\* The program runs and the time goes on; a device may hold the bus for ever.
Spec == Init /\ [][Next]_vars /\ WF_vars(Step) /\ WF_vars(Tick)

-----------------------------------------------------------------------------
(* Properties. *)

Succeeded == at = "idle" /\ nr > 0 /\ ret = 0
HasBytes(c) == IF c.op = "transfer" THEN c.tx + c.rx > 0 ELSE (IF c.op = "write" THEN c.tx ELSE c.rx) > 0
BothWays(c) == c.op = "transfer" /\ c.tx > 0 /\ c.rx > 0

\* A call that returns 0 had every byte it sent acknowledged, the addresses included.
AllAcknowledged == Succeeded => FALSE \notin ToSet(acks)

\* The bytes read are those of this call, in their order, whatever came late before it.
ReadsItsBytes ==
  \A k \in 1 .. Len(buf) : buf[k] = [of |-> nr, i |-> k - 1]

\* A call of some bytes that succeeds frees the bus exactly if it was asked to stop; transfers
\* always do.
StopAsAsked == Succeeded /\ HasBytes(call) => held = ~(call.stop \/ call.op = "transfer")

\* When such a call has succeeded, the device no longer drives the bus.
DeviceIsReleased == Succeeded /\ HasBytes(call) => ~sending

===============================================================================
