------------------------------- MODULE SifiveSpi -------------------------------
(***************************************************************************)
(* SPI transfers (freedom-metal, sifive_spi0.c): a program that sends one  *)
(* frame, waits for the byte that comes back and gives up when the clock   *)
(* says so, and a controller that moves frames through two queues.         *)
(***************************************************************************)
EXTENDS Integers, Sequences

CONSTANTS
  Configs,    \* struct metal_spi_config: [protocol, multi_wire, cmd, addr, dummy]
  Lengths,    \* len
  Depth,      \* entries of a FIFO (8)
  Transfers   \* bound: transfers started

DepthAssumption == Depth \in Nat \ {0}
ConfigsAssumption ==
  /\ Configs \subseteq [protocol : {"SINGLE", "DUAL", "QUAD"}, multi_wire : {"ALL", "DATA_ONLY", "ADDR_DATA"},
                        cmd : Nat, addr : Nat, dummy : Nat]
  /\ Lengths \subseteq Nat

TIMEOUT == 1   \* METAL_SPI_RXDATA_TIMEOUT

VARIABLES
  tx, rx,    \* the FIFOs: frames [of, i, proto], i of the transfer of
  fmt,       \* FMT's protocol
  csmode,    \* CSMODE: "auto" or "hold"
  waited,    \* seconds that have gone by since the frame was sent
  cfg, len,  \* the arguments of the transfer
  nr,        \* number of the transfer
  at, i,     \* its next access, and its frame
  rx_buf,    \* the frames that rx_buf's bytes answer
  ret,       \* what the last transfer returned
  gaveup     \* transfers that returned 1

call == <<cfg, len, nr>>
vars == <<tx, rx, fmt, csmode, waited, call, at, i, rx_buf, ret, gaveup>>

Init ==
  /\ tx = <<>> /\ rx = <<>> /\ fmt = "SINGLE" /\ csmode = "auto" /\ waited = 0
  /\ cfg \in Configs /\ len \in Lengths /\ nr = 0
  /\ at = "idle" /\ i = 0 /\ rx_buf = <<>> /\ ret = 0 /\ gaveup = 0

-----------------------------------------------------------------------------
(* The controller and the clock.  The queues move one frame at a time; a    *)
(* frame that comes back to a full queue is lost.                           *)

Shift ==
  /\ tx # <<>> /\ tx' = Tail(tx)
  /\ rx' = IF Len(rx) < Depth THEN Append(rx, [Head(tx) EXCEPT !.proto = fmt]) ELSE rx
  /\ UNCHANGED <<fmt, csmode, waited, call, at, i, rx_buf, ret, gaveup>>

Tick ==
  /\ at = "wait" /\ waited <= TIMEOUT
  /\ waited' = waited + 1
  /\ UNCHANGED <<tx, rx, fmt, csmode, call, at, i, rx_buf, ret, gaveup>>

-----------------------------------------------------------------------------
(* __metal_driver_sifive_spi0_transfer. *)

\* configure_spi: the protocol of the first frames; only MULTI_WIRE_ALL is not "SINGLE".
Configured(c) == IF c.multi_wire = "ALL" THEN c.protocol ELSE "SINGLE"
\* spi_mode_switch; for the single protocol the field is cleared, which is "SINGLE".
Switched(stage, f) == IF cfg.multi_wire = stage THEN cfg.protocol ELSE f

Command == cfg.cmd
Address == cfg.cmd + cfg.addr
Dummy == cfg.cmd + cfg.addr + cfg.dummy
\* Slip: the stages are sent on top of the data.
Frames_added == Dummy + len
\* The four loops send as many frames as the first three stages ask for, or len.
Frames == IF Dummy > len THEN Dummy ELSE len

\* A protocol that the enumeration does not have is refused, with the field cleared.
refused ==
  /\ at = "idle" /\ fmt' = "SINGLE" /\ ret' = -1
  /\ UNCHANGED <<tx, rx, csmode, waited, call, at, i, rx_buf, gaveup>>

transfer ==
  /\ at = "idle" /\ nr < Transfers
  /\ cfg' \in Configs /\ len' \in Lengths /\ nr' = nr + 1
  /\ i' = 0 /\ rx_buf' = <<>> /\ at' = "next"
  /\ fmt' = Configured(cfg') /\ csmode' = "hold"
  /\ UNCHANGED <<tx, rx, waited, ret, gaveup>>

\* Slip: the switch waits until the stage's first frame is on its way.
Proto_late(f) ==
  IF i = Dummy + 1 THEN Switched("DATA_ONLY", f)
  ELSE IF i = Command THEN Switched("ADDR_DATA", f) ELSE f
\* The switches that come before frame i is sent; a stage of no frames is passed at once.
Proto(f) ==
  LET g == IF i = Command THEN Switched("ADDR_DATA", f) ELSE f
  IN IF i = Dummy THEN Switched("DATA_ONLY", g) ELSE g

\* Slip: the next byte is sent before the last one's answer is taken.
Send_ahead ==
  /\ at = "next" /\ i < Frames /\ Len(tx) < Depth
  /\ tx' = Append(tx, [of |-> nr, i |-> i, proto |-> Proto(fmt)]) /\ fmt' = Proto(fmt)
  /\ waited' = 0
  /\ IF i + 1 < Frames /\ rx = <<>> THEN i' = i + 1 /\ UNCHANGED at ELSE at' = "wait" /\ UNCHANGED i
  /\ UNCHANGED <<rx, csmode, call, rx_buf, ret, gaveup>>

\* The program polls TXDATA until the queue is not full.
Send ==
  /\ at = "next" /\ i < Frames /\ Len(tx) < Depth
  /\ fmt' = Proto(fmt)
  /\ tx' = Append(tx, [of |-> nr, i |-> i, proto |-> fmt'])
  /\ waited' = 0 /\ at' = "wait"
  /\ UNCHANGED <<rx, csmode, call, i, rx_buf, ret, gaveup>>

\* Slip: the empty flag of RXDATA is not looked at.
Receive_unchecked ==
  /\ at = "wait" /\ rx_buf' = Append(rx_buf, IF rx = <<>> THEN [of |-> 0, i |-> 0, proto |-> fmt] ELSE Head(rx))
  /\ rx' = IF rx = <<>> THEN rx ELSE Tail(rx)
  /\ i' = i + 1 /\ at' = "next"
  /\ UNCHANGED <<tx, fmt, csmode, waited, call, ret, gaveup>>

\* Slip: the last byte's answer is not waited for.
Receive_unwaited ==
  /\ at = "wait" /\ (rx # <<>> \/ i + 1 = Frames)
  /\ rx' = IF rx = <<>> THEN rx ELSE Tail(rx)
  /\ rx_buf' = IF rx = <<>> THEN rx_buf ELSE Append(rx_buf, Head(rx))
  /\ i' = i + 1 /\ at' = "next"
  /\ UNCHANGED <<tx, fmt, csmode, waited, call, ret, gaveup>>

Receive ==
  /\ at = "wait" /\ rx # <<>>
  /\ rx' = Tail(rx) /\ rx_buf' = Append(rx_buf, Head(rx))
  /\ i' = i + 1 /\ at' = "next"
  /\ UNCHANGED <<tx, fmt, csmode, waited, call, ret, gaveup>>

Over(v) == at' = "idle" /\ csmode' = "auto" /\ ret' = v

\* Slip: the deadline is never looked at.
GiveUp_never == FALSE /\ UNCHANGED vars
\* Slip: the chip select stays held.
GiveUp_holding ==
  /\ at = "wait" /\ rx = <<>> /\ waited > TIMEOUT
  /\ at' = "idle" /\ ret' = 1 /\ gaveup' = gaveup + 1
  /\ UNCHANGED <<tx, rx, fmt, csmode, waited, call, i, rx_buf>>

\* The frame, or the answer that is on its way, stays in the controller.
GiveUp ==
  /\ at = "wait" /\ rx = <<>> /\ waited > TIMEOUT
  /\ Over(1) /\ gaveup' = gaveup + 1
  /\ UNCHANGED <<tx, rx, fmt, waited, call, i, rx_buf>>

Finish ==
  /\ at = "next" /\ i >= Frames /\ Over(0)
  /\ fmt' = Proto(fmt)
  /\ UNCHANGED <<tx, rx, waited, call, i, rx_buf, gaveup>>

Step == Send \/ Receive \/ GiveUp \/ Finish
Next == Shift \/ Tick \/ refused \/ transfer \/ Step
\* The program runs and the time goes on; the controller may stop.
Spec == Init /\ [][Next]_vars /\ WF_vars(Step) /\ WF_vars(Tick)

-----------------------------------------------------------------------------
(* Properties. *)

\* As long as no frame was slower than the timeout, byte k of rx_buf answers frame k of this
\* transfer.
ReceivedIsOwn ==
  gaveup = 0 => \A k \in 1 .. Len(rx_buf) : rx_buf[k].of = nr /\ rx_buf[k].i = k - 1

\* Then a frame goes over the wires of its stage, as multi_wire asks: all, from the address on,
\* or only the data.
Wires(f) ==
  LET from == CASE cfg.multi_wire = "ALL" -> 0
                [] cfg.multi_wire = "ADDR_DATA" -> Command
                [] OTHER -> Dummy
  IN IF f.i >= from THEN cfg.protocol ELSE "SINGLE"
StageOnItsWires ==
  gaveup = 0 => \A k \in 1 .. Len(rx_buf) : rx_buf[k].proto = Wires(rx_buf[k])

\* When the chip select goes back, the frames of the transfer are all through.
SelectedToTheEnd ==
  gaveup = 0 /\ at = "idle" => \A k \in 1 .. Len(tx) : tx[k].of # nr

\* Every transfer that gave up has left one frame in the controller, and no other has, until
\* they fill a queue.
OneFrameLeft ==
  gaveup < Depth => Len(tx) + Len(rx) = gaveup + (IF at = "wait" THEN 1 ELSE 0)

\* Between transfers the chip select is not held, and in one it is not let go.
ChipSelectHeld == (csmode = "auto") = (at = "idle")

\* A transfer whose stages are part of it sends len frames.
SendsLen == at = "idle" /\ nr > 0 /\ ret = 0 /\ Dummy <= len => Len(rx_buf) = len

===============================================================================
