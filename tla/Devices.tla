-------------------------------- MODULE Devices --------------------------------
(***************************************************************************)
(* The drivers of the board's devices: the PLL of the core clock (FePll),  *)
(* the UARTs on a clock of theirs, the SPI and its divider, the I2C, the   *)
(* memory protection, the performance counters and the watchdog.  They     *)
(* share no state, so one of them runs at a time, and the others stay as   *)
(* they began.                                                             *)
(***************************************************************************)
EXTENDS FePll

CONSTANTS
  Parts,                                                             \* the devices that run
  Uarts, Speeds, FifoDepth, CharBits, TxLevels, LongMax, NoUart,     \* of SifiveUart
  Configs, Lengths, Entries, Transfers,                              \* of SifiveSpi
  Clocks, Bauds, Dividers,                                           \* of SpiRate
  I2cCalls, I2cMax,                                                  \* of SifiveI2c
  Regions, G, Bits, Asks,                                            \* of Pmp
  Last, Implemented, HalfBits, Counted,                              \* of Hpm
  TimeoutMask, ScaleMask, ClockRate, Rates, Timeouts, Calls, Latest  \* of SifiveWdog

VARIABLES
  part,      \* the device that runs
  list, registered, speed, uartAt, cur, ran, up, fifo, shift, divisor, txcnt, drained, rxFifo, lastRead,
  spiTx, spiRx, fmt, csmode, spiWaited, cfg, len, spiNr, spiAt, spiI, rx_buf, spiRet, gaveup,
  clock_rate, baud_rate, sckdiv, rateRet,
  tip, rxack, data, held, sending, waited, call, nr, i2cAt, i, dir, acks, buf, ret,
  pmpcfg, pmpaddr, granularity, wanted, rc,
  hpm_count, mhpmevent, count, ctr, hpmAt, vh, vl, begun, val,
  wcfg, wcmp, wcount, unlocked, todo, read, asked, setting, since, bitten, wcalls

Uart == INSTANCE SifiveUart WITH
  Uart <- Uarts, Rates <- Speeds, Depth <- FifoDepth, Bits <- CharBits, Levels <- TxLevels, LONG_MAX <- LongMax,
  NULL <- NoUart, rate <- speed, at <- uartAt, called <- ran, div <- divisor, x <- drained, rx <- rxFifo,
  last <- lastRead
Spi == INSTANCE SifiveSpi WITH
  Depth <- Entries,
  tx <- spiTx, rx <- spiRx, waited <- spiWaited, nr <- spiNr, at <- spiAt, i <- spiI, ret <- spiRet
Rate == INSTANCE SpiRate WITH SCKDIV <- Dividers, ret <- rateRet
I2c == INSTANCE SifiveI2c WITH Calls <- I2cCalls, MaxCalls <- I2cMax, at <- i2cAt
Pmp == INSTANCE Pmp
Hpm == INSTANCE Hpm WITH W <- HalfBits, Top <- Counted
Wdog == INSTANCE SifiveWdog WITH MaxCalls <- Calls, Top <- Latest

DevicesAssumption ==
  /\ Uart!RatesAssumption /\ Uart!Clock!ClientsAssumption
  /\ Spi!ConfigsAssumption /\ Spi!DepthAssumption
  /\ Rate!RateAssumption /\ Rate!MaskAssumption
  /\ I2c!CallsAssumption
  /\ Pmp!GranularityAssumption /\ Pmp!PowersAssumption
  /\ Hpm!ImplementedAssumption /\ Hpm!HalfAssumption
  /\ Wdog!WatchdogAssumption /\ Wdog!ScaleAssumption

uartVars ==
  <<list, registered, speed, uartAt, cur, ran, up, fifo, shift, divisor, txcnt, drained, rxFifo, lastRead>>
spiVars == <<spiTx, spiRx, fmt, csmode, spiWaited, cfg, len, spiNr, spiAt, spiI, rx_buf, spiRet, gaveup>>
rateVars == <<clock_rate, baud_rate, sckdiv, rateRet>>
i2cVars == <<tip, rxack, data, held, sending, waited, call, nr, i2cAt, i, dir, acks, buf, ret>>
pmpVars == <<pmpcfg, pmpaddr, granularity, wanted, rc>>
hpmVars == <<hpm_count, mhpmevent, count, ctr, hpmAt, vh, vl, begun, val>>
wdogVars == <<wcfg, wcmp, wcount, unlocked, todo, read, asked, setting, since, bitten, wcalls>>
buses == <<spiVars, rateVars, i2cVars>>
registers == <<pmpVars, hpmVars, wdogVars>>
all == <<part, vars, uartVars, buses, registers>>

\* Where a driver that does not run begins, and its arguments, do not matter.
InitDevices ==
  /\ part \in Parts
  /\ Uart!Init
  /\ part \notin {"uart", "receive"} => speed = CHOOSE r \in Speeds : TRUE
  /\ Spi!Init
  /\ part # "spi" => cfg = (CHOOSE c \in Configs : TRUE) /\ len = CHOOSE n \in Lengths : TRUE
  /\ Rate!Init
  /\ part # "rate" => clock_rate = (CHOOSE r \in Clocks : TRUE) /\ baud_rate = CHOOSE b \in Bauds : TRUE
  /\ I2c!Init /\ call = CHOOSE c \in I2cCalls : TRUE
  /\ Init
  /\ part # "pll" =>
       /\ refs = [o \in {"hfrosc", "hfxosc"} |-> CHOOSE r \in Refs : TRUE] /\ want = CHOOSE w \in Wanted : TRUE
       /\ ~pllcfg.sel /\ ~pllcfg.refsel /\ ~locked
  /\ Pmp!PmpInit /\ (part # "pmp" => pmpaddr = [r \in Pmp!Region |-> 0])
  /\ Hpm!HpmInit /\ (part # "hpm" => mhpmevent = {})
  /\ Wdog!WdogInit

\* One driver's step: the others do nothing.
Uart1(A) == A /\ UNCHANGED <<part, vars, buses, registers>>
Spi1(A) == A /\ UNCHANGED <<part, vars, uartVars, rateVars, i2cVars, registers>>
I2c1(A) == A /\ UNCHANGED <<part, vars, uartVars, spiVars, rateVars, registers>>
Pll1(A) == A /\ UNCHANGED <<part, uartVars, buses, registers>>
Wdog1(A) == A /\ UNCHANGED <<part, vars, uartVars, buses, pmpVars, hpmVars>>

\* A UART sends or receives: the two directions share what the clock does, and nothing else.
Receive == (\E u \in Uarts : Uart!InitPre(u)) \/ Uart!InitPost \/ Uart!Receive

NextDevices ==
  \/ part = "uart" /\ Uart1(Uart!Transmit)
  \/ part = "receive" /\ Uart1(Receive)
  \/ part = "spi" /\ Spi1(Spi!Next)
  \/ part = "rate" /\ Rate!Next /\ UNCHANGED <<part, vars, uartVars, spiVars, i2cVars, registers>>
  \/ part = "i2c" /\ I2c1(I2c!Next)
  \/ part = "pll" /\ Pll1(Next)
  \/ part = "pmp" /\ Pmp!PmpNext /\ UNCHANGED <<part, vars, uartVars, buses, hpmVars, wdogVars>>
  \/ part = "hpm" /\ Hpm!HpmNext /\ UNCHANGED <<part, vars, uartVars, buses, pmpVars, wdogVars>>
  \/ part = "watchdog" /\ Wdog1(Wdog!WdogNext)

\* The processor, the transmitters' clock, the watchdog and the time go on, and the PLL locks,
\* as in each driver's own specification; a controller of a bus may stop.
GoOn ==
  /\ WF_all(part = "uart" /\ Uart1(Uart!Change)) /\ WF_all(part = "uart" /\ Uart1(Uart!Tick))
  /\ WF_all(part = "spi" /\ Spi1(Spi!Step)) /\ WF_all(part = "spi" /\ Spi1(Spi!Tick))
  /\ WF_all(part = "i2c" /\ I2c1(I2c!Step)) /\ WF_all(part = "i2c" /\ I2c1(I2c!Tick))
  /\ WF_all(part = "pll" /\ Pll1(Driver)) /\ WF_all(part = "pll" /\ Pll1(Lock))
  /\ WF_all(part = "pll" /\ Pll1(Tick))
  /\ WF_all(part = "watchdog" /\ Wdog1(Wdog!Access \/ Wdog!Tick \/ Wdog!Bite))

SpecDevices == InitDevices /\ [][NextDevices]_all /\ GoOn

-----------------------------------------------------------------------------
(* Properties: those of the drivers, together; NeverUnlocked is FePll's.    *)

\* The UARTs' callbacks are the clock's: the clock behaves as MetalClock says
\* (metal/clock.h:61-136).
ImplementsClock == Uart!ImplementsClock

\* Nothing under way is cut off or lost: the rate changes only when no UART has a character
\* to send (sifive_uart0.c:160-179), none is written to a full FIFO (sifive_uart0.c:73-115),
\* metal_tty_getc returns every character once and in order (sifive_uart0.c:117-129), and the
\* I2C is given a command only when the last one is done (sifive_i2c0.c:33-49).
NothingCutOff ==
  [][/\ Uart!DrainedFirst /\ Uart!RoomFirst /\ Uart!InOrder
     /\ tip' # I2c!None /\ tip' # tip => tip = I2c!None]_all

\* A rate follows the clock: every UART divides the present rate to its baud rate, and the
\* SPI's frame clock is what was asked, up to twice as fast, if the present clock can be divided
\* to that (sifive_spi0.c:334-380).  The PLL's rate is the nearest that its table has
\* (sifive_fe310-g000_pll.c:193-273).
RateFollows == Uart!DivisorFitsRate /\ Rate!RateAsAsked /\ RateIsClosest

\* What a call returns belongs to it: every byte read answers the frame that was sent for it,
\* over the wires of its stage, and on the I2C whatever an earlier call left in the controller
\* (sifive_spi0.c:196-206, sifive_i2c0.c:164-216).
DataIsOwn == Spi!ReceivedIsOwn /\ Spi!StageOnItsWires /\ Spi!SendsLen /\ I2c!ReadsItsBytes

\* Between calls the bus is as the calls leave it: the SPI's chip select is released, after
\* the last frame, and exactly the frames of the transfers that gave up are still there; the
\* I2C is held exactly if no stop was asked for, and its device drives nothing; unless the
\* call went both ways, every byte was acknowledged.
BusAsPromised ==
  /\ Spi!ChipSelectHeld /\ Spi!SelectedToTheEnd /\ Spi!OneFrameLeft
  /\ I2c!StopAsAsked /\ I2c!DeviceIsReleased /\ (~I2c!BothWays(call) => I2c!AllAcknowledged)

\* A rate change, a transfer and a call come back: the FIFOs drain, and the timeouts end the
\* waits for a controller that stopped (sifive_uart0.c:166-178, sifive_spi0.c:187-205,
\* sifive_i2c0.c:33-49), and a PLL locks (sifive_fe310-g000_pll.c:321-341); a program that
\* hangs is found out by the watchdog it started (sifive_wdog0.c:172-201).
CallsReturn ==
  /\ uartAt = "pre" ~> uartAt = "idle"
  /\ spiAt # "idle" /\ gaveup < Entries ~> spiAt = "idle"
  /\ i2cAt # "idle" ~> i2cAt = "idle"
  /\ step = "choose" ~> step = "idle"
  /\ Wdog!FindsOut

\* The hart's own registers keep what they are given: RegionAsAsked and CountIsAMoment, of Pmp
\* and Hpm, of which each says more.
RegionAsAsked == Pmp!RegionAsAsked
CountIsAMoment == Hpm!CountIsAMoment

\* The watchdog matches no earlier than the timeout after it was fed or started, whatever is
\* changed meanwhile, and between calls its registers are as asked, every store having had
\* its key (sifive_wdog0.c:30-38, 119-201).
WatchdogAsAsked == Wdog!Patient /\ Wdog!AsAsked

\* A call that returns 0 had every byte it sent acknowledged (sifive_i2c0.c:230-252).
AllAcknowledged == I2c!AllAcknowledged
===============================================================================
