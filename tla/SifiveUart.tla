------------------------------ MODULE SifiveUart ------------------------------
(***************************************************************************)
(* UARTs on one clock (freedom-metal, sifive_uart0.c, metal/uart.h, tty.c) *)
(* and a program that transmits, receives, sets watermarks and changes the *)
(* clock's rate while characters are still on their way out.               *)
(***************************************************************************)
EXTENDS Integers, Sequences

CONSTANTS
  Uart,        \* the UARTs that the clock drives
  Rates,       \* the clock's rates, in multiples of Baud
  Depth,       \* entries of a transmit and of a receive FIFO
  Bits,        \* bits of a character: 10 with its start and one stop bit
  Levels,      \* the transmit watermarks that the program asks for
  LONG_MAX,    \* the largest long
  NULL

\* The clock runs, and the cycles of a character are a long at each of its rates.
RatesAssumption ==
  /\ Rates \subseteq Nat \ {0} /\ Depth \in Nat /\ Bits \in Nat /\ LONG_MAX \in Nat
  /\ \A r \in Rates : Bits * r <= LONG_MAX

Baud == 1                                \* the rates are counted in this
Char == 0 .. 3                           \* received characters are numbered, modulo 4
Wrap(n) == ((n + LONG_MAX + 1) % (2 * (LONG_MAX + 1))) - LONG_MAX - 1

VARIABLES
  list, registered, rate, at, cur, called,   \* of the clock (MetalClock)
  up,       \* the UARTs that metal_uart_init has been called for
  fifo,     \* characters in each transmit FIFO
  shift,    \* clock cycles until each shift register is empty
  div,      \* divisor register, -1 before it is set
  txcnt,    \* transmit watermark in TXCTRL
  x,        \* the drain loop's counter
  rx,       \* each receive FIFO
  last      \* what metal_tty_getc returned last, and the number of the next arrival

clock == <<list, registered, rate, at, cur, called>>
vars == <<clock, up, fifo, shift, div, txcnt, x, rx, last>>

Clock == INSTANCE MetalClock WITH
  Callback <- Uart,
  at <- IF at = "init" THEN "idle" ELSE IF at \in {"empty", "drain"} THEN "pre" ELSE at,
  cur <- IF at = "init" THEN NULL ELSE cur

-----------------------------------------------------------------------------
(* The device. *)

Ticked(u) ==
  IF shift[u] > 0 THEN <<fifo[u], shift[u] - 1>>
  ELSE IF fifo[u] > 0 THEN <<fifo[u] - 1, Bits * (div[u] + 1)>>
  ELSE <<0, 0>>
OneTick ==
  /\ fifo' = [u \in Uart |-> Ticked(u)[1]]
  /\ shift' = [u \in Uart |-> Ticked(u)[2]]

Tick == OneTick /\ UNCHANGED <<clock, up, div, txcnt, x, rx, last>>

TXWM(u) == fifo[u] < txcnt[u]

Arrive(u) ==
  /\ u \in up /\ Len(rx[u]) < Depth
  /\ rx' = [rx EXCEPT ![u] = Append(@, last[u].next)]
  /\ last' = [last EXCEPT ![u].next = (@ + 1) % 4]
  /\ UNCHANGED <<clock, up, fifo, shift, div, txcnt, x>>

-----------------------------------------------------------------------------
(* The driver. *)

Idle == at = "idle"
App(u) == Idle /\ u \in up

\* UART_REGW(DIV) = clock_rate / baud_rate - 1
set_baud_rate(u) == div' = [div EXCEPT ![u] = rate \div Baud - 1]

\* __metal_driver_sifive_uart0_init registers the one callback...
InitPre(u) ==
  /\ Idle /\ u \notin up
  /\ list' = [list EXCEPT !["pre"] = Clock!AppendTo(@, u)]
  /\ registered' = [registered EXCEPT !["pre"] = Append(@, u)]
  /\ at' = "init" /\ cur' = u
  /\ UNCHANGED <<rate, called, up, fifo, shift, div, txcnt, x, rx, last>>

\* ...and the other, and sets the baud rate.
InitPost ==
  /\ at = "init"
  /\ list' = [list EXCEPT !["post"] = Clock!AppendTo(@, cur)]
  /\ registered' = [registered EXCEPT !["post"] = Append(@, cur)]
  /\ set_baud_rate(cur)
  /\ up' = up \cup {cur} /\ at' = "idle" /\ cur' = NULL
  /\ UNCHANGED <<rate, called, fifo, shift, txcnt, x, rx, last>>

\* Slip: the wait for room is left out.
putc_no_wait(u) ==
  /\ App(u)
  /\ fifo' = [fifo EXCEPT ![u] = @ + 1]
  /\ UNCHANGED <<clock, up, shift, div, txcnt, x, rx, last>>

\* putc waits until TXFULL is clear.
putc(u) ==
  /\ App(u)
  /\ fifo[u] < Depth
  /\ fifo' = [fifo EXCEPT ![u] = @ + 1]
  /\ UNCHANGED <<clock, up, shift, div, txcnt, x, rx, last>>

\* Slip: RXDATA is read once for the flag and once for the byte.
getc_reads_twice(u) ==
  /\ App(u) /\ Len(rx[u]) > 1
  /\ last' = [last EXCEPT ![u].c = rx[u][2]]
  /\ rx' = [rx EXCEPT ![u] = Tail(Tail(@))]
  /\ UNCHANGED <<clock, up, fifo, shift, div, txcnt, x>>

\* metal_tty_getc: one load of RXDATA brings the flag and the byte; repeated while empty.
getc(u) ==
  /\ App(u) /\ rx[u] # <<>>
  /\ last' = [last EXCEPT ![u].c = Head(rx[u])]
  /\ rx' = [rx EXCEPT ![u] = Tail(@)]
  /\ UNCHANGED <<clock, up, fifo, shift, div, txcnt, x>>

\* TXCTRL |= UART_TXCNT(level)
Or(a, b) == CHOOSE n \in 0 .. 7 : \A i \in {1, 2, 4} :
              (n \div i) % 2 = 1 <=> (a \div i) % 2 = 1 \/ (b \div i) % 2 = 1
set_tx_watermark(u, level) ==
  /\ App(u)
  /\ txcnt' = [txcnt EXCEPT ![u] = Or(@, level)]
  /\ UNCHANGED <<clock, up, fifo, shift, div, x, rx, last>>

-----------------------------------------------------------------------------
(* A change of the clock's rate. *)

BeginChange ==
  /\ Idle
  /\ at' = "pre" /\ cur' = list["pre"].head /\ called' = [k \in Clock!Kind |-> <<>>]
  /\ UNCHANGED <<list, registered, rate, up, fifo, shift, div, txcnt, x, rx, last>>

\* Slip: the watermark is or'ed with one, without clearing it.
PreCallback_or ==
  /\ at = "pre" /\ cur # NULL
  /\ txcnt' = [txcnt EXCEPT ![cur] = Or(@, 1)]
  /\ at' = "empty"
  /\ UNCHANGED <<list, registered, rate, cur, called, up, fifo, shift, div, x, rx, last>>

\* Slip: the watermark is cleared and not set to one.
PreCallback_zero ==
  /\ at = "pre" /\ cur # NULL
  /\ txcnt' = [txcnt EXCEPT ![cur] = 0]
  /\ at' = "empty"
  /\ UNCHANGED <<list, registered, rate, cur, called, up, fifo, shift, div, x, rx, last>>

\* pre_rate_change_callback_func: the watermark becomes one...
PreCallback ==
  /\ at = "pre" /\ cur # NULL
  /\ txcnt' = [txcnt EXCEPT ![cur] = 1]
  /\ at' = "empty"
  /\ UNCHANGED <<list, registered, rate, cur, called, up, fifo, shift, div, x, rx, last>>

\* ...the FIFO runs empty...
Empty ==
  /\ at = "empty" /\ TXWM(cur)
  /\ at' = "drain" /\ x' = 0
  /\ UNCHANGED <<list, registered, rate, cur, called, up, fifo, shift, div, txcnt, rx, last>>

cycles_to_wait == Wrap(Bits * rate) \div Baud

\* ...and the loop waits a character's time, at least one cycle a turn.
DrainLoop ==
  /\ at = "drain" /\ x < cycles_to_wait
  /\ x' = x + 1 /\ OneTick
  /\ UNCHANGED <<clock, up, div, txcnt, rx, last>>

\* Slip: the callback returns when the FIFO is empty.
EndPreCallback_early ==
  /\ at = "drain"
  /\ at' = "pre" /\ cur' = list["pre"].next[cur] /\ x' = 0
  /\ called' = [called EXCEPT !["pre"] = Append(@, cur)]
  /\ UNCHANGED <<list, registered, rate, up, fifo, shift, div, txcnt, rx, last>>

\* Slip: only the first UART's callback is called.
EndPreCallback_first ==
  /\ at = "drain" /\ x >= cycles_to_wait
  /\ at' = "pre" /\ cur' = NULL /\ x' = 0
  /\ called' = [called EXCEPT !["pre"] = Append(@, cur)]
  /\ UNCHANGED <<list, registered, rate, up, fifo, shift, div, txcnt, rx, last>>

EndPreCallback ==
  /\ at = "drain" /\ x >= cycles_to_wait
  /\ at' = "pre" /\ cur' = list["pre"].next[cur] /\ x' = 0
  /\ called' = [called EXCEPT !["pre"] = Append(@, cur)]
  /\ UNCHANGED <<list, registered, rate, up, fifo, shift, div, txcnt, rx, last>>

SetRate ==
  /\ at = "pre" /\ cur = NULL
  /\ rate' \in Rates
  /\ at' = "post" /\ cur' = list["post"].head
  /\ UNCHANGED <<list, registered, called, up, fifo, shift, div, txcnt, x, rx, last>>

\* Slip: the callback keeps the divisor it finds.
PostCallback_keeps ==
  /\ at = "post" /\ cur # NULL
  /\ cur' = list["post"].next[cur]
  /\ called' = [called EXCEPT !["post"] = Append(@, cur)]
  /\ UNCHANGED <<list, registered, rate, at, up, fifo, shift, div, txcnt, x, rx, last>>

\* post_rate_change_callback_func sets the same baud rate again.
PostCallback ==
  /\ at = "post" /\ cur # NULL
  /\ set_baud_rate(cur)
  /\ cur' = list["post"].next[cur]
  /\ called' = [called EXCEPT !["post"] = Append(@, cur)]
  /\ UNCHANGED <<list, registered, rate, at, up, fifo, shift, txcnt, x, rx, last>>

EndChange ==
  /\ at = "post" /\ cur = NULL
  /\ at' = "idle"
  /\ UNCHANGED <<list, registered, rate, cur, called, up, fifo, shift, div, txcnt, x, rx, last>>

-----------------------------------------------------------------------------

\* Reset: nothing enabled, watermarks zero.
Init ==
  /\ list = [k \in Clock!Kind |-> [head |-> NULL, next |-> [u \in Uart |-> NULL]]]
  /\ registered = [k \in Clock!Kind |-> <<>>] /\ called = [k \in Clock!Kind |-> <<>>]
  /\ rate \in Rates /\ at = "idle" /\ cur = NULL
  /\ up = {} /\ x = 0
  /\ fifo = [u \in Uart |-> 0] /\ shift = [u \in Uart |-> 0] /\ div = [u \in Uart |-> -1]
  /\ txcnt = [u \in Uart |-> 0]
  /\ rx = [u \in Uart |-> <<>>] /\ last = [u \in Uart |-> [c |-> 3, next |-> 0]]

Change == \/ InitPost \/ PreCallback \/ Empty \/ DrainLoop \/ EndPreCallback
          \/ SetRate \/ PostCallback \/ EndChange

Receive == \E u \in Uart : getc(u) \/ Arrive(u)
Transmit ==
  \/ \E u \in Uart : InitPre(u) \/ putc(u)
  \/ \E u \in Uart, level \in Levels : set_tx_watermark(u, level)
  \/ BeginChange \/ Change \/ Tick
Next == Transmit \/ Receive

\* The processor runs on and so does the transmitters' clock.
Spec == Init /\ [][Next]_vars /\ WF_vars(Change) /\ WF_vars(Tick)

-----------------------------------------------------------------------------
(* Properties. *)

\* Whenever the program runs, every initialised UART divides the present rate
\* to its baud rate (sifive_uart0.c:136-151 and 182-185).
DivisorFitsRate == Idle => \A u \in up : (div[u] + 1) * Baud = rate

\* The UARTs' callbacks are the clock's: the clock behaves as MetalClock says, no registration
\* cuts off another's callback, and a change calls them all in order (clock.h:61-136).
ImplementsClock == Clock!Safe /\ []Clock!ListsHoldRegistered /\ Clock!EveryCallbackRuns

\* The rate changes only when no UART has a character to send (sifive_uart0.c:153-179).
DrainedFirst == rate' # rate => \A u \in up : fifo[u] = 0 /\ shift[u] = 0

\* No character is written to a full FIFO (sifive_uart0.c:108-115).
RoomFirst == \A u \in up : fifo'[u] <= Depth

\* metal_tty_getc returns every character once and in order (sifive_uart0.c:117-129).
InOrder == \A u \in Uart : last'[u].c # last[u].c => last'[u].c = (last[u].c + 1) % 4

=============================================================================
