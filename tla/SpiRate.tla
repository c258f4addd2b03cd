-------------------------------- MODULE SpiRate --------------------------------
(***************************************************************************)
(* The frame clock of the SPI (freedom-metal, sifive_spi0.c): its divider, *)
(* computed by set_baud_rate and again whenever the source clock changes.  *)
(***************************************************************************)
EXTENDS Integers

CONSTANTS
  Clocks,   \* rates of the source clock
  Bauds,    \* rates asked for
  SCKDIV    \* the divider's values are 0 .. SCKDIV (METAL_SPI_SCKDIV_MASK)

RateAssumption == Clocks \subseteq Nat \ {0} /\ Bauds \subseteq Nat \ {0}
MaskAssumption == SCKDIV \in Nat \ {0}

VARIABLES
  clock_rate,
  baud_rate,   \* the rate asked for last
  sckdiv,
  ret          \* what the program's last call returned

vars == <<clock_rate, baud_rate, sckdiv, ret>>

\* Slip: the divider is one too large.
Div_plain(c, b) == c \div (2 * b)
Div(c, b) == c \div (2 * b) - 1

\* A divider that does not fit is refused...
Refused(c, b) == Div(c, b) > SCKDIV

\* Slip: the divider is computed from the clock's rate before the change.
Divide_stale(c, b) == sckdiv' = IF Refused(c, b) THEN sckdiv ELSE Div(clock_rate, b) % (SCKDIV + 1)

\* ...and the old one kept; the others are masked.
Divide(c, b) == sckdiv' = IF Refused(c, b) THEN sckdiv ELSE Div(c, b) % (SCKDIV + 1)

set_baud_rate(b) ==
  /\ baud_rate' = b /\ Divide(clock_rate, b)
  /\ ret' = IF Refused(clock_rate, b) THEN -1 ELSE 0
  /\ UNCHANGED clock_rate

\* metal_clock_set_rate_hz: the first callback waits for an empty queue, the second one asks
\* for the same rate again and drops the result.
Change ==
  /\ clock_rate' \in Clocks /\ Divide(clock_rate', baud_rate)
  /\ UNCHANGED <<baud_rate, ret>>

\* metal_spi_init registers the callbacks and sets the first rate, before any change; if that
\* is refused, the divider is whatever the register held.
Init ==
  /\ clock_rate \in Clocks /\ baud_rate \in Bauds
  /\ sckdiv \in IF Refused(clock_rate, baud_rate) THEN 0 .. SCKDIV
                ELSE {Div(clock_rate, baud_rate) % (SCKDIV + 1)}
  /\ ret = 0

Next == Change \/ \E b \in Bauds : set_baud_rate(b)
Spec == Init /\ [][Next]_vars

-----------------------------------------------------------------------------
(* Properties. *)

\* The rate divided by 2 (sckdiv + 1) is at most b, or at least b.
AtLeast(b) == clock_rate >= 2 * (sckdiv + 1) * b
Below(b) == clock_rate < 2 * (sckdiv + 1) * b

\* The frame clock is the rate asked for last, up to twice as fast, whenever the present clock
\* can be divided to that rate: however the clock has changed since the call, and although the
\* rate was refused at some clock in between.  (At such a clock the divider stays as it was, and
\* a program whose call had returned 0 is not told.)
RateAsAsked ==
  2 * baud_rate <= clock_rate /\ ~Refused(clock_rate, baud_rate)
    => AtLeast(baud_rate) /\ Below(2 * baud_rate)
===============================================================================
