--------------------------------- MODULE FePll ---------------------------------
(***************************************************************************)
(* The PLL that drives the core clock (freedom-metal,                      *)
(* sifive_fe310-g000_pll.c): a change of its rate takes the core clock off *)
(* it, chooses and writes a configuration, waits for the lock and goes     *)
(* back.                                                                   *)
(***************************************************************************)
EXTENDS Integers, Sequences

CONSTANTS
  Refs,    \* rates of the two oscillators
  Wanted,  \* rates asked for
  Ticks    \* bound: ticks of mtime counted after a configuration

ASSUME RefsAssumption == Refs \subseteq Nat \ {0} /\ Wanted \subseteq Nat
ASSUME TicksAssumption == Ticks \in Nat /\ Ticks > 4

PLL_LOCK_WAIT_TICKS == 4

VARIABLES
  refs,      \* rates of HFROSC and HFXOSC
  pllcfg,    \* [sel, refsel, bypass, r, f, q]
  plloutdiv, \* [div_1, div]
  locked,    \* the PLL's output is stable
  ticks,     \* of mtime, since the PLL was configured
  step, want, \* where set_rate_hz is, and its argument
  returned   \* what it returned last

vars == <<refs, pllcfg, plloutdiv, locked, ticks, step, want, returned>>

-----------------------------------------------------------------------------
(* The configurations. *)

\* multiplier, divisor, min_input_rate, max_input_rate, r, f, q, d (below 0: disabled)
pll_configs ==
  << <<1,32,12000000,24000000,1,31,3,63>>, <<1,32,24000000,48000000,3,31,2,63>>,
     <<1,16,6000000,12000000,0,31,3,63>>, <<1,16,12000000,24000000,1,31,2,63>>,
     <<1,16,24000000,48000000,3,31,2,31>>, <<1,8,6000000,12000000,0,31,3,31>>,
     <<1,8,12000000,24000000,1,31,2,31>>, <<1,8,24000000,48000000,3,31,2,15>>,
     <<1,4,6000000,12000000,0,31,3,15>>, <<1,4,12000000,24000000,1,31,2,15>>,
     <<1,4,24000000,48000000,3,31,2,7>>, <<1,2,6000000,12000000,0,31,2,15>>,
     <<1,2,12000000,24000000,1,31,1,15>>, <<1,2,24000000,48000000,3,31,1,7>>,
     <<2,1,6000000,12000000,0,31,1,7>>, <<2,1,12000000,24000000,1,31,1,3>>,
     <<2,1,24000000,48000000,3,31,3,-1>>, <<4,1,6000000,12000000,0,31,3,0>>,
     <<4,1,12000000,24000000,1,31,3,-1>>, <<4,1,24000000,48000000,3,31,2,-1>>,
     <<6,1,6000000,10666666,0,35,1,2>>, <<6,1,10666666,12000000,0,23,3,-1>>,
     <<6,1,12000000,16000000,1,47,3,-1>>, <<6,1,16000000,18000000,1,23,2,-1>>,
     <<6,1,18000000,21333333,2,35,2,-1>>, <<8,1,6000000,12000000,0,31,3,-1>>,
     <<8,1,12000000,24000000,1,31,2,-1>>, <<8,1,24000000,48000000,3,31,1,-1>>,
     <<10,1,6000000,9600000,0,39,3,-1>>, <<10,1,9600000,12000000,0,19,2,-1>>,
     <<10,1,12000000,19200000,1,39,2,-1>>, <<10,1,19200000,24000000,1,19,1,-1>>,
     <<10,1,24000000,38400000,3,39,1,-1>>, <<12,1,6000000,8000000,0,47,3,-1>>,
     <<12,1,8000000,12000000,0,23,2,-1>>, <<12,1,12000000,16000000,1,47,2,-1>>,
     <<12,1,16000000,24000000,1,23,1,-1>>, <<12,1,24000000,30000000,3,47,1,-1>>,
     <<12,1,30000000,32000000,3,47,1,-1>>, <<14,1,6000000,6857142,0,55,3,-1>>,
     <<14,1,6857143,12000000,0,27,2,-1>>, <<14,1,12000000,13714285,1,55,2,-1>>,
     <<14,1,13714286,24000000,1,27,1,-1>>, <<14,1,24000000,27428571,3,55,1,-1>>,
     <<16,1,6000000,12000000,0,31,2,-1>>, <<16,1,12000000,24000000,1,31,1,-1>>,
     <<18,1,6000000,10666666,0,35,2,-1>>, <<18,1,10666667,12000000,0,17,1,-1>>,
     <<18,1,12000000,21333333,1,35,1,-1>>, <<20,1,6000000,9600000,0,39,2,-1>>,
     <<20,1,9600000,12000000,0,19,1,-1>>, <<20,1,12000000,19200000,1,39,1,-1>>,
     <<22,1,6000000,8727272,0,43,2,-1>>, <<22,1,8727273,12000000,0,21,1,-1>>,
     <<22,1,12000000,17454545,1,43,1,-1>>, <<24,1,6000000,8000000,0,47,2,-1>>,
     <<24,1,8000000,12000000,0,23,1,-1>>, <<24,1,12000000,16000000,1,47,1,-1>>,
     <<26,1,6000000,7384615,0,51,2,-1>>, <<26,1,7384616,12000000,0,25,1,-1>>,
     <<26,1,12000000,14768230,1,51,1,-1>>, <<28,1,6000000,6857142,0,55,2,-1>>,
     <<28,1,6857143,12000000,0,27,1,-1>>, <<28,1,12000000,13714285,1,55,1,-1>>,
     <<30,1,6000000,6400000,0,59,2,-1>>, <<30,1,6400000,12000000,0,29,1,-1>>,
     <<30,1,12000000,12800000,1,59,1,-1>>, <<32,1,6000000,12000000,0,31,1,-1>> >>

\* Slip: multiplier and divisor are swapped.
Freq_swapped(c, ref) == (ref * c[2]) \div c[1]
Freq(c, ref) == (ref * c[1]) \div c[2]
\* get_pll_config_freq is PLL_CONFIG_NOT_VALID outside of the input rates.
ValidFor(c, ref) == c[3] <= ref /\ ref <= c[4]

Distance(a, b) == IF a > b THEN a - b ELSE b - a

\* sizeof(pll_configs) / sizeof(pll_configs[0])
num_configs == 68
ConfigsFor(ref) == {n \in 1 .. num_configs : ValidFor(pll_configs[n], ref)}
\* Slip: closest_diff keeps its first value.
find_closest_config_last(ref, w) ==
  IF ConfigsFor(ref) = {} THEN 0 ELSE CHOOSE n \in ConfigsFor(ref) : \A m \in ConfigsFor(ref) : n <= m
\* The loop from the last configuration to the first keeps the first of the closest; 0 if none
\* is valid.
find_closest_config(ref, w) ==
  LET valid == ConfigsFor(ref)
      diff == [n \in valid |-> Distance(Freq(pll_configs[n], ref), w)]
  IN IF valid = {} THEN 0
     ELSE CHOOSE n \in valid : \A m \in valid : diff[n] < diff[m] \/ (diff[n] = diff[m] /\ m <= n)
Closest == [ref \in Refs |-> [w \in Wanted |-> find_closest_config(ref, w)]]

-----------------------------------------------------------------------------
(* The rate that the registers stand for. *)

pllref == refs.hfxosc
pllsel0 == refs.hfrosc
ref_hz(cfg) == IF cfg.refsel THEN pllref ELSE pllsel0

\* A three stage div-mul-div, which no configuration runs with q = 0; and a divider behind it, off below 0.
Output(ref, r, f, q, d) ==
  LET pllout == ((ref \div (r + 1)) * (2 * (f + 1))) \div 2 ^ q
  IN IF q = 0 THEN -1 ELSE IF d < 0 THEN pllout ELSE pllout \div (2 * (d + 1))

get_rate_hz(cfg, out) ==
  IF ~cfg.sel THEN pllsel0
  ELSE IF cfg.bypass THEN ref_hz(cfg)
  ELSE Output(ref_hz(cfg), cfg.r, cfg.f, cfg.q, IF out.div_1 THEN -1 ELSE out.div)

\* The divisions of the registers' fields do not round away what the table multiplies.
ExactAssumption ==
  \A ref \in Refs : \A n \in ConfigsFor(ref) :
    LET c == pll_configs[n] IN
    (ref * c[1]) \div c[2] \in Nat /\ Output(ref, c[5], c[6], c[7], c[8]) = (ref * c[1]) \div c[2]

-----------------------------------------------------------------------------
(* The PLL, which locks after at most 100 microseconds, and mtime.  Within *)
(* PLL_LOCK_WAIT_TICKS whole ticks the LOCK bit may be anything.           *)

Lock == ~locked /\ locked' = TRUE /\ UNCHANGED <<refs, pllcfg, plloutdiv, ticks, step, want, returned>>
Tick == ticks < Ticks /\ ticks' = ticks + 1 /\ UNCHANGED <<refs, pllcfg, plloutdiv, locked, step, want, returned>>
LockBit == IF ticks <= PLL_LOCK_WAIT_TICKS THEN BOOLEAN ELSE {locked}

-----------------------------------------------------------------------------
(* The driver. *)

\* The registers after a reset, or as a loader left them.
Init ==
  /\ refs \in [hfrosc : Refs, hfxosc : Refs]
  /\ pllcfg \in {[sel |-> s, refsel |-> x, bypass |-> TRUE, r |-> 1, f |-> 31, q |-> 3] : s, x \in BOOLEAN}
  /\ plloutdiv = [div_1 |-> TRUE, div |-> 0]
  /\ locked \in BOOLEAN /\ ticks = 0
  /\ step = "idle" /\ want \in Wanted /\ returned = 0

\* Slip: the core clock stays on the PLL.
set_rate_hz_selected ==
  /\ step = "idle" /\ step' = "choose" /\ want' \in Wanted
  /\ UNCHANGED <<refs, pllcfg, plloutdiv, locked, ticks, returned>>

\* The core clock leaves the PLL.
set_rate_hz ==
  /\ step = "idle" /\ step' = "choose" /\ want' \in Wanted
  /\ pllcfg' = [pllcfg EXCEPT !.sel = FALSE]
  /\ UNCHANGED <<refs, plloutdiv, locked, ticks, returned>>

\* __metal_driver_sifive_fe310_g000_pll_init: off the PLL, then on to the crystal.
pll_init ==
  /\ step = "idle" /\ step' = "choose" /\ want' \in Wanted
  /\ pllcfg' = [pllcfg EXCEPT !.sel = FALSE, !.refsel = TRUE]
  /\ locked' = (locked /\ pllcfg.refsel)
  /\ UNCHANGED <<refs, plloutdiv, ticks, returned>>

\* Within 75 % and 125 % of the reference.
Near(w) == (ref_hz(pllcfg) * 3) \div 4 <= w /\ (ref_hz(pllcfg) * 5) \div 4 >= w
Index == Closest[ref_hz(pllcfg)][want]

Bypass ==
  /\ step = "choose" /\ (Near(want) \/ Index = 0)
  /\ pllcfg' = [pllcfg EXCEPT !.bypass = TRUE] /\ step' = "select"
  /\ UNCHANGED <<refs, plloutdiv, locked, ticks, want, returned>>

\* Slip: the final divider stays enabled.
Divider_kept(d) == [div_1 |-> plloutdiv.div_1 /\ d < 0, div |-> IF d < 0 THEN 1 ELSE d]
Divider(d) == [div_1 |-> d < 0, div |-> IF d < 0 THEN 1 ELSE d]

configure_pll ==
  LET c == pll_configs[Index] IN
  /\ step = "choose" /\ ~Near(want) /\ Index # 0
  /\ pllcfg' = [pllcfg EXCEPT !.bypass = FALSE, !.r = c[5], !.f = c[6], !.q = c[7]]
  /\ plloutdiv' = Divider(c[8])
  /\ locked' = FALSE /\ ticks' = 0 /\ step' = "stabilize"
  /\ UNCHANGED <<refs, want, returned>>

\* Slip: the fourth tick, which may come at once after the third, is not waited for.
Stabilize_short ==
  /\ step = "stabilize" /\ ticks >= PLL_LOCK_WAIT_TICKS /\ step' = "lock"
  /\ UNCHANGED <<refs, pllcfg, plloutdiv, locked, ticks, want, returned>>

\* while (mtime <= mtime_end)
Stabilize ==
  /\ step = "stabilize" /\ ticks > PLL_LOCK_WAIT_TICKS /\ step' = "lock"
  /\ UNCHANGED <<refs, pllcfg, plloutdiv, locked, ticks, want, returned>>

\* while ((pllcfg & PLL_LOCK) == 0)
AwaitLock ==
  /\ step = "lock" /\ TRUE \in LockBit /\ step' = "select"
  /\ UNCHANGED <<refs, pllcfg, plloutdiv, locked, ticks, want, returned>>

\* The core clock goes back to the PLL, and the rate is computed from the registers.
Select ==
  /\ step = "select" /\ step' = "idle"
  /\ pllcfg' = [pllcfg EXCEPT !.sel = TRUE]
  /\ returned' = get_rate_hz(pllcfg', plloutdiv)
  /\ UNCHANGED <<refs, plloutdiv, locked, ticks, want>>

Driver == Bypass \/ configure_pll \/ Stabilize \/ AwaitLock \/ Select
Next == set_rate_hz \/ pll_init \/ Driver \/ Lock \/ Tick
\* The processor runs, the time goes on and the PLL locks.
Spec == Init /\ [][Next]_vars /\ WF_vars(Driver) /\ WF_vars(Lock) /\ WF_vars(Tick)

-----------------------------------------------------------------------------
(* Properties. *)

Step == {"idle", "choose", "stabilize", "lock", "select"}
\* Every variable has its type.
PllTypeOK ==
  /\ refs \in [hfrosc : Refs, hfxosc : Refs]
  /\ pllcfg \in [sel : BOOLEAN, refsel : BOOLEAN, bypass : BOOLEAN, r : 0 .. 7, f : 0 .. 63, q : 0 .. 3]
  /\ plloutdiv \in [div_1 : BOOLEAN, div : 0 .. 63]
  /\ locked \in BOOLEAN /\ ticks \in 0 .. Ticks
  /\ step \in Step /\ want \in Wanted /\ returned \in Int

\* The core clock never runs on a PLL that is not locked, whatever rates are asked for one
\* after the other (sifive_fe310-g000_pll.c:289-342 and 359-383).
NeverUnlocked == pllcfg.sel /\ ~pllcfg.bypass => locked

\* The rate that a change returns, computed back from the registers, is the oscillator's if
\* that is near enough, and otherwise the nearest that the table has
\* (sifive_fe310-g000_pll.c:140-147, 193-243, 253-273 and 368-385).
RateIsClosest ==
  step = "idle" /\ returned # 0 =>
    IF Near(want) \/ ConfigsFor(ref_hz(pllcfg)) = {}
    THEN returned = ref_hz(pllcfg)
    ELSE \A n \in ConfigsFor(ref_hz(pllcfg)) :
           Distance(returned, want)
             <= Distance((ref_hz(pllcfg) * pll_configs[n][1]) \div pll_configs[n][2], want)

===============================================================================
