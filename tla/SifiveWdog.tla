----------------------------- MODULE SifiveWdog ------------------------------
(***************************************************************************)
(* The watchdog driver of freedom-metal (drivers/sifive_wdog0.c), register *)
(* access by register access, on a watchdog that counts and compares       *)
(* meanwhile: a write counts only after a write of the key, and a watchdog *)
(* that bites may reset the program.                                       *)
(***************************************************************************)
EXTENDS Integers, Sequences

CONSTANTS
  TimeoutMask,   \* METAL_WDOGCMP_MASK
  ScaleMask,     \* METAL_WDOGCFG_SCALE_MASK
  ClockRate,     \* of the watchdog's clock
  Rates, Timeouts,   \* that are asked for
  MaxCalls,      \* bound: calls of the program, resets or not
  Top            \* bound: no time further than this is told apart

WatchdogAssumption ==
  /\ TimeoutMask \in Nat \ {0} /\ ScaleMask \in Nat \ {0} /\ ClockRate \in Nat \ {0}
  /\ Top \in Nat /\ Top >= TimeoutMask * 2 ^ ScaleMask
  /\ Rates \subseteq Nat /\ Timeouts \subseteq Nat
\* The divisors of the clock are numbers.
ScaleAssumption == \A s \in 0 .. ScaleMask : 2 ^ s \in Nat \ {0}

VARIABLES
  wcfg, wcmp,    \* WDOGCFG and WDOGCMP
  wcount,        \* WDOGCOUNT
  unlocked,      \* the key was the last write
  todo,          \* accesses the call has still to make
  read,          \* WDOGCFG as the call read it last
  asked,         \* what the calls that returned have set
  setting,       \* what the present call sets, from its beginning
  since,         \* ticks since the program fed or started the watchdog
  bitten,        \* the watchdog has matched since then
  wcalls

wdogVars == <<wcfg, wcmp, wcount, unlocked, todo, read, asked, setting, since, bitten, wcalls>>

-----------------------------------------------------------------------------
(* The watchdog (external). *)

Off == [scale |-> 0, rsten |-> FALSE, zerocmp |-> FALSE, always |-> FALSE, awake |-> FALSE, ip |-> FALSE]
Nothing == [timeout |-> TimeoutMask, result |-> "NO_RESULT", run |-> "STOP"]

WdogInit ==
  /\ wcfg = Off /\ wcmp = TimeoutMask /\ wcount = 0 /\ unlocked = FALSE
  /\ todo = << >> /\ read = Off /\ asked = Nothing /\ setting = Nothing
  /\ since = 0 /\ bitten = FALSE /\ wcalls = 0

Runs == wcfg.always \/ wcfg.awake
Matches == (wcount \div 2 ^ wcfg.scale) >= wcmp

Tick ==
  /\ Runs /\ ~Matches /\ wcount < Top
  /\ wcount' = wcount + 1 /\ since' = IF since < Top THEN since + 1 ELSE since
  /\ UNCHANGED <<wcfg, wcmp, unlocked, todo, read, asked, setting, bitten, wcalls>>

\* The match raises the interrupt, and with RSTEN it resets the chip and the program with it.
Bite ==
  /\ Runs /\ Matches
  /\ bitten' = TRUE /\ since' = IF wcfg.zerocmp \/ wcfg.rsten THEN 0 ELSE since
  /\ IF wcfg.rsten
     THEN /\ wcfg' = Off /\ wcmp' = TimeoutMask /\ wcount' = 0 /\ unlocked' = FALSE
          /\ todo' = << >> /\ read' = Off /\ asked' = Nothing /\ setting' = Nothing
     ELSE /\ wcfg' = [wcfg EXCEPT !.ip = TRUE]
          /\ wcount' = IF wcfg.zerocmp THEN 0 ELSE wcount
          /\ UNCHANGED <<wcmp, unlocked, todo, read, asked, setting>>
  /\ <<wcfg', wcount', bitten'>> # <<wcfg, wcount, bitten>>
  /\ UNCHANGED wcalls

-----------------------------------------------------------------------------
(* The accesses of a call. *)

Unlock == [a |-> "key"]
\* WDOG_UNLOCK_REGW(WDOGCFG) &= and |=: the key, the load and the store of all fields.
\* Slip: the key is left out.
Config_keyless(fields) == << [a |-> "load"], [a |-> "config", fields |-> fields] >>
Config(fields) == << Unlock, [a |-> "load"], [a |-> "config", fields |-> fields] >>
\* Slip: the key is left out.
Feed_keyless == << [a |-> "feed"] >>
Feed == << Unlock, [a |-> "feed"] >>
\* Slip: the field is masked in place, as the driver's comment warns.
Compare_in_place(t) ==
  << Unlock, [a |-> "compare", value |-> 0], Unlock, [a |-> "compare", value |-> t] >>
Compare(t) == << Unlock, [a |-> "compare", value |-> t] >>

With(c, fields) == [f \in DOMAIN c |-> IF f \in DOMAIN fields THEN fields[f] ELSE c[f]]

\* The next access; a store without the key changes nothing.
Access ==
  /\ todo # << >>
  /\ LET x == Head(todo) IN
     /\ unlocked' = CASE x.a = "key" -> TRUE [] x.a = "load" -> unlocked [] OTHER -> FALSE
     /\ read' = IF x.a = "load" THEN wcfg ELSE read
     /\ wcfg' = IF x.a = "config" /\ unlocked THEN With(read, x.fields) ELSE wcfg
     /\ wcount' = IF x.a = "feed" /\ unlocked THEN 0 ELSE wcount
     /\ wcmp' = IF x.a = "compare" /\ unlocked THEN x.value ELSE wcmp
     /\ since' = IF x.a = "feed" \/ (Runs' /\ ~Runs) THEN 0 ELSE since
     /\ bitten' = (bitten /\ x.a # "feed")
  /\ todo' = Tail(todo)
  /\ asked' = IF Len(todo) = 1 THEN setting ELSE asked
  /\ UNCHANGED <<setting, wcalls>>

-----------------------------------------------------------------------------
(* The calls of metal/watchdog.h that write. *)

Call(accesses, sets) ==
  /\ todo = << >> /\ wcalls < MaxCalls
  /\ wcalls' = wcalls + 1 /\ todo' = accesses /\ setting' = With(asked, sets)
  /\ UNCHANGED <<wcfg, wcmp, wcount, unlocked, read, asked, since, bitten>>

feed == Call(Feed, << >>)

Distance(x, y) == IF x > y THEN x - y ELSE y - x
\* The first of the closest scales; the last scale is not tried.
min_scale(rate) ==
  CHOOSE s \in 0 .. ScaleMask - 1 : \A t \in 0 .. ScaleMask - 1 :
    LET d(x) == Distance(rate, ClockRate \div 2 ^ x) IN d(s) < d(t) \/ (d(s) = d(t) /\ s <= t)

\* While the watchdog runs a new rate passes through that of scale 0, and the watchdog may
\* match; the program sets the rate before it starts it.
set_rate(rate) ==
  /\ asked.run = "STOP"
  /\ Call(Config([scale |-> 0]) \o
            IF rate >= ClockRate THEN << >> ELSE Config([scale |-> min_scale(rate)]), << >>)

set_timeout(timeout) ==
  LET t == IF timeout > TimeoutMask THEN TimeoutMask ELSE timeout
  IN  Call(Compare(t), [timeout |-> t])

set_result(result) ==
  Call(Config([rsten |-> FALSE, zerocmp |-> FALSE]) \o
         CASE result = "NO_RESULT" -> << >>
           [] result = "INTERRUPT" -> Config([zerocmp |-> TRUE])
           [] result = "FULL_RESET" -> Config([rsten |-> TRUE]),
       [result |-> result])

Enable(option) ==
  CASE option = "STOP" -> << >>
    [] option = "RUN_ALWAYS" -> Config([always |-> TRUE])
    [] option = "RUN_AWAKE" -> Config([awake |-> TRUE])

\* Slip: the watchdog is fed when it runs already.
run_then_feed(option) ==
  Call(Config([always |-> FALSE, awake |-> FALSE]) \o Enable(option) \o
         (IF option = "STOP" THEN << >> ELSE Feed), [run |-> option])
run(option) ==
  Call(Config([always |-> FALSE, awake |-> FALSE]) \o
         (IF option = "STOP" THEN << >> ELSE Feed) \o Enable(option), [run |-> option])

clear_interrupt == Call(Config([ip |-> FALSE]), << >>)

Program ==
  \/ feed \/ clear_interrupt
  \/ \E r \in Rates : set_rate(r)
  \/ \E t \in Timeouts : set_timeout(t)
  \/ \E r \in {"NO_RESULT", "INTERRUPT", "FULL_RESET"} : set_result(r)
  \/ \E o \in {"STOP", "RUN_ALWAYS", "RUN_AWAKE"} : run(o)

WdogNext == Tick \/ Bite \/ Access \/ Program
WdogSpec == WdogInit /\ [][WdogNext]_wdogVars

-----------------------------------------------------------------------------
(* Properties. *)

\* The watchdog matches no earlier than the timeout after it was fed or started, also while a
\* call changes the timeout, the result or whether it runs (sifive_wdog0.c:119-140, 172-201).
Patient ==
  Runs /\ Matches =>
    since >= (IF setting.timeout < asked.timeout THEN setting.timeout ELSE asked.timeout) * 2 ^ wcfg.scale

\* Between calls the registers are as the calls asked, every store having had its key, out
\* of reset as well (sifive_wdog0.c:30-38).
AsAsked ==
  todo = << >> =>
    /\ wcmp = asked.timeout
    /\ Runs <=> asked.run # "STOP"
    /\ wcfg.rsten <=> asked.result = "FULL_RESET"
    /\ wcfg.zerocmp <=> asked.result = "INTERRUPT"

\* A program that hangs is found out: once it makes no more calls, a watchdog it started bites.
FindsOut == (wcalls = MaxCalls /\ asked.run # "STOP") ~> (bitten \/ asked.run = "STOP")
=============================================================================
