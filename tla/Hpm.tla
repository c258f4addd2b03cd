---------------------------------- MODULE Hpm ----------------------------------
(***************************************************************************)
(* Performance counters of a 32-bit hart (freedom-metal, hpm.c): they are  *)
(* found by their event registers, and a counter that goes on counting is  *)
(* cleared and read half by half.                                          *)
(***************************************************************************)
EXTENDS Integers

CONSTANTS
  Last,          \* METAL_HPM_COUNTER_31; the first that events drive is 3
  Implemented,   \* counters of the hart, 3 .. n
  W,             \* bits of a half
  Top            \* bound: no counter counts further

ImplementedAssumption == Last \in Nat /\ Last > 2 /\ \E n \in 2 .. Last : Implemented = 3 .. n
HalfAssumption == W \in Nat /\ 2 ^ W \in Nat \ {0}

METAL_HPM_CYCLE == 0
METAL_HPM_TIME == 1
METAL_HPM_INSTRET == 2
Counter == 0 .. Last
Base == 2 ^ W

VARIABLES
  hpm_count,    \* 0 before metal_hpm_init
  mhpmevent,    \* counters whose event register is not 0
  count,        \* the counters
  ctr,          \* the counter of the call
  hpmAt,        \* the call's next access
  vh, vl,       \* the halves it has read
  begun,        \* the counter's value when the call began, and since then the ticks
  val           \* what the last call returned, or -1

hpmVars == <<hpm_count, mhpmevent, count, ctr, hpmAt, vh, vl, begun, val>>

HpmInit ==
  /\ hpm_count = 0 /\ mhpmevent \in SUBSET Implemented
  /\ count = [n \in Counter |-> 0]
  /\ ctr = 0 /\ hpmAt = "idle" /\ vh = 0 /\ vl = 0 /\ begun = [value |-> 0, ticks |-> 0] /\ val = -1

-----------------------------------------------------------------------------
(* The hart: a counter with an event may count at any time; during a call  *)
(* the others, which it does not touch, are left as they are.              *)

Running == {METAL_HPM_CYCLE, METAL_HPM_INSTRET} \cup (mhpmevent \cap Implemented)
Tick ==
  /\ \E n \in Running :
       /\ count[n] < Top /\ (hpmAt # "idle" => n = ctr)
       /\ count' = [count EXCEPT ![n] = @ + 1]
       /\ begun' = IF hpmAt = "idle" THEN begun ELSE [begun EXCEPT !.ticks = @ + 1]
  /\ UNCHANGED <<hpm_count, mhpmevent, ctr, hpmAt, vh, vl, val>>

-----------------------------------------------------------------------------
(* The driver. *)

Idle == hpmAt = "idle"
Known(n) == n < hpm_count
Hi(v) == v \div Base
Lo(v) == v % Base

\* Slip: one counter too many is counted.
Found_more == 1 + CHOOSE n \in 3 .. Last : n \notin Implemented \/ n = Last
\* The first counter from 3 on whose event register stays 0; the last is not looked at.
Found == CHOOSE n \in 3 .. Last : /\ n \notin Implemented \/ n = Last
                                  /\ \A k \in 3 .. n - 1 : k \in Implemented

\* A call that is one step.
Return(v) == Idle /\ val' = v /\ UNCHANGED <<ctr, hpmAt, vh, vl, begun>>

\* metal_hpm_init: the counters that were found are cleared, with their events.
metal_hpm_init ==
  IF hpm_count # 0 THEN Return(1) /\ UNCHANGED <<hpm_count, mhpmevent, count>>
  ELSE /\ hpm_count' = Found /\ mhpmevent' = mhpmevent \ (0 .. Found - 1)
       /\ count' = [n \in Counter |-> IF n < Found /\ n # METAL_HPM_TIME THEN 0 ELSE count[n]]
       /\ Return(0)

metal_hpm_disable == hpm_count' = 0 /\ Return(0) /\ UNCHANGED <<mhpmevent, count>>

\* Bits of an event are set, or all are cleared; the counters below 3 have none.
metal_hpm_set_event(n) ==
  Known(n) /\ mhpmevent' = mhpmevent \cup ({n} \cap 3 .. Last) /\ Return(0) /\ UNCHANGED <<hpm_count, count>>
metal_hpm_clr_event(n) ==
  Known(n) /\ mhpmevent' = mhpmevent \ {n} /\ Return(0) /\ UNCHANGED <<hpm_count, count>>

\* A counter that is not known, and the time, are refused.
Refused(n) ==
  (~Known(n) \/ n = METAL_HPM_TIME) /\ Return(1) /\ UNCHANGED <<hpm_count, mhpmevent, count>>

\* A call of several accesses, and its end.
Begin(n, access) ==
  /\ Idle /\ Known(n) /\ n # METAL_HPM_TIME /\ hpmAt' = access /\ ctr' = n
  /\ begun' = [value |-> count[n], ticks |-> 0]
  /\ UNCHANGED <<hpm_count, mhpmevent, count, vh, vl, val>>
End(v) ==
  /\ hpmAt' = "idle" /\ val' = v
  /\ ctr' = 0 /\ vh' = 0 /\ vl' = 0 /\ begun' = [value |-> 0, ticks |-> 0]

metal_hpm_read_counter(n) == Begin(n, "high")
ReadHigh ==
  /\ hpmAt = "high" /\ vh' = Hi(count[ctr]) /\ hpmAt' = "low"
  /\ UNCHANGED <<hpm_count, mhpmevent, count, ctr, vl, begun, val>>
ReadLow ==
  /\ hpmAt = "low" /\ vl' = Lo(count[ctr]) /\ hpmAt' = "again"
  /\ UNCHANGED <<hpm_count, mhpmevent, count, ctr, vh, begun, val>>
\* Slip: the high half is not read again.
ReadAgain_not == hpmAt = "again" /\ End(vh * Base + vl) /\ UNCHANGED <<hpm_count, mhpmevent, count>>
\* while (vh != vh1)
ReadAgain ==
  /\ hpmAt = "again"
  /\ IF vh = Hi(count[ctr]) THEN End(vh * Base + vl)
     ELSE hpmAt' = "high" /\ UNCHANGED <<ctr, vh, vl, begun, val>>
  /\ UNCHANGED <<hpm_count, mhpmevent, count>>

metal_hpm_clear_counter(n) == Begin(n, "clear high")
ClearHalf(from, hi, lo) ==
  /\ hpmAt = from
  /\ count' = [count EXCEPT ![ctr] = (IF hi THEN 0 ELSE Hi(@)) * Base + (IF lo THEN 0 ELSE Lo(@))]
  /\ UNCHANGED <<hpm_count, mhpmevent>>
Then(to) == hpmAt' = to /\ UNCHANGED <<ctr, vh, vl, begun, val>>
ClearHigh == ClearHalf("clear high", TRUE, FALSE) /\ Then("clear low")
\* Slip: the high half is not cleared again, whatever the low one carried into it.
ClearLow_last == ClearHalf("clear low", FALSE, TRUE) /\ End(0)
ClearLow == ClearHalf("clear low", FALSE, TRUE) /\ Then("clear again")
ClearAgain == ClearHalf("clear again", TRUE, FALSE) /\ End(0)

HpmStep == ReadHigh \/ ReadLow \/ ReadAgain \/ ClearHigh \/ ClearLow \/ ClearAgain
HpmNext ==
  \/ Tick \/ metal_hpm_init \/ metal_hpm_disable
  \/ \E n \in Counter :
       \/ metal_hpm_set_event(n) \/ metal_hpm_clr_event(n)
       \/ Refused(n) \/ metal_hpm_read_counter(n) \/ metal_hpm_clear_counter(n)
  \/ HpmStep

HpmSpec == HpmInit /\ [][HpmNext]_hpmVars

-----------------------------------------------------------------------------
(* Properties. *)

\* What is read is the counter's value at a moment of the call (hpm.c:41-46, 245-262), a
\* counter that was cleared has counted nothing but what came since (hpm.c:57-62, 309-326), and
\* the counters that are found exist (hpm.c:90-98).
CountIsAMoment ==
  [][/\ hpmAt = "again" /\ hpmAt' = "idle" => begun.value <= val' /\ val' <= count[ctr]
     /\ hpmAt \in {"clear low", "clear again"} /\ hpmAt' = "idle" => count'[ctr] <= begun.ticks
     /\ \A n \in 3 .. hpm_count' - 1 : n \in Implemented]_hpmVars
===============================================================================
