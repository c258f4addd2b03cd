------------------------------ MODULE ClintTimer ------------------------------
(***************************************************************************)
(* The machine timer of one hart (freedom-metal, riscv_clint0.c and        *)
(* riscv_cpu.c).  MTIME and MTIMECMP are double words that the program     *)
(* reads and writes one word at a time while the time goes on; the default *)
(* timer handler, which does the same, may preempt it anywhere.            *)
(***************************************************************************)
EXTENDS Integers

CONSTANTS
  W,        \* values of a word (2^32)
  Delta,    \* cycles until the handler's next interrupt (10)
  Targets,  \* the compare values that the program sets
  Top       \* the time at which the clock of the model stops

ASSUME WordAssumption == W \in Nat /\ W > 1
ASSUME TargetAssumption == Targets \subseteq 0 .. W * W - 1
\* MTIME never comes near its end, so that the largest high word is never due.
ASSUME TopAssumption == Top \in Nat /\ Top < (W - 1) * W
ASSUME DeltaAssumption == Delta \in Nat /\ Delta > 0 /\ Top + Delta < W * W

Context == {"main", "isr"}
Max == W - 1              \* 0xFFFFFFFF
Double(hi, lo) == W * hi + lo
High(t) == t \div W
Low(t) == t % W

VARIABLES
  mtime,  \* MTIME
  cmp,    \* MTIMECMP, its two words
  up,     \* the CLINT is registered for the timer line of the hart
  at,     \* the next access of each context
  reg,    \* the words that each context has read
  began,  \* MTIME when each context called __metal_clint0_mtime_get
  time,   \* the argument of each context's mtimecmp_set, or its mtime_get's result
  due     \* the time that an interrupt was asked for last

vars == <<mtime, cmp, up, at, reg, began, time, due>>

Init ==
  /\ mtime = 0 /\ up = FALSE
  /\ cmp = [hi |-> Max, lo |-> Max] /\ due = Double(Max, Max)
  /\ at = [c \in Context |-> "idle"]
  /\ reg = [c \in Context |-> [hi |-> 0, lo |-> 0]]
  /\ began = [c \in Context |-> 0]
  /\ time = [c \in Context |-> 0]

MTIP == mtime >= Double(cmp.hi, cmp.lo)
Handling == at["isr"] # "idle"
Running(c) == c = "isr" <=> Handling

Tick ==
  /\ mtime < Top
  /\ mtime' = mtime + 1
  /\ UNCHANGED <<cmp, up, at, reg, began, time, due>>

\* metal_interrupt_init: until then the timer line has no controller.
clint0_init ==
  /\ ~up /\ at["main"] = "idle" /\ up' = TRUE
  /\ UNCHANGED <<mtime, cmp, at, reg, began, time, due>>

-----------------------------------------------------------------------------
(* __metal_clint0_mtime_get: the high word, the low word, the high word. *)

ReadHigh(c) ==
  /\ at[c] = "read" /\ Running(c)
  /\ reg' = [reg EXCEPT ![c].hi = High(mtime)]
  /\ at' = [at EXCEPT ![c] = "lo"]
  /\ UNCHANGED <<mtime, cmp, up, began, time, due>>

ReadLow(c) ==
  /\ at[c] = "lo" /\ Running(c)
  /\ reg' = [reg EXCEPT ![c].lo = Low(mtime)]
  /\ at' = [at EXCEPT ![c] = "again"]
  /\ UNCHANGED <<mtime, cmp, up, began, time, due>>

\* Slip: the high word is not read again.
ReadAgain_trusts(c) ==
  /\ at[c] = "again" /\ Running(c)
  /\ at' = [at EXCEPT ![c] = "have"]
  /\ time' = [time EXCEPT ![c] = Double(reg[c].hi, reg[c].lo)]
  /\ UNCHANGED <<mtime, cmp, up, reg, began, due>>

ReadAgain(c) ==
  /\ at[c] = "again" /\ Running(c)
  /\ \/ High(mtime) # reg[c].hi /\ at' = [at EXCEPT ![c] = "read"] /\ UNCHANGED time
     \/ /\ High(mtime) = reg[c].hi
        /\ at' = [at EXCEPT ![c] = "have"]
        /\ time' = [time EXCEPT ![c] = Double(reg[c].hi, reg[c].lo)]
  /\ UNCHANGED <<mtime, cmp, up, reg, began, due>>

-----------------------------------------------------------------------------
(* __metal_driver_riscv_clint0_mtimecmp_set. *)

\* Slip: the low word is written over the old high word.
SetMax_skips(c) ==
  /\ at[c] = "max" /\ Running(c)
  /\ at' = [at EXCEPT ![c] = "low"]
  /\ due' = time[c]
  /\ UNCHANGED <<mtime, cmp, up, reg, began, time>>

\* Slip: the high word of the time asked for is written at once, not the largest.
SetMax_high(c) ==
  /\ at[c] = "max" /\ Running(c)
  /\ cmp' = [cmp EXCEPT !.hi = High(time[c])]
  /\ at' = [at EXCEPT ![c] = "low"]
  /\ due' = time[c]
  /\ UNCHANGED <<mtime, up, reg, began, time>>

SetMax(c) ==
  /\ at[c] = "max" /\ Running(c)
  /\ cmp' = [cmp EXCEPT !.hi = Max]
  /\ at' = [at EXCEPT ![c] = "low"]
  /\ due' = time[c]
  /\ UNCHANGED <<mtime, up, reg, began, time>>

SetLow(c) ==
  /\ at[c] = "low" /\ Running(c)
  /\ cmp' = [cmp EXCEPT !.lo = Low(time[c])]
  /\ at' = [at EXCEPT ![c] = "high"]
  /\ UNCHANGED <<mtime, up, reg, began, time, due>>

SetHigh(c) ==
  /\ at[c] = "high" /\ Running(c)
  /\ cmp' = [cmp EXCEPT !.hi = High(time[c])]
  /\ at' = [at EXCEPT ![c] = "idle"]
  /\ UNCHANGED <<mtime, up, reg, began, time, due>>

-----------------------------------------------------------------------------
(* The program and the handler. *)

\* metal_cpu_get_mtime
mtime_get ==
  /\ up /\ at["main"] = "idle" /\ ~Handling
  /\ at' = [at EXCEPT !["main"] = "read"] /\ began' = [began EXCEPT !["main"] = mtime]
  /\ UNCHANGED <<mtime, cmp, up, reg, time, due>>
mtime_got ==
  /\ at["main"] = "have" /\ ~Handling
  /\ at' = [at EXCEPT !["main"] = "idle"]
  /\ UNCHANGED <<mtime, cmp, up, reg, began, time, due>>

\* metal_cpu_set_mtimecmp
mtimecmp_set ==
  /\ up /\ at["main"] = "idle" /\ ~Handling
  /\ \E t \in Targets : time' = [time EXCEPT !["main"] = t]
  /\ at' = [at EXCEPT !["main"] = "max"]
  /\ UNCHANGED <<mtime, cmp, up, reg, began, due>>

\* __metal_default_timer_handler: an interrupt Delta cycles from now.
timer_handler ==
  /\ up /\ MTIP /\ ~Handling
  /\ at' = [at EXCEPT !["isr"] = "read"] /\ began' = [began EXCEPT !["isr"] = mtime]
  /\ UNCHANGED <<mtime, cmp, up, reg, time, due>>
\* Slip: the handler rearms at the time that it has read.
handler_sets_now ==
  /\ at["isr"] = "have"
  /\ at' = [at EXCEPT !["isr"] = "max"]
  /\ UNCHANGED <<mtime, cmp, up, reg, began, time, due>>

handler_sets ==
  /\ at["isr"] = "have"
  /\ time' = [time EXCEPT !["isr"] = @ + Delta]
  /\ at' = [at EXCEPT !["isr"] = "max"]
  /\ UNCHANGED <<mtime, cmp, up, reg, began, due>>

Step(c) ==
  \/ ReadHigh(c) \/ ReadLow(c) \/ ReadAgain(c)
  \/ SetMax(c) \/ SetLow(c) \/ SetHigh(c)
Handler == timer_handler \/ Step("isr") \/ handler_sets
Next ==
  \/ Tick \/ clint0_init
  \/ mtime_get \/ mtime_got \/ mtimecmp_set \/ Step("main")
  \/ Handler

Spec == Init /\ [][Next]_vars /\ WF_vars(Handler)

-----------------------------------------------------------------------------
(* Properties. *)

\* Every variable has its type.
Place == {"idle", "read", "lo", "again", "have", "max", "low", "high"}
Word == 0 .. W - 1
TypeOK ==
  /\ mtime \in 0 .. Top /\ up \in BOOLEAN
  /\ cmp \in [hi : Word, lo : Word]
  /\ at \in [Context -> Place]
  /\ reg \in [Context -> [hi : Word, lo : Word]]
  /\ began \in [Context -> 0 .. Top]
  /\ time \in [Context -> 0 .. W * W - 1]
  /\ due \in 0 .. W * W - 1

\* What mtime_get returns is a time between its call and its return, although it is put
\* together from two words while the low one overflows.
ReadsAMoment ==
  \A c \in Context : at[c] = "have" => began[c] <= time[c] /\ time[c] <= mtime

\* The timer interrupt is never pending before the time that was asked for, neither
\* between the three writes of mtimecmp_set, nor when the handler comes before them.
NoSpuriousInterrupt == MTIP => mtime >= due

\* Nobody comes between the writes of a set: who writes runs, for the time asked for last.
SetNotTorn ==
  \A c \in Context : at[c] \in {"low", "high"} => due = time[c] /\ Running(c)

\* An interrupt that is pending is taken, and when its handler is done it is no longer pending.
InterruptIsTaken == (up /\ MTIP) ~> (~Handling /\ ~MTIP)

\* Between the sets, of the program and of the handler that preempted it, the two words
\* hold the time that was asked for last.
AskedIsSet == (\A c \in Context : at[c] \notin {"low", "high"}) => Double(cmp.hi, cmp.lo) = due
===============================================================================
