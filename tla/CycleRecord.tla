----------------------------- MODULE CycleRecord ----------------------------
(***************************************************************************)
(* The cycle counter and the cycle record: get_cycles (cycle_counter.S)    *)
(* reads a 64-bit counter that keeps counting as two words, and            *)
(* start_compute_cycles and end_compute_cycles (util.h) turn two readings  *)
(* into a result.  The two words of the counter are read one at a time and *)
(* the counter ticks in between, any number of times.                      *)
(***************************************************************************)
EXTENDS Integers, Sequences

CONSTANTS
  Word,          \* values of one counter word (2^32)
  MAX_RESULTS,   \* capacity of record.results
  MaxHi,         \* bound: the upper word stops here
  MaxCalls       \* bound: calls made

ASSUME WordAssumption   == Word \in Nat \ {0}
ASSUME BoundsAssumption == MAX_RESULTS \in Nat /\ MaxHi \in Nat /\ MaxCalls \in Nat

VARIABLES
  now,             \* mcycleh and mcycle, a pair << upper, lower >>
  pc,              \* the instruction of get_cycles, or "idle" in the client
  caller,          \* the function that called get_cycles
  a1, a0, a5,      \* its registers
  start, results,  \* record.start, and record.results[0 .. results_size - 1]
  called, seen,    \* the counter when get_cycles was called, and when it read mcycle (history)
  began,           \* the counter when the last start was called and when it returned (history)
  calls            \* calls made, for the bound

regs   == <<a1, a0, a5>>
record == <<start, results>>
hist   == <<called, seen, began>>
vars   == <<now, pc, caller, regs, record, hist, calls>>

Pair == Nat \X (0 .. Word - 1)
Value(p) == p[1] * Word + p[2]

\* Order of two readings, upper word first.
Leq(p, q) == p[1] < q[1] \/ (p[1] = q[1] /\ p[2] <= q[2])

-----------------------------------------------------------------------------

\* The hardware counter: the lower word carries into the upper one.
Tick ==
  /\ \/ now[2] < Word - 1 /\ now' = << now[1], now[2] + 1 >>
     \/ now[2] = Word - 1 /\ now[1] < MaxHi /\ now' = << now[1] + 1, 0 >>
  /\ UNCHANGED <<pc, caller, regs, record, hist, calls>>

GetCycles(f) ==
  /\ pc = "idle" /\ calls < MaxCalls
  /\ pc' = "mcycleh" /\ caller' = f /\ calls' = calls + 1
  /\ called' = now
  /\ UNCHANGED <<now, regs, record, seen, began>>

start_compute_cycles == GetCycles("start_compute_cycles")
end_compute_cycles   == GetCycles("end_compute_cycles")

ReadUpper ==
  /\ pc = "mcycleh" /\ pc' = "mcycle"
  /\ a1' = now[1]
  /\ UNCHANGED <<now, caller, a0, a5, record, hist, calls>>

ReadLower ==
  /\ pc = "mcycle" /\ pc' = "mcycleh2"
  /\ a0' = now[2] /\ seen' = now
  /\ UNCHANGED <<now, caller, a1, a5, record, called, began, calls>>

ReadUpperAgain ==
  /\ pc = "mcycleh2" /\ pc' = "bne"
  /\ a5' = now[1]
  /\ UNCHANGED <<now, caller, a1, a0, record, hist, calls>>

\* Slip: the two readings of the upper word are not compared.
Branch_unchecked ==
  /\ pc = "bne"
  /\ pc' = "ret"
  /\ UNCHANGED <<now, caller, regs, record, hist, calls>>

\* bne a1, a5, get_cycles
Branch ==
  /\ pc = "bne"
  /\ pc' = IF a1 = a5 THEN "ret" ELSE "mcycleh"
  /\ UNCHANGED <<now, caller, regs, record, hist, calls>>

ReturnToStart ==
  /\ pc = "ret" /\ caller = "start_compute_cycles"
  /\ pc' = "idle"
  /\ start' = Value(<<a1, a0>>)
  /\ began' = [called |-> Value(called), returned |-> Value(now)]
  /\ UNCHANGED <<now, caller, regs, results, called, seen, calls>>

\* Slip: a full record takes the new result in place of the last one.
ReturnToEnd_overwrites ==
  /\ pc = "ret" /\ caller = "end_compute_cycles"
  /\ pc' = "idle"
  /\ results' = IF Len(results) = MAX_RESULTS
                THEN [results EXCEPT ![MAX_RESULTS] = Value(<<a1, a0>>) - start]
                ELSE Append(results, Value(<<a1, a0>>) - start)
  /\ UNCHANGED <<now, caller, regs, start, hist, calls>>

\* Slip: the next measurement starts where this one ended.
ReturnToEnd_restarts ==
  /\ pc = "ret" /\ caller = "end_compute_cycles"
  /\ pc' = "idle"
  /\ results' = IF Len(results) = MAX_RESULTS THEN results
                ELSE Append(results, Value(<<a1, a0>>) - start)
  /\ start' = Value(<<a1, a0>>)
  /\ UNCHANGED <<now, caller, regs, hist, calls>>

\* final - start, recorded while there is room.
ReturnToEnd ==
  /\ pc = "ret" /\ caller = "end_compute_cycles"
  /\ pc' = "idle"
  /\ results' = IF Len(results) = MAX_RESULTS THEN results
                ELSE Append(results, Value(<<a1, a0>>) - start)
  /\ UNCHANGED <<now, caller, regs, start, hist, calls>>

-----------------------------------------------------------------------------

Init ==
  /\ now \in {0} \X (0 .. Word - 1)
  /\ pc = "idle" /\ caller = "none"
  /\ a1 = 0 /\ a0 = 0 /\ a5 = 0
  /\ start = 0 /\ results = << >>
  /\ called = now /\ seen = now
  /\ began = [called |-> 0, returned |-> 0]
  /\ calls = 0

\* The client is done.
Return == pc = "idle" /\ calls = MaxCalls /\ UNCHANGED vars

Next ==
  \/ Tick \/ Return
  \/ start_compute_cycles \/ end_compute_cycles
  \/ ReadUpper \/ ReadLower \/ ReadUpperAgain \/ Branch
  \/ ReturnToStart \/ ReturnToEnd

Spec == Init /\ [][Next]_vars
-----------------------------------------------------------------------------
(* Properties. *)

\* The registers hold counter words, the record what fits in it (util.h:24-31, 63).
TypeOK ==
  /\ now \in Pair /\ called \in Pair /\ seen \in Pair
  /\ pc \in {"idle", "mcycleh", "mcycle", "mcycleh2", "bne", "ret"}
  /\ caller \in {"none", "start_compute_cycles", "end_compute_cycles"}
  /\ a1 \in Nat /\ a0 \in 0 .. Word - 1 /\ a5 \in Nat
  /\ start \in Nat
  /\ results \in Seq(Int) /\ Len(results) <= MAX_RESULTS
  /\ began \in [called : Nat, returned : Nat]
  /\ calls \in 0 .. MaxCalls

\* What get_cycles returns is a value the counter had during the call, however
\* often the lower word carried while the two words were read (cycle_counter.S:4-9).
ReadsOneMoment ==
  pc = "ret" => Leq(called, <<a1, a0>>) /\ Leq(<<a1, a0>>, now)

\* A result recorded by end_compute_cycles measures the time since the last
\* start_compute_cycles: at least from its return to the call of the end, at
\* most from its call to the return of the end (util.h:55-68).
ResultMeasures ==
  [][\A n \in 1 .. Len(results') :
       n > Len(results) =>
         /\ results'[n] >= Value(called) - began.returned
         /\ results'[n] <= Value(now) - began.called]_vars

\* A result once recorded is kept as it is, when the array is full too.
ResultsKept ==
  [][\A n \in 1 .. Len(results) : n <= Len(results') /\ results'[n] = results[n]]_vars
=============================================================================
