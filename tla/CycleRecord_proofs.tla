--------------------------- MODULE CycleRecord_proofs ---------------------------
(***************************************************************************)
(* Proofs about the cycle counter and its record, for every width of a     *)
(* counter word and every capacity.                                        *)
(***************************************************************************)
EXTENDS CycleRecord, SequenceTheorems, TLAPS

-----------------------------------------------------------------------------
(* The cycle record. *)

\* While get_cycles runs, the counter only moves on; the upper word it read
\* first is no later than the lower word, and the one it read last no earlier.
Reading ==
  /\ pc # "idle" => Leq(called, now)
  /\ pc \in {"mcycle", "mcycleh2", "bne", "ret"} => called[1] <= a1 /\ a1 <= now[1]
  /\ pc \in {"mcycleh2", "bne", "ret"} =>
       Leq(called, seen) /\ Leq(seen, now) /\ seen[2] = a0 /\ a1 <= seen[1]
  /\ pc \in {"bne", "ret"} => seen[1] <= a5 /\ a5 <= now[1]
  /\ pc = "ret" => a1 = a5

\* The last start was read during its own call.
Started == began.called <= start /\ start <= began.returned

IInv == TypeOK /\ Reading /\ Started

-----------------------------------------------------------------------------
(* Readings and their values. *)

\* The value of a reading is a natural number.
LEMMA ValueType ==
  ASSUME NEW p \in Pair
  PROVE  Value(p) \in Nat
<1>1. p[1] \in Nat /\ p[2] \in Nat /\ Word \in Nat
  BY WordAssumption DEF Pair
<1>2. p[1] * Word \in Nat
  BY <1>1
<1> QED
  BY <1>1, <1>2 DEF Value

\* A later reading has a greater value: the upper word outweighs the lower one.
LEMMA ValueMonotone ==
  ASSUME NEW p \in Pair, NEW q \in Pair, Leq(p, q)
  PROVE  Value(p) <= Value(q)
<1>1. p[1] \in Nat /\ q[1] \in Nat /\ Word \in Nat
      /\ p[2] \in 0 .. Word - 1 /\ q[2] \in 0 .. Word - 1
  BY WordAssumption DEF Pair
<1>2. CASE p[1] = q[1] /\ p[2] <= q[2]
  <2>1. p[1] * Word \in Int
    BY <1>1
  <2> QED
    BY <1>1, <1>2, <2>1 DEF Value
<1>3. CASE p[1] < q[1]
  <2> DEFINE d == q[1] - p[1] - 1
  <2>1. d \in Nat /\ q[1] = p[1] + 1 + d
    BY <1>1, <1>3
  <2>2. q[1] * Word = p[1] * Word + Word + d * Word
    <3> HIDE DEF d
    <3> QED
      BY <1>1, <2>1
  <2>3. p[1] * Word \in Nat /\ d * Word \in Nat
    <3> HIDE DEF d
    <3> QED
      BY <1>1, <2>1
  <2> HIDE DEF d
  <2> QED
    BY <1>1, <2>2, <2>3 DEF Value
<1> QED
  BY <1>2, <1>3 DEF Leq

\* Readings in order stay in order when the later one moves on.
LEMMA LeqTransitive ==
  ASSUME NEW p \in Pair, NEW q \in Pair, NEW r \in Pair, Leq(p, q), Leq(q, r)
  PROVE  Leq(p, r)
<1>1. /\ p[1] \in Nat /\ q[1] \in Nat /\ r[1] \in Nat
      /\ p[2] \in Int /\ q[2] \in Int /\ r[2] \in Int
  BY WordAssumption DEF Pair
<1> QED
  BY <1>1 DEF Leq

\* The words of the readings and of the registers, and the array's size.
LEMMA TypeFacts ==
  ASSUME TypeOK
  PROVE  /\ now[1] \in Nat /\ now[2] \in Int /\ called[1] \in Nat /\ called[2] \in Int
         /\ seen[1] \in Nat /\ seen[2] \in Int
         /\ a1 \in Nat /\ a0 \in Int /\ a5 \in Nat
         /\ results \in Seq(Int) /\ Len(results) \in Nat /\ Len(results) <= MAX_RESULTS
<1>1. /\ now \in Nat \X (0 .. Word - 1) /\ called \in Nat \X (0 .. Word - 1)
      /\ seen \in Nat \X (0 .. Word - 1)
  BY DEF TypeOK, Pair
<1>2. \A x \in 0 .. Word - 1 : x \in Int
  BY WordAssumption
<1>3. /\ now[1] \in Nat /\ now[2] \in 0 .. Word - 1 /\ called[1] \in Nat
      /\ called[2] \in 0 .. Word - 1 /\ seen[1] \in Nat /\ seen[2] \in 0 .. Word - 1
  BY <1>1
<1>4. /\ a1 \in Nat /\ a0 \in 0 .. Word - 1 /\ a5 \in Nat
      /\ results \in Seq(Int) /\ Len(results) <= MAX_RESULTS
  BY DEF TypeOK
<1>5. Len(results) \in Nat
  BY <1>4
<1> QED
  BY <1>2, <1>3, <1>4, <1>5

\* A tick moves the counter on, and leaves it a pair of words.
LEMMA TickMovesOn ==
  ASSUME TypeOK, Tick
  PROVE  now' \in Pair /\ Leq(now, now') /\ now[1] <= now'[1]
<1>1. now[1] \in Nat /\ now[2] \in 0 .. Word - 1 /\ Word \in Nat \ {0} /\ MaxHi \in Nat
  BY WordAssumption, BoundsAssumption DEF TypeOK, Pair
<1>2. CASE now[2] < Word - 1 /\ now' = << now[1], now[2] + 1 >>
  BY <1>1, <1>2 DEF Pair, Leq
<1>3. CASE now[2] = Word - 1 /\ now[1] < MaxHi /\ now' = << now[1] + 1, 0 >>
  BY <1>1, <1>3 DEF Pair, Leq
<1> QED
  BY <1>2, <1>3 DEF Tick

\* What get_cycles returns is the counter when it read the lower word.
LEMMA ReturnsSeen ==
  ASSUME IInv, pc = "ret"
  PROVE  /\ << a1, a0 >> \in Pair /\ << a1, a0 >> = seen
         /\ Leq(called, << a1, a0 >>) /\ Leq(<< a1, a0 >>, now)
<1>1. seen \in Pair /\ seen[1] = a1 /\ seen[2] = a0
  BY DEF IInv, TypeOK, Reading, Pair
<1>2. << a1, a0 >> = seen
  BY <1>1 DEF Pair
<1> QED
  BY <1>1, <1>2 DEF IInv, Reading

-----------------------------------------------------------------------------
(* The invariant. *)

\* The PLL after reset.
LEMMA InitIInv == Init => IInv
<1> SUFFICES ASSUME Init PROVE IInv
  OBVIOUS
<1>1. now \in Pair /\ 0 \in 0 .. Word - 1
  BY WordAssumption DEF Init, Pair
<1>2. TypeOK
  BY <1>1, BoundsAssumption DEF Init, TypeOK
<1>3. Reading /\ Started
  BY DEF Init, Reading, Started
<1> QED
  BY <1>2, <1>3 DEF IInv

\* A tick keeps the readings before it before it.
LEMMA TickIInv ==
  ASSUME IInv, Tick
  PROVE  IInv'
<1>1. now' \in Pair /\ Leq(now, now') /\ now[1] <= now'[1]
  BY TickMovesOn DEF IInv
<1>2. UNCHANGED <<pc, caller, a1, a0, a5, start, results, called, seen, began, calls>>
  BY DEF Tick, regs, record, hist
<1>3. TypeOK'
  BY <1>1, <1>2 DEF IInv, TypeOK
<1>4. Reading'
  <2>1. pc # "idle" => Leq(called, now')
    BY <1>1, LeqTransitive DEF IInv, TypeOK, Reading
  <2>2. pc \in {"mcycleh2", "bne", "ret"} => Leq(seen, now')
    BY <1>1, LeqTransitive DEF IInv, TypeOK, Reading
  <2>3. /\ now[1] \in Nat /\ now'[1] \in Nat /\ a1 \in Nat /\ a5 \in Nat
        /\ called[1] \in Nat /\ seen[1] \in Nat
    BY <1>1, TypeFacts DEF IInv, Pair
  <2>4. pc \in {"mcycle", "mcycleh2", "bne", "ret"} => called[1] <= a1 /\ a1 <= now'[1]
    <3>1. ASSUME pc \in {"mcycle", "mcycleh2", "bne", "ret"}
          PROVE  called[1] <= a1 /\ a1 <= now[1]
      BY <3>1 DEF IInv, Reading
    <3> QED
      BY <1>1, <2>3, <3>1
  <2>5. pc \in {"bne", "ret"} => seen[1] <= a5 /\ a5 <= now'[1]
    <3>1. ASSUME pc \in {"bne", "ret"} PROVE seen[1] <= a5 /\ a5 <= now[1]
      BY <3>1 DEF IInv, Reading
    <3> QED
      BY <1>1, <2>3, <3>1
  <2>6. pc' = pc /\ called' = called /\ seen' = seen /\ a1' = a1 /\ a0' = a0 /\ a5' = a5
    BY <1>2
  <2>7. /\ pc \in {"mcycleh2", "bne", "ret"} =>
             Leq(called, seen) /\ seen[2] = a0 /\ a1 <= seen[1]
        /\ pc = "ret" => a1 = a5
    BY DEF IInv, Reading
  <2> QED
    BY <2>1, <2>2, <2>4, <2>5, <2>6, <2>7 DEF Reading, Leq
<1>5. Started'
  BY <1>2 DEF IInv, Started
<1> QED
  BY <1>3, <1>4, <1>5 DEF IInv

\* A call of get_cycles begins with the counter as it is.
LEMMA GetCyclesIInv ==
  ASSUME IInv, NEW f \in {"start_compute_cycles", "end_compute_cycles"}, GetCycles(f)
  PROVE  IInv'
<1>0. now[1] \in Nat /\ now[2] \in Int
  BY TypeFacts DEF IInv
<1>1. Leq(now, now)
  BY <1>0 DEF Leq
<1>2. TypeOK'
  BY BoundsAssumption DEF IInv, TypeOK, GetCycles, regs, record
<1>3. Reading'
  BY <1>1 DEF IInv, Reading, GetCycles, regs, record
<1>4. Started'
  BY DEF IInv, Started, GetCycles, regs, record
<1> QED
  BY <1>2, <1>3, <1>4 DEF IInv

\* The four instructions of get_cycles.
LEMMA ReadIInv ==
  ASSUME IInv, ReadUpper \/ ReadLower \/ ReadUpperAgain \/ Branch
  PROVE  IInv'
<1>0. /\ now[1] \in Nat /\ now[2] \in 0 .. Word - 1
      /\ called[1] \in Nat /\ called[2] \in 0 .. Word - 1
      /\ seen[1] \in Nat /\ seen[2] \in 0 .. Word - 1
      /\ a1 \in Nat /\ Word \in Nat
  BY WordAssumption DEF IInv, TypeOK, Pair
<1>1. CASE ReadUpper
  <2>1. TypeOK'
    BY <1>0, <1>1 DEF IInv, TypeOK, ReadUpper, record, hist
  <2>2. Reading'
    BY <1>0, <1>1 DEF IInv, Reading, Leq, ReadUpper, record, hist
  <2> QED
    BY <1>1, <2>1, <2>2 DEF IInv, Started, ReadUpper, record, hist
<1>2. CASE ReadLower
  <2>1. TypeOK'
    BY <1>0, <1>2 DEF IInv, TypeOK, ReadLower, record
  <2>2. /\ pc' = "mcycleh2" /\ a0' = now[2] /\ seen' = now
        /\ now' = now /\ a1' = a1 /\ called' = called
    BY <1>2 DEF ReadLower
  <2>3. Leq(called, now) /\ Leq(now, now) /\ called[1] <= a1 /\ a1 <= now[1]
    <3>1. Leq(called, now) /\ called[1] <= a1 /\ a1 <= now[1]
      BY <1>2 DEF IInv, Reading, ReadLower
    <3>2. now[1] \in Nat /\ now[2] \in Int
      BY TypeFacts DEF IInv
    <3> QED
      BY <3>1, <3>2 DEF Leq
  <2>4. Reading'
    BY <2>2, <2>3 DEF Reading, Leq
  <2> QED
    BY <1>2, <2>1, <2>4 DEF IInv, Started, ReadLower, record
<1>3. CASE ReadUpperAgain
  <2>1. TypeOK'
    BY <1>0, <1>3 DEF IInv, TypeOK, ReadUpperAgain, record, hist
  <2>2. /\ pc = "mcycleh2" /\ pc' = "bne" /\ a5' = now[1]
        /\ now' = now /\ a1' = a1 /\ a0' = a0 /\ called' = called /\ seen' = seen
    BY <1>3 DEF ReadUpperAgain, hist
  <2>3. /\ Leq(called, now) /\ Leq(called, seen) /\ Leq(seen, now)
        /\ called[1] <= a1 /\ a1 <= now[1] /\ seen[2] = a0 /\ a1 <= seen[1]
    BY <2>2 DEF IInv, Reading
  <2>4. seen[1] <= now[1] /\ now[1] <= now[1]
    BY <1>0, <2>3 DEF Leq
  <2>5. Reading'
    BY <2>2, <2>3, <2>4 DEF Reading, Leq
  <2> QED
    BY <1>3, <2>1, <2>5 DEF IInv, Started, ReadUpperAgain, record, hist
<1>4. CASE Branch
  <2>1. TypeOK'
    BY <1>4 DEF IInv, TypeOK, Branch, regs, record, hist
  <2>2. Reading'
    BY <1>4 DEF IInv, Reading, Branch, regs, record, hist
  <2> QED
    BY <1>4, <2>1, <2>2 DEF IInv, Started, Branch, regs, record, hist
<1> QED
  BY <1>1, <1>2, <1>3, <1>4

\* start_compute_cycles takes a reading of its own call.
LEMMA StartIInv ==
  ASSUME IInv, ReturnToStart
  PROVE  IInv'
<1> DEFINE v == << a1, a0 >>
<1>1. v \in Pair /\ Leq(called, v) /\ Leq(v, now) /\ called \in Pair /\ now \in Pair
  BY ReturnsSeen DEF ReturnToStart, IInv, TypeOK
<1>2. /\ Value(v) \in Nat /\ Value(called) \in Nat /\ Value(now) \in Nat
      /\ Value(called) <= Value(v) /\ Value(v) <= Value(now)
  BY <1>1, ValueType, ValueMonotone
<1>3. /\ start' = Value(v) /\ pc' = "idle"
      /\ began' = [called |-> Value(called), returned |-> Value(now)]
      /\ UNCHANGED <<now, caller, a1, a0, a5, results, called, seen, calls>>
  BY DEF ReturnToStart, regs
<1> HIDE DEF v
<1>4. TypeOK'
  BY <1>2, <1>3 DEF IInv, TypeOK
<1>5. Reading'
  BY <1>3 DEF Reading
<1>6. Started'
  BY <1>2, <1>3 DEF Started
<1> QED
  BY <1>4, <1>5, <1>6 DEF IInv

\* end_compute_cycles appends while there is room.
LEMMA EndIInv ==
  ASSUME IInv, ReturnToEnd
  PROVE  IInv'
<1> DEFINE r == Value(<< a1, a0 >>) - start
<1>1. r \in Int
  BY ReturnsSeen, ValueType DEF ReturnToEnd, IInv, TypeOK
<1>2. /\ results' = IF Len(results) = MAX_RESULTS THEN results ELSE Append(results, r)
      /\ pc' = "idle"
      /\ UNCHANGED <<now, caller, a1, a0, a5, start, called, seen, began, calls>>
  BY DEF ReturnToEnd, regs, hist
<1> HIDE DEF r
<1>3. results' \in Seq(Int) /\ Len(results') <= MAX_RESULTS
  <2>1. /\ results \in Seq(Int) /\ Len(results) \in Nat /\ Len(results) <= MAX_RESULTS
        /\ MAX_RESULTS \in Nat
    BY BoundsAssumption, TypeFacts DEF IInv
  <2>2. CASE Len(results) = MAX_RESULTS
    BY <1>2, <2>1, <2>2
  <2>3. CASE Len(results) # MAX_RESULTS
    <3>1. results' = Append(results, r)
      BY <1>2, <2>3
    <3>2. results' \in Seq(Int) /\ Len(results') = Len(results) + 1
      BY <1>1, <2>1, <3>1
    <3> QED
      BY <2>1, <2>3, <3>2
  <2> QED
    BY <2>2, <2>3
<1>4. TypeOK'
  BY <1>2, <1>3 DEF IInv, TypeOK
<1>5. Reading' /\ Started'
  BY <1>2 DEF IInv, Reading, Started
<1> QED
  BY <1>4, <1>5 DEF IInv

\* Every step.
LEMMA NextIInv == IInv /\ [Next]_vars => IInv'
<1> SUFFICES ASSUME IInv, [Next]_vars PROVE IInv'
  OBVIOUS
<1>1. CASE Tick
  BY <1>1, TickIInv
<1>2. CASE start_compute_cycles \/ end_compute_cycles
  BY <1>2, GetCyclesIInv DEF start_compute_cycles, end_compute_cycles
<1>3. CASE ReadUpper \/ ReadLower \/ ReadUpperAgain \/ Branch
  BY <1>3, ReadIInv
<1>4. CASE ReturnToStart
  BY <1>4, StartIInv
<1>5. CASE ReturnToEnd
  BY <1>5, EndIInv
<1>6. CASE Return \/ UNCHANGED vars
  BY <1>6 DEF Return, vars, regs, record, hist, IInv, TypeOK, Reading, Started
<1> QED
  BY <1>1, <1>2, <1>3, <1>4, <1>5, <1>6 DEF Next

-----------------------------------------------------------------------------
(* The theorems. *)

\* The inductive invariant holds throughout.
THEOREM Invariance == Spec => []IInv
<1> QED
  BY InitIInv, NextIInv, PTL DEF Spec

\* Registers hold counter words and the record never outgrows its array
\* (TypeOK, util.h:24-31, 63), for every word width and capacity.
THEOREM TypeCorrect == Spec => []TypeOK
<1>1. IInv => TypeOK
  BY DEF IInv
<1> QED
  BY Invariance, <1>1, PTL

\* get_cycles returns a value the counter had during the call
\* (ReadsOneMoment, cycle_counter.S:4-9), however fast the counter ticks.
THEOREM OneMoment == Spec => []ReadsOneMoment
<1>1. IInv => ReadsOneMoment
  BY ReturnsSeen DEF ReadsOneMoment
<1> QED
  BY Invariance, <1>1, PTL

\* No result is lost or changed once it is recorded, whatever calls follow and when the record
\* is full, too (ResultsKept, util.h:60-68).
THEOREM Keeps == Spec => ResultsKept
<1> DEFINE K == \A n \in 1 .. Len(results) : n <= Len(results') /\ results'[n] = results[n]
<1>1. ASSUME IInv, [Next]_vars PROVE [K]_vars
  <2>1. results \in Seq(Int) /\ Len(results) \in Nat
    BY <1>1, TypeFacts DEF IInv
  <2>2. CASE results' = results
    BY <2>1, <2>2
  <2>3. CASE ReturnToEnd
    <3>1. PICK r : r = Value(<< a1, a0 >>) - start
      OBVIOUS
    <3>2. r \in Int
      BY <1>1, <2>3, <3>1, ReturnsSeen, ValueType DEF ReturnToEnd, IInv, TypeOK
    <3>3. results' = results \/ results' = Append(results, r)
      BY <2>3, <3>1 DEF ReturnToEnd
    <3>4. CASE results' = Append(results, r)
      BY <2>1, <3>2, <3>4
    <3> QED
      BY <2>2, <3>3, <3>4
  <2>4. results' = results \/ ReturnToEnd
    BY <1>1 DEF Next, Tick, Return, start_compute_cycles, end_compute_cycles, GetCycles, ReadUpper,
       ReadLower, ReadUpperAgain, Branch, ReturnToStart, vars, record
  <2> QED
    BY <2>2, <2>3, <2>4
<1> QED
  BY Invariance, <1>1, PTL DEF Spec, ResultsKept

\* Every recorded result measures the time since the last start, up to the
\* length of the two calls (ResultMeasures, util.h:55-68).
THEOREM Measures == Spec => ResultMeasures
<1> DEFINE M == \A n \in 1 .. Len(results') :
                  n > Len(results) =>
                    /\ results'[n] >= Value(called) - began.returned
                    /\ results'[n] <= Value(now) - began.called
<1>1. ASSUME IInv, [Next]_vars PROVE [M]_vars
  <2>1. CASE results' = results
    BY <2>1 DEF IInv, TypeOK
  <2>2. CASE ReturnToEnd
    <3> DEFINE v == << a1, a0 >>
               r == Value(v) - start
    <3>1. /\ v \in Pair /\ Leq(called, v) /\ Leq(v, now)
          /\ called \in Pair /\ now \in Pair
      BY <1>1, <2>2, ReturnsSeen DEF ReturnToEnd, IInv, TypeOK
    <3>2. /\ Value(v) \in Nat /\ Value(called) \in Nat /\ Value(now) \in Nat
          /\ Value(called) <= Value(v) /\ Value(v) <= Value(now)
      BY <3>1, ValueType, ValueMonotone
    <3>3. start \in Nat /\ began.called \in Nat /\ began.returned \in Nat
          /\ began.called <= start /\ start <= began.returned
      BY <1>1 DEF IInv, TypeOK, Started
    <3>4. results' = IF Len(results) = MAX_RESULTS THEN results ELSE Append(results, r)
      BY <2>2 DEF ReturnToEnd
    <3>5. r >= Value(called) - began.returned /\ r <= Value(now) - began.called
      <4> HIDE DEF v
      <4> QED
        BY <3>2, <3>3
    <3> HIDE DEF r
    <3>6. ASSUME NEW n \in 1 .. Len(results'), n > Len(results)
          PROVE  results'[n] = r
      <4>1. results \in Seq(Int) /\ Len(results) \in Nat
        BY <1>1, TypeFacts DEF IInv
      <4>2. results' = Append(results, r)
        BY <3>4, <3>6, <4>1
      <4>3. Len(results') = Len(results) + 1
        BY <4>1, <4>2
      <4>4. n = Len(results) + 1
        BY <3>6, <4>1, <4>3
      <4> QED
        BY <4>1, <4>2, <4>4
    <3> QED
      BY <3>5, <3>6
  <2> QED
    BY <1>1, <2>1, <2>2
    DEF Next, Tick, Return, start_compute_cycles, end_compute_cycles, GetCycles, ReadUpper,
        ReadLower, ReadUpperAgain, Branch, ReturnToStart, record, vars
<1> QED
  BY Invariance, <1>1, PTL DEF Spec, ResultMeasures

=================================================================================
