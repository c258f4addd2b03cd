---------------------------- MODULE Interrupts_proofs ----------------------------
(***************************************************************************)
(* Proofs about the interrupt controllers: the machine timer for words of  *)
(* any size, any time and any compare values; the PLIC for any number of   *)
(* harts, sources, contexts and priorities; the CLIC for any interrupts    *)
(* and any split of its control bytes; a hart's tables and traps for any   *)
(* handlers and any program.  They share no state: each has its own        *)
(* invariant, under its own specification and where they run side by side. *)
(***************************************************************************)
EXTENDS Interrupts, WellFoundedInduction, TLAPS

-----------------------------------------------------------------------------
(* The two words of a time. *)

\* A time is put together from its words.
LEMMA DivMod ==
  ASSUME NEW t \in Nat
  PROVE  /\ High(t) \in Nat /\ Low(t) \in 0 .. W - 1
         /\ t = Double(High(t), Low(t))
BY WordAssumption DEF High, Low, Double

\* A later time has no smaller high word.
LEMMA HighMonotone ==
  ASSUME NEW s \in Nat, NEW t \in Nat, s <= t
  PROVE  High(s) <= High(t)
BY WordAssumption, DivMod DEF High, Low, Double

\* The high word of a 64-bit time is a word.
LEMMA HighWord ==
  ASSUME NEW t \in 0 .. W * W - 1
  PROVE  High(t) \in 0 .. W - 1
BY WordAssumption, DivMod DEF High, Low, Double

\* Two words are a time below the end of time.
LEMMA DoubleRange ==
  ASSUME NEW hi \in 0 .. W - 1, NEW lo \in 0 .. W - 1
  PROVE  Double(hi, lo) \in 0 .. W * W - 1
<1>1. W * hi <= W * (W - 1)  BY WordAssumption
<1>2. W * hi >= 0  BY WordAssumption
<1>3. W * (W - 1) = W * W - W  BY WordAssumption
<1>. QED  BY <1>1, <1>2, <1>3, WordAssumption DEF Double

\* The time that MTIME can reach is below the end of time.
LEMMA TopRange == Top < W * W /\ W * W \in Nat
<1>1. (W - 1) * W = W * W - W  BY WordAssumption
<1>. QED  BY <1>1, TopAssumption, WordAssumption

\* With the largest high word no interrupt is due.
LEMMA MaxIsNever ==
  ASSUME TypeOK, cmp.hi = Max
  PROVE  ~MTIP
<1>1. Double(Max, cmp.lo) >= (W - 1) * W
  BY WordAssumption DEF Double, Max, TypeOK, Word
<1>2. Double(Max, cmp.lo) \in Nat /\ mtime \in Nat /\ mtime <= Top
  <2>1. Max \in 0 .. W - 1 /\ cmp.lo \in 0 .. W - 1  BY WordAssumption DEF Max, TypeOK, Word
  <2>. QED  BY <2>1, DoubleRange, TopRange, TopAssumption DEF TypeOK
<1>3. (W - 1) * W \in Int  BY WordAssumption
<1>. QED  BY <1>1, <1>2, <1>3, TopAssumption DEF MTIP

-----------------------------------------------------------------------------
(* The inductive invariant: where the words that a context has read came from. *)

Moments ==
  \A c \in Context :
    /\ at[c] \in {"read", "lo", "again", "have"} => began[c] <= mtime
    /\ at[c] = "lo" =>
         \E t \in began[c] .. mtime : reg[c].hi = High(t)
    /\ at[c] = "again" =>
         \E t \in began[c] .. mtime : \E s \in t .. mtime :
           reg[c].hi = High(t) /\ reg[c].lo = Low(s)

Writing == {"low", "high"}
\* Between the writes the high word is the largest: no interrupt is pending there.
Held ==
  \A c \in Context :
    at[c] \in Writing => cmp.hi = Max /\ (at[c] = "high" => cmp.lo = Low(time[c]))

IInv == TypeOK /\ Moments /\ Held /\ SetNotTorn /\ AskedIsSet /\ ReadsAMoment

LEMMA InitInv == Init => IInv
<1>. SUFFICES ASSUME Init PROVE IInv  OBVIOUS
<1>1. Max \in 0 .. W - 1  BY WordAssumption DEF Max
<1>2. Double(Max, Max) \in 0 .. W * W - 1  BY <1>1, DoubleRange
<1>3. 0 \in 0 .. Top /\ 0 \in 0 .. W * W - 1 /\ 0 \in 0 .. W - 1
  BY TopAssumption, TopRange, WordAssumption
<1>4. TypeOK  BY <1>1, <1>2, <1>3 DEF Init, TypeOK, Place, Word
<1>5. \A c \in Context : at[c] = "idle"  BY DEF Init
<1>6. AskedIsSet  BY DEF Init, AskedIsSet
<1>7. Moments /\ Held /\ SetNotTorn /\ ReadsAMoment
  BY <1>5 DEF Moments, Held, Writing, SetNotTorn, ReadsAMoment, Context
<1>. QED  BY <1>4, <1>6, <1>7 DEF IInv

\* Reading the high word a second time makes the pair one moment.
LEMMA PairIsMoment ==
  ASSUME TypeOK, Moments, NEW c \in Context, at[c] = "again", High(mtime) = reg[c].hi
  PROVE  /\ Double(reg[c].hi, reg[c].lo) \in began[c] .. mtime
         /\ Double(reg[c].hi, reg[c].lo) \in 0 .. W * W - 1
<1>0. PICK t \in began[c] .. mtime : \E s \in t .. mtime :
        reg[c].hi = High(t) /\ reg[c].lo = Low(s)
  BY DEF Moments
<1>1. PICK s \in t .. mtime : reg[c].hi = High(t) /\ reg[c].lo = Low(s)
  BY <1>0
<1>2. t \in Nat /\ s \in Nat /\ mtime \in Nat /\ began[c] <= t /\ t <= s /\ s <= mtime
  BY <1>0, <1>1, TopAssumption DEF TypeOK
<1>3. High(t) <= High(s) /\ High(s) <= High(mtime)  BY <1>2, HighMonotone
<1>4. High(s) = reg[c].hi
  <2>1. High(s) \in Nat /\ High(mtime) \in Nat /\ High(t) \in Nat  BY <1>2, DivMod
  <2>. QED  BY <2>1, <1>1, <1>3
<1>5. Double(reg[c].hi, reg[c].lo) = s  BY <1>1, <1>2, <1>4, DivMod
<1>6. began[c] \in Nat /\ s < W * W  BY <1>2, TopRange, TopAssumption DEF TypeOK
<1>. QED  BY <1>2, <1>5, <1>6, TopRange

\* Two contexts never both run: who runs is the only one between two writes.
LEMMA OneWriter ==
  ASSUME SetNotTorn, NEW c \in Context, Running(c)
  PROVE  \A d \in Context \ {c} : at[d] \notin Writing
BY DEF SetNotTorn, Running, Handling, Context, Writing

LEMMA NextInv == IInv /\ [Next]_vars => IInv'
<1>. SUFFICES ASSUME IInv, [Next]_vars PROVE IInv'  OBVIOUS
<1>. USE DEF IInv
<1>a. mtime \in Nat /\ mtime \in 0 .. W * W - 1
  BY TopRange, TopAssumption DEF TypeOK
<1>b. High(mtime) \in Word /\ Low(mtime) \in Word  BY <1>a, HighWord, DivMod DEF Word
<1>c. Max \in Word  BY WordAssumption DEF Max, Word
<1>1. CASE Tick
  <2>1. TypeOK'  BY <1>1, TopAssumption DEF Tick, TypeOK
  <2>2. Moments'
    <3>1. \A c \in Context : began[c] \in Nat  BY TopAssumption DEF TypeOK
    <3>. QED  BY <1>1, <1>a, <3>1 DEF Tick, Moments
  <2>3. ReadsAMoment'
    <3>1. \A c \in Context : time[c] \in Nat  BY TopRange DEF TypeOK
    <3>. QED  BY <1>1, <1>a, <3>1 DEF Tick, ReadsAMoment
  <2>4. (Held /\ SetNotTorn /\ AskedIsSet)'
    BY <1>1 DEF Tick, Held, Handling, Running, Writing, SetNotTorn, AskedIsSet
  <2>. QED  BY <2>1, <2>2, <2>3, <2>4
<1>2. CASE clint0_init
  BY <1>2 DEF clint0_init, TypeOK, Moments, Held, Handling, Running, Writing, SetNotTorn,
     AskedIsSet, ReadsAMoment
<1>3. ASSUME NEW c \in Context, ReadHigh(c) PROVE IInv'
  <2>1. TypeOK'  BY <1>3, <1>b DEF ReadHigh, TypeOK, Place
  <2>2. Moments'
    <3>1. began[c] <= mtime /\ began[c] \in Nat  BY <1>3, TopAssumption DEF ReadHigh, Moments, TypeOK
    <3>2. mtime \in began[c] .. mtime  BY <3>1, <1>a
    <3>3. reg'[c].hi = High(mtime) /\ at'[c] = "lo"  BY <1>3 DEF ReadHigh, TypeOK
    <3>4. \A d \in Context \ {c} : reg'[d] = reg[d] /\ at'[d] = at[d]
      BY <1>3 DEF ReadHigh, TypeOK
    <3>. QED  BY <1>3, <3>1, <3>2, <3>3, <3>4 DEF ReadHigh, Moments
  <2>3. (Held /\ SetNotTorn /\ AskedIsSet /\ ReadsAMoment)'
    BY <1>3 DEF ReadHigh, TypeOK, Held, Handling, Running, Writing, SetNotTorn, AskedIsSet, ReadsAMoment
  <2>. QED  BY <2>1, <2>2, <2>3
<1>4. ASSUME NEW c \in Context, ReadLow(c) PROVE IInv'
  <2>1. TypeOK'  BY <1>4, <1>b DEF ReadLow, TypeOK, Place
  <2>2. Moments'
    <3>1. PICK t \in began[c] .. mtime : reg[c].hi = High(t)  BY <1>4 DEF ReadLow, Moments
    <3>2. t \in Nat /\ mtime \in t .. mtime  BY <3>1, <1>a, TopAssumption DEF TypeOK
    <3>3. reg'[c].lo = Low(mtime) /\ reg'[c].hi = reg[c].hi /\ at'[c] = "again"
      BY <1>4 DEF ReadLow, TypeOK
    <3>4. \A d \in Context \ {c} : reg'[d] = reg[d] /\ at'[d] = at[d]
      BY <1>4 DEF ReadLow, TypeOK
    <3>5. began' = began /\ mtime' = mtime  BY <1>4 DEF ReadLow
    <3>6. began[c] <= mtime  BY <1>4 DEF ReadLow, Moments
    <3>7. \E u \in began[c] .. mtime : \E s \in u .. mtime :
            reg'[c].hi = High(u) /\ reg'[c].lo = Low(s)
      BY <3>1, <3>2, <3>3
    <3>. QED  BY <3>3, <3>4, <3>5, <3>6, <3>7 DEF Moments
  <2>3. (Held /\ SetNotTorn /\ AskedIsSet /\ ReadsAMoment)'
    BY <1>4 DEF ReadLow, TypeOK, Held, Handling, Running, Writing, SetNotTorn, AskedIsSet, ReadsAMoment
  <2>. QED  BY <2>1, <2>2, <2>3
<1>5. ASSUME NEW c \in Context, ReadAgain(c) PROVE IInv'
  <2>1. CASE High(mtime) # reg[c].hi
    <3>1. /\ at[c] = "again" /\ at' = [at EXCEPT ![c] = "read"]
          /\ UNCHANGED <<mtime, cmp, up, reg, began, time, due>> /\ Running(c)
      BY <1>5, <2>1 DEF ReadAgain
    <3>2. TypeOK'  BY <3>1 DEF TypeOK, Place
    <3>3. Moments' /\ ReadsAMoment'  BY <3>1 DEF TypeOK, Moments, ReadsAMoment
    <3>4. (Held /\ SetNotTorn /\ AskedIsSet)'
      BY <3>1 DEF TypeOK, Held, Handling, Running, Writing, SetNotTorn, AskedIsSet
    <3>. QED  BY <3>2, <3>3, <3>4
  <2>2. CASE High(mtime) = reg[c].hi
    <3>0. at[c] = "again"  BY <1>5 DEF ReadAgain
    <3>1. /\ Double(reg[c].hi, reg[c].lo) \in began[c] .. mtime
          /\ Double(reg[c].hi, reg[c].lo) \in 0 .. W * W - 1
      BY <2>2, <3>0, PairIsMoment
    <3>2. /\ at' = [at EXCEPT ![c] = "have"]
          /\ time' = [time EXCEPT ![c] = Double(reg[c].hi, reg[c].lo)]
          /\ UNCHANGED <<mtime, cmp, up, reg, began, due>> /\ Running(c)
      BY <1>5, <2>2 DEF ReadAgain
    <3>3. TypeOK'  BY <3>1, <3>2 DEF TypeOK, Place
    <3>4. ReadsAMoment'
      <4>1. began[c] <= Double(reg[c].hi, reg[c].lo) /\ Double(reg[c].hi, reg[c].lo) <= mtime
        BY <3>1
      <4>. QED  BY <4>1, <3>2 DEF ReadsAMoment, TypeOK
    <3>5. Moments'  BY <3>0, <3>2 DEF Moments, TypeOK
    <3>6. (Held /\ SetNotTorn /\ AskedIsSet)'
      BY <3>0, <3>2 DEF TypeOK, Held, Handling, Running, Writing, SetNotTorn, AskedIsSet
    <3>. QED  BY <3>3, <3>4, <3>5, <3>6
  <2>. QED  BY <2>1, <2>2
<1>6. ASSUME NEW c \in Context, SetMax(c) PROVE IInv'
  <2>1. TypeOK'  BY <1>6, <1>c DEF SetMax, TypeOK, Place
  <2>2. Moments' /\ ReadsAMoment'  BY <1>6 DEF SetMax, TypeOK, Moments, ReadsAMoment
  <2>3. \A d \in Context \ {c} : at[d] \notin Writing  BY <1>6, OneWriter DEF SetMax
  <2>0. at'[c] = "low" /\ \A d \in Context \ {c} : at'[d] = at[d]
    BY <1>6 DEF SetMax, TypeOK
  <2>4. (Held /\ SetNotTorn /\ AskedIsSet)'
    <3>1. Held'
      <4>1. cmp'.hi = Max  BY <1>6 DEF SetMax, TypeOK
      <4>. QED  BY <4>1, <2>0, <2>3 DEF Held, Writing
    <3>2. SetNotTorn'
      <4>1. due' = time'[c] /\ Running(c)'
        BY <1>6, <2>0 DEF SetMax, Running, Handling, Context
      <4>. QED  BY <4>1, <2>0, <2>3 DEF SetNotTorn, Writing
    <3>3. AskedIsSet'  BY <1>6 DEF SetMax, TypeOK, AskedIsSet
    <3>. QED  BY <3>1, <3>2, <3>3
  <2>. QED  BY <2>1, <2>2, <2>4
<1>7. ASSUME NEW c \in Context, SetLow(c) PROVE IInv'
  <2>0. time[c] \in Nat /\ Low(time[c]) \in Word
    <3>1. time[c] \in Nat  BY TopRange DEF TypeOK
    <3>. QED  BY <3>1, DivMod DEF Word
  <2>1. TypeOK'  BY <1>7, <2>0 DEF SetLow, TypeOK, Place
  <2>2. Moments' /\ ReadsAMoment'  BY <1>7 DEF SetLow, TypeOK, Moments, ReadsAMoment
  <2>3. \A d \in Context \ {c} : at[d] \notin Writing  BY <1>7, OneWriter DEF SetLow
  <2>7. at'[c] = "high" /\ \A d \in Context \ {c} : at'[d] = at[d]
    BY <1>7 DEF SetLow, TypeOK
  <2>4. Held'
    <3>1. cmp'.hi = Max /\ cmp'.lo = Low(time'[c])
      BY <1>7 DEF SetLow, TypeOK, Held, Writing
    <3>. QED  BY <3>1, <2>3, <2>7 DEF Held, Writing
  <2>5. SetNotTorn'
    <3>1. due' = time'[c] /\ Running(c)'
      BY <1>7, <2>7 DEF SetLow, SetNotTorn, Running, Handling, Context
    <3>. QED  BY <3>1, <2>3, <2>7 DEF SetNotTorn, Writing
  <2>6. AskedIsSet'  BY <1>7 DEF SetLow, TypeOK, AskedIsSet
  <2>. QED  BY <2>1, <2>2, <2>4, <2>5, <2>6
<1>8. ASSUME NEW c \in Context, SetHigh(c) PROVE IInv'
  <2>0. time[c] \in 0 .. W * W - 1 /\ time[c] \in Nat  BY TopRange DEF TypeOK
  <2>1. High(time[c]) \in Word  BY <2>0, HighWord DEF Word
  <2>2. TypeOK'  BY <1>8, <2>1 DEF SetHigh, TypeOK, Place
  <2>3. Moments' /\ ReadsAMoment'  BY <1>8 DEF SetHigh, TypeOK, Moments, ReadsAMoment
  <2>4. \A d \in Context \ {c} : at[d] \notin Writing  BY <1>8, OneWriter DEF SetHigh
  <2>8. \A d \in Context : at'[d] \notin Writing
    BY <1>8, <2>4 DEF SetHigh, TypeOK, Writing
  <2>5. Held'  BY <2>8 DEF Held
  <2>6. SetNotTorn'  BY <2>8 DEF SetNotTorn, Writing
  <2>7. AskedIsSet'
    <3>1. due = time[c] /\ cmp.lo = Low(time[c])
      BY <1>8 DEF SetHigh, SetNotTorn, Held, Writing
    <3>2. cmp'.hi = High(time[c]) /\ cmp'.lo = Low(time[c]) /\ due' = due
      BY <1>8, <3>1 DEF SetHigh, TypeOK
    <3>3. time[c] = Double(High(time[c]), Low(time[c]))  BY <2>0, DivMod
    <3>. QED  BY <3>1, <3>2, <3>3 DEF AskedIsSet
  <2>. QED  BY <2>2, <2>3, <2>5, <2>6, <2>7
<1>9. CASE mtime_get
  <2>1. \A d \in Context : at[d] \notin Writing
    BY <1>9 DEF mtime_get, Handling, Context, Writing
  <2>2. \A d \in Context : at'[d] \notin Writing
    BY <1>9, <2>1 DEF mtime_get, TypeOK, Writing, Context
  <2>3. TypeOK' /\ Moments' /\ ReadsAMoment'
    BY <1>9, <1>a DEF mtime_get, TypeOK, Place, Context, Moments, ReadsAMoment
  <2>4. AskedIsSet'  BY <1>9, <2>1 DEF mtime_get, AskedIsSet, Writing
  <2>. QED  BY <2>2, <2>3, <2>4 DEF Held, SetNotTorn, Writing
<1>10. CASE mtime_got
  <2>1. \A d \in Context : at[d] \notin Writing
    BY <1>10 DEF mtime_got, Handling, Context, Writing
  <2>2. \A d \in Context : at'[d] \notin Writing
    BY <1>10, <2>1 DEF mtime_got, TypeOK, Writing, Context
  <2>3. TypeOK' /\ Moments' /\ ReadsAMoment'
    BY <1>10 DEF mtime_got, TypeOK, Place, Context, Moments, ReadsAMoment
  <2>4. AskedIsSet'  BY <1>10, <2>1 DEF mtime_got, AskedIsSet, Writing
  <2>. QED  BY <2>2, <2>3, <2>4 DEF Held, SetNotTorn, Writing
<1>11. CASE mtimecmp_set
  <2>1. \A d \in Context : at[d] \notin Writing
    BY <1>11 DEF mtimecmp_set, Handling, Context, Writing
  <2>2. \A d \in Context : at'[d] \notin Writing
    BY <1>11, <2>1 DEF mtimecmp_set, TypeOK, Writing, Context
  <2>3. TypeOK' /\ Moments' /\ ReadsAMoment'
    BY <1>11, TargetAssumption
    DEF mtimecmp_set, TypeOK, Place, Context, Moments, ReadsAMoment, Handling
  <2>4. AskedIsSet'  BY <1>11, <2>1 DEF mtimecmp_set, AskedIsSet, Writing
  <2>. QED  BY <2>2, <2>3, <2>4 DEF Held, SetNotTorn, Writing
<1>12. CASE timer_handler
  <2>1. \A d \in Context : at[d] \notin Writing
    BY <1>12, MaxIsNever DEF timer_handler, Held
  <2>2. \A d \in Context : at'[d] \notin Writing
    BY <1>12, <2>1 DEF timer_handler, TypeOK, Writing, Context
  <2>3. TypeOK' /\ Moments' /\ ReadsAMoment'
    BY <1>12, <1>a DEF timer_handler, TypeOK, Place, Context, Moments, ReadsAMoment
  <2>4. AskedIsSet'  BY <1>12, <2>1 DEF timer_handler, AskedIsSet, Writing
  <2>. QED  BY <2>2, <2>3, <2>4 DEF Held, SetNotTorn, Writing
<1>13. CASE handler_sets
  <2>1. time["isr"] + Delta \in 0 .. W * W - 1
    <3>1. time["isr"] <= mtime /\ time["isr"] \in Nat
      BY <1>13, TopRange DEF handler_sets, ReadsAMoment, Context, TypeOK
    <3>. QED  BY <3>1, <1>a, TopRange, DeltaAssumption, TopAssumption DEF TypeOK
  <2>2. \A d \in Context : at[d] \notin Writing
    BY <1>13, OneWriter DEF handler_sets, Running, Handling, Context, Writing
  <2>3. \A d \in Context : at'[d] \notin Writing
    BY <1>13, <2>2 DEF handler_sets, TypeOK, Writing, Context
  <2>4. TypeOK' /\ Moments' /\ ReadsAMoment'
    BY <1>13, <2>1 DEF handler_sets, TypeOK, Place, Context, Moments, ReadsAMoment
  <2>5. AskedIsSet'  BY <1>13, <2>2 DEF handler_sets, AskedIsSet, Writing
  <2>. QED  BY <2>3, <2>4, <2>5 DEF Held, SetNotTorn, Writing
<1>14. CASE UNCHANGED vars
  BY <1>14 DEF vars, TypeOK, Moments, Held, Handling, Running, Writing, SetNotTorn, AskedIsSet,
     ReadsAMoment, MTIP
<1>. QED
  BY <1>1, <1>2, <1>3, <1>4, <1>5, <1>6, <1>7, <1>8, <1>9, <1>10, <1>11, <1>12, <1>13, <1>14
  DEF Next, Handler, Step, Context

THEOREM Invariance == Spec => []IInv
BY InitInv, NextInv, PTL DEF Spec

-----------------------------------------------------------------------------

\* Every variable of the timer keeps its type, for any word size.
THEOREM TypeCorrect == Spec => []TypeOK
<1>1. IInv => TypeOK  BY DEF IInv
<1>. QED  BY <1>1, Invariance, PTL

\* The time that mtime_get puts together was the time at some moment of the call.
THEOREM OneMoment == Spec => []ReadsAMoment
<1>1. IInv => ReadsAMoment  BY DEF IInv
<1>. QED  BY <1>1, Invariance, PTL

\* No handler comes between the writes of a set.
THEOREM NotTorn == Spec => []SetNotTorn
<1>1. IInv => SetNotTorn  BY DEF IInv
<1>. QED  BY <1>1, Invariance, PTL

\* The timer interrupt is never pending before the time that was asked for last.
THEOREM NotSpurious == Spec => []NoSpuriousInterrupt
<1>1. IInv => NoSpuriousInterrupt
  <2>. SUFFICES ASSUME IInv, MTIP PROVE mtime >= due  BY DEF NoSpuriousInterrupt
  <2>1. \A c \in Context : at[c] \notin Writing
    BY MaxIsNever DEF IInv, Held
  <2>. QED  BY <2>1 DEF IInv, AskedIsSet, MTIP, Writing
<1>. QED  BY <1>1, Invariance, PTL

-----------------------------------------------------------------------------
(* The PLIC. *)

Typed ==
  /\ client \in Clients
  /\ prio \in [Id -> 0 .. MaxPriority]
  /\ claimed \in [Id -> BOOLEAN]
  /\ isr \in [Plic!Hart -> [at : {"off", "claim", "run", "end"}, id : Id \cup {0}]]

\* What a handler holds was claimed for it, and is until the handler completes it.
Holds == \A h \in Plic!Hart : isr[h].id # 0 => isr[h].at \in {"run", "end"} /\ claimed[isr[h].id]

Alone == \A h, k \in Plic!Hart : isr[h].id = isr[k].id /\ isr[h].id # 0 => h = k

PlicInv == Typed /\ Holds /\ Alone

\* A nonempty set of naturals has a least element.
LEMMA LeastNatural ==
  ASSUME NEW S, S \subseteq Nat, S # {}
  PROVE  \E n \in S : \A m \in S : n <= m
<1> DEFINE R == {s \in Nat \X Nat : s[1] < s[2]}
<1>1. R = OpToRel(<, Nat)
  BY DEF OpToRel
<1>2. IsWellFoundedOn(R, Nat)
  BY <1>1, NatLessThanWellFounded, Zenon
<1>3. PICK n \in S : \A m \in S : ~ (<<m, n>> \in R)
  BY <1>2, WFMin
<1>4. ASSUME NEW m \in S
      PROVE  n <= m
  <2>1. m \in Nat /\ n \in Nat
    OBVIOUS
  <2>2. m < n => <<m, n>> \in R
    BY <2>1
  <2>3. ~ (m < n)
    BY <1>3, <2>2
  <2>4. QED
    BY <2>1, <2>3
<1>5. QED
  BY <1>4

\* Min names it.
LEMMA MinIsMember ==
  ASSUME NEW S, S \subseteq Nat, S # {}
  PROVE  Plic!Min(S) \in S
<1>1. \E n \in S : \A m \in S : n <= m
  BY LeastNatural
<1>2. QED
  BY <1>1 DEF Plic!Min

\* A claim gives a source that nobody serves, or none.
LEMMA ClaimIsPending ==
  ASSUME Plic!PriorityAssumption, Typed, NEW c
  PROVE  Plic!Claimable(c) = 0 \/ (Plic!Claimable(c) \in Id /\ ~ claimed[Plic!Claimable(c)])
<1> DEFINE P == Plic!Pending(c)
           highest == {i \in P : \A j \in P : prio[j] <= prio[i]}
           missing == {MaxPriority - prio[i] : i \in P}
<1>1. P \subseteq Id /\ \A i \in P : ~ claimed[i]
  BY DEF Plic!Pending
<1>2. CASE P = {}
  BY <1>2 DEF Plic!Claimable
<1>3. CASE P # {}
  <2>1. \A i \in P : prio[i] \in Nat /\ prio[i] <= MaxPriority
    <3>1. \A i \in P : prio[i] \in 0 .. MaxPriority
      <4> HIDE DEF P
      <4> QED BY <1>1 DEF Typed
    <3>2. QED
      <4> HIDE DEF P
      <4> QED BY <3>1 DEF Plic!PriorityAssumption
  <2>2. missing \subseteq Nat /\ missing # {}
    <3> HIDE DEF P
    <3> QED BY <1>3, <2>1 DEF Plic!PriorityAssumption
  <2>3. PICK least \in missing : \A n \in missing : least <= n
    <3> HIDE DEF missing
    <3> QED BY <2>2, LeastNatural
  <2>4. PICK i \in P : least = MaxPriority - prio[i]
    BY <2>3
  <2>5. \A j \in P : MaxPriority - prio[i] <= MaxPriority - prio[j]
    BY <2>3, <2>4
  <2>6. i \in highest
    BY <2>1, <2>4, <2>5 DEF Plic!PriorityAssumption
  <2>7. highest \subseteq Nat
    BY <1>1 DEF Plic!PriorityAssumption
  <2>8. Plic!Min(highest) \in highest
    BY <2>6, <2>7, MinIsMember
  <2>9. Plic!Claimable(c) = Plic!Min(highest)
    BY <1>3 DEF Plic!Claimable
  <2>10. QED
    BY <1>1, <2>8, <2>9
<1>4. QED
  BY <1>2, <1>3

LEMMA PlicInit == Plic!PriorityAssumption /\ Plic!Init => PlicInv
  BY DEF Plic!PriorityAssumption, Plic!Init, Plic!Free, PlicInv, Typed, Holds, Alone

\* The program's calls leave the handlers and the claims alone.
LEMMA ProgramKeeps ==
  ASSUME Plic!PriorityAssumption, PlicInv, UNCHANGED client, NEW h \in Plic!Hart, Plic!Program(h)
  PROVE  PlicInv'
<1>1. UNCHANGED <<claimed, isr>>
  BY DEF Plic!Program, Plic!cpu_enable, Plic!Store, Plic!register, Plic!set_priority, Plic!enable, Plic!disable, Plic!Load, Plic!affinity,
     Plic!set_threshold, Plic!affinity_set_threshold, Plic!affinity_get_threshold
<1>2. ASSUME NEW i \in Id, NEW p \in Nat
      PROVE  Plic!WithPriority(i, p) \in [Id -> 0 .. MaxPriority]
  BY DEF Plic!WithPriority, PlicInv, Typed, Plic!PriorityAssumption
<1>0. client.sources \subseteq Id /\ client.priorities \subseteq Nat
  BY DEF PlicInv, Typed, Plic!PriorityAssumption
<1>3. prio' = prio \/ \E i \in Id, p \in Nat : prio' = Plic!WithPriority(i, p)
  BY <1>0 DEF Plic!Program, Plic!cpu_enable, Plic!Store, Plic!register, Plic!set_priority, Plic!enable, Plic!disable,
     Plic!Load, Plic!affinity, Plic!set_threshold, Plic!affinity_set_threshold, Plic!affinity_get_threshold
<1>4. prio' \in [Id -> 0 .. MaxPriority]
  BY <1>2, <1>3 DEF PlicInv, Typed
<1>5. QED
  BY <1>1, <1>4 DEF PlicInv, Typed, Holds, Alone

LEMMA HandlerKeeps ==
  ASSUME Plic!PriorityAssumption, PlicInv, UNCHANGED client, NEW h \in Plic!Hart, Plic!Handler(h)
  PROVE  PlicInv'
<1> USE DEF PlicInv, Typed, Holds, Alone
<1>1. 0 \notin Id
  BY DEF Plic!PriorityAssumption
<1>2. CASE Plic!Enter(h)
  BY <1>2 DEF Plic!Enter
<1>3. CASE Plic!Claim(h)
  <2> DEFINE i == Plic!Claimable(ContextOf[h])
  <2>1. isr[h].id = 0 /\ prio' = prio /\ isr' = [isr EXCEPT ![h] = [at |-> "run", id |-> i]]
    BY <1>3 DEF Plic!Claim
  <2>2. CASE i = 0
    BY <1>3, <2>1, <2>2 DEF Plic!Claim
  <2>3. CASE i # 0
    <3>1. i \in Id /\ ~ claimed[i]
      BY <2>3, ClaimIsPending
    <3>2. claimed' = [claimed EXCEPT ![i] = TRUE]
      BY <1>3, <2>3 DEF Plic!Claim
    <3>3. \A k \in Plic!Hart : isr[k].id # i
      BY <2>3, <3>1
    <3> HIDE DEF i
    <3>4. Typed'
      BY <2>1, <3>1, <3>2
    <3>5. Holds' /\ Alone'
      BY <1>1, <2>1, <3>1, <3>2, <3>3
    <3>6. QED
      BY <3>4, <3>5
  <2>4. QED
    BY <2>2, <2>3
<1>4. CASE Plic!Serve(h)
  BY <1>4 DEF Plic!Serve
<1>5. CASE Plic!NestedLoad(h) \/ Plic!Store(h, "isr")
  BY <1>5 DEF Plic!NestedLoad, Plic!Load, Plic!Store
<1>6. CASE Plic!Complete(h)
  BY <1>1, <1>6 DEF Plic!Complete, Plic!Free
<1>7. QED
  BY <1>2, <1>3, <1>4, <1>5, <1>6 DEF Plic!Handler

LEMMA NextServed ==
  ASSUME Plic!PriorityAssumption, PlicInv, [Plic!Next]_Plic!vars
  PROVE  PlicInv'
<1>1. UNCHANGED client
  BY DEF Plic!Next, Plic!vars
<1>2. CASE UNCHANGED Plic!vars \/ Plic!plic0_init(0) \/ \E i \in client.sources : Plic!Raise(i)
  BY <1>1, <1>2 DEF Plic!vars, Plic!plic0_init, Plic!Raise, PlicInv, Typed, Holds, Alone
<1>3. QED
  BY <1>1, <1>2, ProgramKeeps, HandlerKeeps DEF Plic!Next

LEMMA ServedByOneHart == PlicInv => Plic!ServedByOne
  BY DEF PlicInv, Holds, Alone, Plic!ServedByOne

\* However many harts a source is sent to, one at a time serves it, and it is claimed until
\* that hart has completed it (riscv_plic0.c:68-85, 107-122).
THEOREM ServedByOneAlways ==
  ASSUME Plic!PriorityAssumption
  PROVE  Plic!Spec => []Plic!ServedByOne
<1>1. Plic!Init => PlicInv
  BY PlicInit
<1>2. PlicInv /\ [Plic!Next]_Plic!vars => PlicInv'
  BY NextServed
<1>3. QED
  BY <1>1, <1>2, ServedByOneHart, PTL DEF Plic!Spec

\* While handlers leave the enables alone and no affinity call is made: a call that has loaded
\* a word of enables finds it unchanged when it stores, because only its own hart changes it.
Steady == ~ client.nested /\ ~ client.affinity

Enables ==
  /\ ie \in [Plic!Context -> SUBSET Id] /\ asked = ie
  /\ op \in [Plic!Hart -> [Plic!Level -> [ctx : Int, id : Int, on : BOOLEAN, word : SUBSET Id]]]
  /\ \A h \in Plic!Hart :
       /\ op[h]["isr"] = Plic!None
       /\ op[h]["main"] = Plic!None \/ (/\ op[h]["main"].ctx = h /\ op[h]["main"].word = ie[h]
                                        /\ op[h]["main"].id \in Id)

LEMMA EnablesInit ==
  ASSUME Plic!PriorityAssumption, Plic!Init
  PROVE  Enables
<1>1. Plic!None \in [ctx : Int, id : Int, on : BOOLEAN, word : SUBSET Id]
  BY DEF Plic!None
<1>2. op \in [Plic!Hart -> [Plic!Level -> [ctx : Int, id : Int, on : BOOLEAN, word : SUBSET Id]]]
  BY <1>1 DEF Plic!Init
<1>3. ie \in [Plic!Context -> SUBSET Id] /\ asked = ie
  BY DEF Plic!Init
<1>4. QED
  BY <1>2, <1>3 DEF Plic!Init, Enables, Plic!Level

LEMMA LoadEnables ==
  ASSUME Plic!PriorityAssumption, Plic!OwnContexts, Enables, NEW h \in Plic!Hart, NEW i \in Id,
         NEW on \in BOOLEAN, Plic!Load(h, "main", i, on)
  PROVE  Enables'
<1> DEFINE o == [ctx |-> h, id |-> i, on |-> on, word |-> ie[h]]
<1>1. h \in Int /\ i \in Int /\ ie[h] \in SUBSET Id /\ "main" \in Plic!Level
  BY DEF Plic!PriorityAssumption, Plic!OwnContexts, Enables, Plic!Level, Plic!Hart
<1>2. o \in [ctx : Int, id : Int, on : BOOLEAN, word : SUBSET Id]
  BY <1>1
<1>3. op' = [op EXCEPT ![h]["main"] = o] /\ ie' = ie /\ asked' = asked
  BY DEF Plic!Load
<1>4. o.ctx = h /\ o.word = ie[h] /\ o.id \in Id
  OBVIOUS
<1> HIDE DEF o
<1>5. QED
  BY <1>1, <1>2, <1>3, <1>4 DEF Enables, Plic!Level

LEMMA StoreEnables ==
  ASSUME Plic!OwnContexts, Enables, NEW h \in Plic!Hart, NEW l \in Plic!Level, Plic!Store(h, l)
  PROVE  Enables'
<1> DEFINE o == op[h][l]
<1>1. l = "main" /\ o # Plic!None
  BY DEF Plic!Store, Enables, Plic!Level
<1>2. o.ctx = h /\ o.word = ie[h] /\ o.id \in Id /\ ContextOf[h] = h /\ h \in Plic!Context
  BY <1>1 DEF Enables, Plic!OwnContexts
<1>3. PICK new : new = Plic!With(ie[h], o.id, o.on)
  OBVIOUS
<1>4. /\ ie' = [ie EXCEPT ![h] = new] /\ asked' = [asked EXCEPT ![h] = new]
      /\ op' = [op EXCEPT ![h]["main"] = Plic!None]
  BY <1>1, <1>2, <1>3 DEF Plic!Store, Enables
<1>5. new \in SUBSET Id
  BY <1>2, <1>3 DEF Plic!With, Enables
<1>6. Plic!None \in [ctx : Int, id : Int, on : BOOLEAN, word : SUBSET Id]
  BY DEF Plic!None
<1>7. QED
  BY <1>2, <1>4, <1>5, <1>6 DEF Enables, Plic!Level

EnablesInv == client \in Clients /\ (Steady => Enables)

LEMMA NextEnables ==
  ASSUME Plic!PriorityAssumption, Plic!OwnContexts, EnablesInv, [Plic!Next]_Plic!vars
  PROVE  EnablesInv'
<1>1. client' = client
  BY DEF Plic!Next, Plic!vars
<1>2. client.sources \subseteq Id
  BY DEF EnablesInv, Plic!PriorityAssumption
<1>3. SUFFICES ASSUME Steady PROVE Enables'
  BY <1>1 DEF EnablesInv, Steady
<1>4. Enables
  BY <1>3 DEF EnablesInv
<1>5. ASSUME UNCHANGED <<ie, asked, op>>
      PROVE  Enables'
  BY <1>4, <1>5 DEF Enables
<1>6. CASE UNCHANGED Plic!vars \/ Plic!plic0_init(0) \/ \E i \in client.sources : Plic!Raise(i)
  BY <1>5, <1>6 DEF Plic!vars, Plic!plic0_init, Plic!Raise
<1>7. ASSUME NEW h \in Plic!Hart, Plic!Program(h)
      PROVE  Enables'
  <2>1. CASE Plic!Store(h, "main")
    BY <1>4, <2>1, StoreEnables DEF Plic!Level
  <2>2. CASE \E i \in client.sources : Plic!enable(h, i) \/ Plic!disable(h, i)
    BY <1>2, <1>4, <2>2, LoadEnables DEF Plic!enable, Plic!disable
  <2>3. CASE \/ Plic!cpu_enable(h)
             \/ \E i \in client.sources :
                  \/ \E f \in {"isr", "default"} : Plic!register(h, i, f)
                  \/ \E p \in client.priorities : Plic!set_priority(h, i, p)
             \/ \E t \in client.thresholds : Plic!set_threshold(h, t)
             \/ \E c \in Plic!Context : Plic!affinity_get_threshold(h, c)
    BY <1>5, <2>3 DEF Plic!cpu_enable, Plic!register, Plic!set_priority, Plic!set_threshold,
       Plic!affinity_get_threshold
  <2>4. QED
    BY <1>3, <1>7, <2>1, <2>2, <2>3
       DEF Plic!Program, Plic!affinity, Plic!affinity_set_threshold, Steady
<1>8. ASSUME NEW h \in Plic!Hart, Plic!Handler(h)
      PROVE  Enables'
  <2>1. CASE Plic!Store(h, "isr")
    BY <1>4, <2>1, StoreEnables DEF Plic!Level
  <2>2. ~ Plic!NestedLoad(h)
    BY <1>3 DEF Plic!NestedLoad, Steady
  <2>3. CASE Plic!Enter(h) \/ Plic!Claim(h) \/ Plic!Serve(h) \/ Plic!Complete(h)
    BY <1>5, <2>3 DEF Plic!Enter, Plic!Claim, Plic!Serve, Plic!Complete
  <2>4. QED
    BY <1>8, <2>1, <2>2, <2>3 DEF Plic!Handler
<1>9. QED
  BY <1>6, <1>7, <1>8 DEF Plic!Next

LEMMA EnablesAreAsked == EnablesInv => Plic!EnabledAsAsked
  BY DEF EnablesInv, Steady, Enables, Plic!EnabledAsAsked

LEMMA InitEnables == Plic!PriorityAssumption /\ Plic!Init => EnablesInv
  BY EnablesInit DEF EnablesInv, Plic!Init

\* With contexts that are the harts' numbers, and a program whose handlers do not touch the
\* enables and that makes no affinity calls, each word of enables is what its hart asked for
\* (riscv_plic0.c:87-105).
THEOREM EnablesKept ==
  ASSUME Plic!PriorityAssumption, Plic!OwnContexts
  PROVE  Plic!Spec => []Plic!EnabledAsAsked
<1>1. Plic!Init => EnablesInv
  BY InitEnables
<1>2. EnablesInv /\ [Plic!Next]_Plic!vars => EnablesInv'
  BY NextEnables
<1>3. QED
  BY <1>1, <1>2, EnablesAreAsked, PTL DEF Plic!Spec

Unmuted ==
  /\ client \in Clients
  /\ prio \in [Id -> 0 .. MaxPriority] /\ table \in [Id -> {"none", "default", "isr"}]
  /\ Plic!NeverMute

LEMMA UnmutedInit == Plic!PriorityAssumption /\ Plic!Init => Unmuted
  BY DEF Plic!Init, Plic!NeverMute, Plic!PriorityAssumption, Unmuted

LEMMA NextUnmuted ==
  ASSUME Plic!PriorityAssumption, Plic!NotZero, Unmuted, [Plic!Next]_Plic!vars
  PROVE  Unmuted'
<1>. USE DEF Unmuted
<1>0. client' = client /\ client.sources \subseteq Id
  BY DEF Plic!Next, Plic!vars, Plic!PriorityAssumption
<1>1. ASSUME UNCHANGED <<prio, table>>
      PROVE  Unmuted'
  BY <1>0, <1>1 DEF Plic!NeverMute
<1>2. CASE UNCHANGED Plic!vars \/ Plic!plic0_init(0) \/ \E i \in client.sources : Plic!Raise(i)
  BY <1>1, <1>2 DEF Plic!vars, Plic!plic0_init, Plic!Raise
<1>3. ASSUME NEW h \in Plic!Hart, NEW i \in Id, NEW f \in {"isr", "default"}, Plic!register(h, i, f)
      PROVE  Unmuted'
  <2>1. prio' = [prio EXCEPT ![i] = IF f = "isr" THEN 2 ELSE 1] /\ table' = [table EXCEPT ![i] = f]
    BY <1>3 DEF Plic!register, Plic!WithPriority, Plic!PriorityAssumption, Plic!NotZero
  <2>2. QED
    BY <1>0, <2>1 DEF Plic!NeverMute, Plic!PriorityAssumption, Plic!NotZero
<1>4. ASSUME NEW h \in Plic!Hart, NEW i \in Id, NEW p \in client.priorities, Plic!set_priority(h, i, p)
      PROVE  Unmuted'
  <2>1. p \in Nat /\ p # 0 /\ table' = table
    BY <1>4 DEF Plic!PriorityAssumption, Plic!NotZero, Plic!set_priority
  <2>2. prio' = prio \/ (p \in 0 .. MaxPriority /\ prio' = [prio EXCEPT ![i] = p])
    BY <1>4, <2>1 DEF Plic!set_priority, Plic!WithPriority, Plic!PriorityAssumption
  <2>3. QED
    BY <1>0, <2>1, <2>2 DEF Plic!NeverMute
<1>5. ASSUME NEW h \in Plic!Hart, Plic!Program(h)
      PROVE  Unmuted'
  <2>1. CASE \/ \E i \in Id, f \in {"isr", "default"} : Plic!register(h, i, f)
             \/ \E i \in Id, p \in client.priorities : Plic!set_priority(h, i, p)
    BY <1>3, <1>4, <2>1
  <2>2. CASE UNCHANGED <<prio, table>>
    BY <1>1, <2>2
  <2>3. QED
    BY <1>0, <1>5, <2>1, <2>2
       DEF Plic!Program, Plic!cpu_enable, Plic!Store, Plic!enable, Plic!disable, Plic!Load, Plic!affinity,
           Plic!set_threshold, Plic!affinity_set_threshold, Plic!affinity_get_threshold
<1>6. ASSUME NEW h \in Plic!Hart, Plic!Handler(h)
      PROVE  Unmuted'
  BY <1>1, <1>6 DEF Plic!Handler, Plic!Enter, Plic!Claim, Plic!Serve, Plic!NestedLoad, Plic!Load,
     Plic!Store, Plic!Complete
<1>7. QED
  BY <1>2, <1>5, <1>6 DEF Plic!Next

\* A source with a handler of the program is never mute, if the controller has priorities
\* above 2 and no program sets priority 0 (riscv_plic0.c:172-208, 58-66).
THEOREM NeverMuteAlways ==
  ASSUME Plic!PriorityAssumption, Plic!NotZero
  PROVE  Plic!Spec => []Plic!NeverMute
<1>1. Plic!Init => Unmuted
  BY UnmutedInit
<1>2. Unmuted /\ [Plic!Next]_Plic!vars => Unmuted'
  BY NextUnmuted
<1>3. Unmuted => Plic!NeverMute
  BY DEF Unmuted
<1>4. QED
  BY <1>1, <1>2, <1>3, PTL DEF Plic!Spec

-----------------------------------------------------------------------------
(* The CLIC. *)

Bytes == SUBSET Clic!Bit

\* The bits of a level in a control byte; nmbits is never set.
LevelBits == (8 - Clic!LevelBits) .. 7

\* The bits of the level that was set last are in the byte.
Levelled ==
  /\ user \in Users
  /\ nmbits = 0 /\ nlbits \in 0 .. 8
  /\ ctl \in [Clic!Ints -> Bytes]
  /\ levelled \in [Clic!Ints -> Bytes \cup {Clic!NoLevel}]
  /\ \A i \in Clic!Ints :
       levelled[i] # Clic!NoLevel => \A b \in LevelBits : b \in ctl[i] <=> b \in levelled[i]

LEMMA NoLevelIsNone == Clic!NoLevel \notin Bytes
<1>1. -1 \in Clic!NoLevel /\ -1 \notin Clic!Bit
  BY DEF Clic!NoLevel, Clic!Bit
<1>2. QED
  BY <1>1 DEF Bytes

\* Where the bits are, and the masks that the accessors use.
LEMMA Masks ==
  ASSUME Clic!IdAssumption, nmbits = 0, nlbits \in 0 .. 8
  PROVE  /\ Clic!LevelBits \in 0 .. 8 /\ LevelBits \subseteq Clic!Bit
         /\ \A b \in LevelBits : b \in Clic!LevelMask /\ b \in 8 - IntBits .. 7
         /\ nlbits <= IntBits => \A b \in LevelBits : b \notin Clic!PriorityMask
<1>1. IntBits \in 1 .. 8
  BY DEF Clic!IdAssumption
<1>2. Clic!LevelBits = IF IntBits < nlbits THEN IntBits ELSE nlbits
  BY <1>1 DEF Clic!LevelBits, Clic!Small
<1>3. QED
  BY <1>1, <1>2 DEF LevelBits, Clic!LevelMask, Clic!PriorityMask, Clic!Bit

\* A byte stays one, and loses none of the bits that the controller has.
LEMMA StoredByte ==
  ASSUME Clic!IdAssumption, NEW B \in Bytes
  PROVE  /\ Clic!Stored(B) \in Bytes
         /\ \A b \in 8 - IntBits .. 7 : b \in Clic!Stored(B) <=> b \in B
<1>1. IntBits \in 1 .. 8
  BY DEF Clic!IdAssumption
<1>2. QED
  BY <1>1 DEF Clic!Stored, Bytes, Clic!Bit

\* Setting a priority leaves the level's bits; setting a level writes them.
LEMMA PriorityKeepsLevel ==
  ASSUME Clic!IdAssumption, nmbits = 0, nlbits \in 0 .. 8, NEW B \in Bytes, NEW bits \in Bytes
  PROVE  /\ Clic!set_priority(B, bits) \in Bytes
         /\ \A b \in LevelBits : b \in Clic!set_priority(B, bits) <=> b \in B
<1> DEFINE new == (B \ Clic!PriorityMask) \cup (bits \cap Clic!PriorityMask)
<1>1. new \in Bytes
  BY DEF Bytes
<1>2. CASE nlbits <= IntBits
  <2>1. Clic!set_priority(B, bits) = Clic!Stored(new)
    BY <1>2 DEF Clic!set_priority, Clic!With, Clic!IdAssumption
  <2>2. \A b \in LevelBits : b \in new <=> b \in B
    BY <1>2, Masks
  <2> HIDE DEF new
  <2>3. QED
    BY <1>1, <2>1, <2>2, StoredByte, Masks
<1>3. CASE ~ (nlbits <= IntBits)
  BY <1>3 DEF Clic!set_priority, Clic!IdAssumption
<1>4. QED
  BY <1>2, <1>3

LEMMA LevelIsSet ==
  ASSUME Clic!IdAssumption, nmbits = 0, nlbits \in 0 .. 8, NEW B \in Bytes, NEW bits \in Bytes
  PROVE  /\ Clic!set_level(B, bits) \in Bytes
         /\ \A b \in LevelBits : b \in Clic!set_level(B, bits) <=> b \in bits
<1> DEFINE new == (B \ Clic!LevelMask) \cup (bits \cap Clic!LevelMask)
<1>1. new \in Bytes /\ Clic!set_level(B, bits) = Clic!Stored(new)
  BY DEF Bytes, Clic!set_level, Clic!With
<1>2. \A b \in LevelBits : b \in new <=> b \in bits
  BY Masks
<1> HIDE DEF new
<1>3. QED
  BY <1>1, <1>2, StoredByte, Masks

LEMMA LevelledInit ==
  ASSUME Clic!IdAssumption, Clic!ClicInit
  PROVE  Levelled
<1>1. IntBits \in 1 .. 8
  BY DEF Clic!IdAssumption
<1>2. 0 .. 7 - IntBits \in Bytes
  BY <1>1 DEF Bytes, Clic!Bit
<1>3. QED
  BY <1>2 DEF Clic!ClicInit, Levelled

\* Calls that change one byte.
LEMMA BytesLevelled ==
  ASSUME Clic!IdAssumption, Clic!BytesAssumption, Levelled, NEW i \in Clic!Ints, NEW bits \in user.levels,
         user' = user,
         Clic!set_priority_of(i, bits) \/ Clic!set_preemptive_level(i, bits)
  PROVE  Levelled'
<1>1. bits \in Bytes /\ ctl[i] \in Bytes
  BY DEF Clic!BytesAssumption, Levelled, Bytes
<1>2. UNCHANGED <<nmbits, nlbits>> /\ LevelBits' = LevelBits
  BY DEF Clic!set_priority_of, Clic!set_preemptive_level, Clic!config, LevelBits, Clic!LevelBits
<1>3. CASE Clic!set_priority_of(i, bits)
  <2>1. PICK new : new = Clic!set_priority(ctl[i], bits)
    OBVIOUS
  <2>2. new \in Bytes /\ \A b \in LevelBits : b \in new <=> b \in ctl[i]
    BY <1>1, <2>1, PriorityKeepsLevel DEF Levelled
  <2>3. ctl' = [ctl EXCEPT ![i] = new] /\ levelled' = levelled
    BY <1>3, <2>1 DEF Clic!set_priority_of
  <2>4. QED
    BY <1>2, <2>2, <2>3 DEF Levelled
<1>4. CASE Clic!set_preemptive_level(i, bits)
  <2>1. PICK mid, new : mid = Clic!set_level(ctl[i], bits) /\ new = Clic!set_priority(mid, bits)
    OBVIOUS
  <2>2. mid \in Bytes /\ \A b \in LevelBits : b \in mid <=> b \in bits
    BY <1>1, <2>1, LevelIsSet DEF Levelled
  <2>3. new \in Bytes /\ \A b \in LevelBits : b \in new <=> b \in mid
    BY <1>1, <2>1, <2>2, PriorityKeepsLevel DEF Levelled
  <2>4. ctl' = [ctl EXCEPT ![i] = new] /\ levelled' = [levelled EXCEPT ![i] = bits]
    BY <1>4, <2>1 DEF Clic!set_preemptive_level
  <2>5. QED
    BY <1>1, <1>2, <2>2, <2>3, <2>4 DEF Levelled
<1>5. QED
  BY <1>3, <1>4

\* Calls that forget the level.
LEMMA VectorLevelled ==
  ASSUME Clic!IdAssumption, Levelled, user' = user, NEW i \in Clic!Ints, NEW on \in BOOLEAN,
         Clic!set_vector(i, on)
  PROVE  Levelled'
<1>1. UNCHANGED <<nmbits, nlbits>> /\ LevelBits' = LevelBits
  BY DEF Clic!set_vector, Clic!config, LevelBits, Clic!LevelBits
<1>2. PICK new, B : /\ B = IF on THEN ctl[i] \cup {Clic!VectorBit} ELSE ctl[i] \ {Clic!VectorBit}
                    /\ new = Clic!Stored(B)
  OBVIOUS
<1>3. Clic!VectorBit \in Clic!Bit
  BY DEF Clic!IdAssumption, Clic!VectorBit, Clic!Bit
<1>4. B \in Bytes
  BY <1>2, <1>3 DEF Levelled, Bytes
<1>5. new \in Bytes
  BY <1>2, <1>4, StoredByte
<1>6. ctl' = [ctl EXCEPT ![i] = new] /\ levelled' = [levelled EXCEPT ![i] = Clic!NoLevel]
  BY <1>2 DEF Clic!set_vector, Levelled
<1>7. QED
  BY <1>1, <1>5, <1>6 DEF Levelled

LEMMA NextLevelled ==
  ASSUME Clic!IdAssumption, Clic!BytesAssumption, Levelled, [Clic!ClicNext]_Clic!clicVars
  PROVE  Levelled'
<1>0. user' = user
  BY DEF Clic!ClicNext, Clic!clicVars
<1>1. ASSUME UNCHANGED <<nmbits, nlbits, ctl, levelled>>
      PROVE  Levelled'
  BY <1>0, <1>1 DEF Levelled, LevelBits, Clic!LevelBits
<1>2. CASE Clic!cpu_init \/ Clic!local_init \/ UNCHANGED Clic!clicVars
  BY <1>1, <1>2 DEF Clic!cpu_init, Clic!local_init, Clic!config, Clic!clicVars
<1>3. CASE Clic!clic_init
  <2>1. nmbits' = 0 /\ nlbits' \in 0 .. 8
    BY <1>3 DEF Clic!clic_init, Clic!Initialise, Clic!Small, Clic!MaxNlBits, Clic!IdAssumption
  <2>2. PICK mask, ones : mask = Clic!LevelMask' /\ ones = 0 .. nlbits' - 1
    OBVIOUS
  <2>3. mask \in Bytes /\ ones \in Bytes
    <3>1. \A n \in 0 .. 8 : 0 .. n - 1 \subseteq 0 .. 7
      OBVIOUS
    <3>2. ones \subseteq 0 .. 7
      BY <2>1, <2>2, <3>1
    <3>3. mask \subseteq Clic!Bit
      BY <2>2 DEF Clic!LevelMask
    <3>4. QED
      BY <3>2, <3>3 DEF Bytes, Clic!Bit
  <2>4. ctl' = [i \in Clic!Ints |-> Clic!With(ctl[i], mask, ones)]
    BY <1>3, <2>2 DEF Clic!clic_init, Clic!Initialise
  <2>5. ASSUME NEW i \in Clic!Ints
        PROVE  Clic!With(ctl[i], mask, ones) \in Bytes
    <3>1. ctl[i] \in Bytes
      BY DEF Levelled
    <3>2. (ctl[i] \ mask) \cup (ones \cap mask) \in Bytes
      BY <2>3, <3>1 DEF Bytes
    <3>3. QED
      BY <3>2, StoredByte DEF Clic!With
  <2>6. ctl' \in [Clic!Ints -> Bytes]
    BY <2>4, <2>5
  <2>7. levelled' = [i \in Clic!Ints |-> Clic!NoLevel]
    BY <1>3 DEF Clic!clic_init, Clic!Initialise
  <2>8. QED
    BY <1>0, <2>1, <2>6, <2>7 DEF Levelled
<1>4. ASSUME NEW i \in Clic!Ints, Clic!Calls(i)
      PROVE  Levelled'
  <2>1. CASE \/ Clic!register(i) \/ Clic!vector_register(i)
             \/ \E on \in BOOLEAN : Clic!Switch(i, on) \/ Clic!set_interrupt(i, on)
    BY <1>1, <2>1 DEF Clic!register, Clic!vector_register, Clic!Switch, Clic!set_interrupt, Clic!config
  <2>2. CASE \E bits \in user.levels : Clic!set_priority_of(i, bits) \/ Clic!set_preemptive_level(i, bits)
    BY <1>0, <2>2, BytesLevelled
  <2>3. CASE \E on \in BOOLEAN : Clic!set_vector(i, on)
    BY <1>0, <2>3, VectorLevelled
  <2>4. QED
    BY <1>4, <2>1, <2>2, <2>3 DEF Clic!Calls
<1>5. ASSUME NEW i \in Clic!Ints, Clic!Dispatch(i)
      PROVE  Levelled'
  BY <1>1, <1>5 DEF Clic!Dispatch, Clic!config
<1>6. ASSUME NEW m, Clic!set_vector_mode(m)
      PROVE  Levelled'
  BY <1>1, <1>6 DEF Clic!set_vector_mode
<1>7. ASSUME NEW nl \in user.thresholds, Clic!set_threshold(nl)
      PROVE  Levelled'
  <2>1. nl \in 0 .. 8
    BY DEF Clic!BytesAssumption, Levelled
  <2>2. QED
    BY <1>0, <1>7, <2>1 DEF Clic!set_threshold, Levelled
<1>8. QED
  BY <1>2, <1>3, <1>4, <1>5, <1>6, <1>7 DEF Clic!ClicNext

LEMMA LevelledIsKept ==
  ASSUME Clic!IdAssumption, Levelled
  PROVE  Clic!LevelsKept
<1>1. SUFFICES ASSUME NEW i \in Clic!Ints, levelled[i] # Clic!NoLevel, ~ (Clic!LevelBits <= 0)
               PROVE  Clic!get_level(i) = (levelled[i] \cap LevelBits) \cup Clic!FreeBits
  BY DEF Clic!LevelsKept, Clic!get_level, LevelBits
<1>2. nmbits = 0 /\ Clic!LevelBits \in 0 .. 8 /\ ctl[i] \in Bytes /\ levelled[i] \in Bytes
  BY <1>1, Masks DEF Levelled
<1>3. {b + nmbits : b \in {b \in ctl[i] : b >= 8 - (nmbits + Clic!LevelBits) /\ b < 8 - nmbits}}
        = levelled[i] \cap LevelBits
  <2>1. \A b \in LevelBits : b \in ctl[i] <=> b \in levelled[i]
    BY <1>1 DEF Levelled
  <2>2. \A b \in ctl[i] : b \in Clic!Bit /\ b + 0 = b
    BY <1>2 DEF Bytes, Clic!Bit
  <2>3. \A b \in Clic!Bit : (b >= 8 - Clic!LevelBits /\ b < 8) <=> b \in LevelBits
    BY <1>2 DEF LevelBits, Clic!Bit
  <2>4. QED
    BY <1>2, <2>1, <2>2, <2>3 DEF Bytes
<1>4. QED
  BY <1>1, <1>3 DEF Clic!get_level

\* A level is read back as it was set, for any number of bits that the controller has, wherever
\* the level is cut and whatever was set since of priorities and modes (sifive_clic0.c:85-172).
THEOREM LevelsKeptAlways ==
  ASSUME Clic!IdAssumption, Clic!BytesAssumption
  PROVE  Clic!ClicSpec => []Clic!LevelsKept
<1>1. Clic!ClicInit => Levelled
  BY LevelledInit
<1>2. Levelled /\ [Clic!ClicNext]_Clic!clicVars => Levelled'
  BY NextLevelled
<1>3. Levelled => Clic!LevelsKept
  BY LevelledIsKept
<1>4. QED
  BY <1>1, <1>2, <1>3, PTL DEF Clic!ClicSpec

-----------------------------------------------------------------------------
(* Where the CLIC's interrupts come to. *)

Entry == {"null", "default", "program", "clic", "local"}

\* A handler that the program registered is still in the table it belongs to, and the pointers
\* that lead there are the CLIC's from its initialisation on, unless the program gives the
\* software interrupt another one.
Linked ==
  /\ handler \in [Clic!Ints -> Entry] /\ sub_int \in [Clic!Ints -> Entry]
  /\ mtvt \in [{0} \cup Clic!Ints -> Entry]
  /\ given \in [Clic!Ints -> {"none", "table", "vector"}] /\ user \in Users
  /\ "clic" \in ready => "cpu" \in ready /\ mtvt[0] = "clic"
  /\ "clic" \in ready /\ Clic!KeepsLink => sub_int[Clic!SW] = "clic"
  /\ \A i \in Clic!Ints : /\ given[i] # "none" => "clic" \in ready
                          /\ given[i] = "table" => handler[i] = "program"
                          /\ given[i] = "vector" => mtvt[i] = "program"

LEMMA Apart ==
  ASSUME Clic!IdAssumption
  PROVE  /\ Clic!SW \in Clic!Ints /\ Clic!SW \notin Local /\ 0 \notin Local
         /\ Local \subseteq Clic!Ints /\ Cpu \subseteq Clic!Ints /\ Clic!SW \in Cpu
  BY DEF Clic!IdAssumption, Clic!Ints

LEMMA LinkedInit == Clic!ClicInit => Linked
  BY DEF Clic!ClicInit, Linked, Entry

\* The initialisations: the hart's is over when the CLIC's is.
LEMMA StartsLinked ==
  ASSUME Clic!IdAssumption, Linked, user' = user,
         Clic!cpu_init \/ Clic!clic_init \/ Clic!local_init
  PROVE  Linked'
<1>0. Clic!KeepsLink' = Clic!KeepsLink
  BY DEF Clic!KeepsLink
<1>1. CASE Clic!cpu_init
  <2>1. /\ "clic" \notin ready /\ ready' = ready \cup {"cpu"} /\ UNCHANGED <<mtvt, given>>
        /\ handler' = [i \in Clic!Ints |-> IF i \in Cpu THEN "null" ELSE handler[i]]
        /\ sub_int' = [i \in Clic!Ints |-> IF i \in Cpu THEN "null" ELSE sub_int[i]]
    BY <1>1 DEF Clic!cpu_init, Linked
  <2>2. handler' \in [Clic!Ints -> Entry] /\ sub_int' \in [Clic!Ints -> Entry]
    BY <2>1 DEF Linked, Entry
  <2>3. \A i \in Clic!Ints : given[i] = "none"
    BY <2>1 DEF Linked
  <2>4. QED
    BY <1>0, <2>1, <2>2, <2>3 DEF Linked
<1>2. CASE Clic!clic_init
  <2>1. /\ ready' = ready \cup {"cpu", "clic"}
        /\ handler' = [i \in Clic!Ints |-> IF i \in Cpu THEN "default" ELSE "null"]
        /\ sub_int' = [i \in Clic!Ints |-> IF i \in Cpu THEN "clic" ELSE "null"]
        /\ mtvt' = [i \in {0} \cup Clic!Ints |-> IF i = 0 THEN "clic" ELSE "null"]
        /\ given' = [i \in Clic!Ints |-> "none"]
    BY <1>2 DEF Clic!clic_init, Clic!Initialise
  <2>2. QED
    BY <2>1, Apart DEF Linked, Entry
<1>3. CASE Clic!local_init
  <2>1. PICK own : /\ own \subseteq Local
                     /\ handler' = [i \in Clic!Ints |-> IF i \in own THEN "default" ELSE handler[i]]
                     /\ sub_int' = [i \in Clic!Ints |-> IF i \in own THEN "local" ELSE sub_int[i]]
                     /\ given' = [i \in Clic!Ints |-> IF i \in own THEN "none" ELSE given[i]]
    BY <1>3 DEF Clic!local_init
  <2>2. ready' = ready \cup {"local"} /\ mtvt' = mtvt
    BY <1>3 DEF Clic!local_init
  <2>3. handler' \in [Clic!Ints -> Entry] /\ sub_int' \in [Clic!Ints -> Entry]
    BY <2>1 DEF Linked, Entry
  <2>4. given' \in [Clic!Ints -> {"none", "table", "vector"}]
    BY <2>1 DEF Linked
  <2>5. "clic" \in ready' /\ Clic!KeepsLink' => sub_int'[Clic!SW] = "clic"
    BY <1>0, <2>1, <2>2, Apart DEF Linked
  <2>6. QED
    BY <2>1, <2>2, <2>3, <2>4, <2>5 DEF Linked
<1>4. QED
  BY <1>1, <1>2, <1>3

\* The program's registrations, and the calls that make it register again.
LEMMA CallsLinked ==
  ASSUME Clic!IdAssumption, Clic!NullAssumption, Linked, user' = user, Clic!Up,
         NEW i \in Clic!Ints, Clic!Calls(i)
  PROVE  Linked'
<1>1. "clic" \in ready
  BY DEF Clic!Up
<1>0. /\ Clic!KeepsLink' = Clic!KeepsLink /\ user.null \in Entry
      /\ i \in user.handled /\ i = Clic!SW /\ Clic!KeepsLink => user.null = "clic"
  BY DEF Clic!KeepsLink, Clic!NullAssumption, Linked, Entry
<1>2. CASE i \in user.handled /\ Clic!register(i)
  <2>1. ready' = ready /\ mtvt' = mtvt
    BY <1>2 DEF Clic!register
  <2>2. CASE /\ handler' = [handler EXCEPT ![i] = "program"]
             /\ given' = [given EXCEPT ![i] = "table"] /\ UNCHANGED sub_int
    BY <1>0, <1>1, <2>1, <2>2 DEF Linked, Entry
  <2>3. CASE /\ handler' = [handler EXCEPT ![i] = "default"]
             /\ sub_int' = [sub_int EXCEPT ![i] = user.null] /\ given' = [given EXCEPT ![i] = "none"]
    BY <1>0, <1>1, <1>2, <2>1, <2>3, Apart DEF Linked, Entry
  <2>4. QED
    BY <1>2, <2>2, <2>3 DEF Clic!register
<1>3. CASE Clic!vector_register(i)
  <2>1. ready' = ready /\ handler' = handler /\ i # 0
    BY <1>3 DEF Clic!vector_register, Clic!IdAssumption, Clic!Ints, Clic!SW
  <2>2. CASE /\ mtvt' = [mtvt EXCEPT ![i] = "program"]
             /\ given' = [given EXCEPT ![i] = "vector"] /\ UNCHANGED sub_int
    BY <1>0, <1>1, <2>1, <2>2, Apart DEF Linked, Entry
  <2>3. CASE /\ mtvt' = [mtvt EXCEPT ![i] = "default"]
             /\ sub_int' = [sub_int EXCEPT ![i] = IF i \in Local THEN user.null ELSE @]
             /\ given' = [given EXCEPT ![i] = "none"]
    <3>1. sub_int' \in [Clic!Ints -> Entry] /\ sub_int'[Clic!SW] = sub_int[Clic!SW]
      BY <1>0, <2>3, Apart DEF Linked
    <3>2. QED
      BY <1>0, <1>1, <2>1, <2>3, <3>1, Apart DEF Linked, Entry
  <2>4. QED
    BY <1>3, <2>2, <2>3 DEF Clic!vector_register
<1>4. ASSUME UNCHANGED <<ready, handler, sub_int, mtvt, given>>
      PROVE  Linked'
  BY <1>0, <1>4 DEF Linked
<1>5. CASE \/ \E on \in BOOLEAN : Clic!Switch(i, on) \/ Clic!set_interrupt(i, on)
           \/ \E bits \in user.levels : Clic!set_priority_of(i, bits) \/ Clic!set_preemptive_level(i, bits)
  BY <1>4, <1>5 DEF Clic!Switch, Clic!set_interrupt, Clic!set_priority_of, Clic!set_preemptive_level,
     Clic!tables
<1>6. CASE \E on \in BOOLEAN : Clic!set_vector(i, on)
  BY <1>0, <1>6 DEF Clic!set_vector, Linked
<1>7. QED
  BY <1>2, <1>3, <1>5, <1>6 DEF Clic!Calls

LEMMA NextLinked ==
  ASSUME Clic!IdAssumption, Clic!NullAssumption, Linked, [Clic!ClicNext]_Clic!clicVars
  PROVE  Linked'
<1>0. user' = user /\ Clic!KeepsLink' = Clic!KeepsLink
  BY DEF Clic!ClicNext, Clic!clicVars, Clic!KeepsLink
<1>1. ASSUME UNCHANGED <<ready, handler, sub_int, mtvt, given>>
      PROVE  Linked'
  BY <1>0, <1>1 DEF Linked
<1>2. CASE UNCHANGED Clic!clicVars
  BY <1>1, <1>2 DEF Clic!clicVars
<1>3. ASSUME NEW i \in Clic!Ints, Clic!Dispatch(i)
      PROVE  Linked'
  BY <1>1, <1>3 DEF Clic!Dispatch, Clic!tables
<1>4. ASSUME NEW m, Clic!set_vector_mode(m)
      PROVE  Linked'
  BY <1>0, <1>4 DEF Clic!set_vector_mode, Linked
<1>5. ASSUME NEW nl, Clic!set_threshold(nl)
      PROVE  Linked'
  BY <1>1, <1>5 DEF Clic!set_threshold, Clic!tables
<1>6. QED
  BY <1>0, <1>2, <1>3, <1>4, <1>5, StartsLinked, CallsLinked DEF Clic!ClicNext

\* The step that takes an interrupt finds the program's handler.
LEMMA DispatchFinds ==
  ASSUME Clic!IdAssumption, Linked, NEW i \in Clic!Ints, Clic!Dispatch(i),
         given[i] = IF Clic!Jumps(i) THEN "vector" ELSE "table",
         Clic!KeepsLink \/ i \in Cpu \/ Clic!Jumps(i)
  PROVE  ran'.id = i /\ ran'.is = "program"
<1>1. /\ "clic" \in ready
      /\ ran' = [id |-> i, is |-> IF ~ Clic!Jumps(i) THEN Clic!exception_handler(i)
                                  ELSE IF mtvt[i] = "null" THEN "wild" ELSE mtvt[i]]
  BY DEF Clic!Dispatch, Clic!Up
<1>2. mtvt[0] = "clic" /\ (Clic!KeepsLink => sub_int[Clic!SW] = "clic")
  BY <1>1 DEF Linked
<1>3. CASE Clic!Jumps(i)
  BY <1>1, <1>3 DEF Linked
<1>4. CASE ~ Clic!Jumps(i)
  <2>1. handler[i] = "program"
    BY <1>4 DEF Linked
  <2>2. Clic!exception_handler(i) = "program"
    BY <1>2, <1>4, <2>1 DEF Clic!exception_handler
  <2>3. QED
    BY <1>1, <1>4, <2>2
<1>5. QED
  BY <1>3, <1>4

Found ==
  ran' # ran => LET i == ran'.id
                IN  given[i] = (IF Clic!Jumps(i) THEN "vector" ELSE "table")
                      => (Clic!KeepsLink \/ i \in Cpu \/ Clic!Jumps(i) => ran'.is = "program")

LEMMA StepFinds ==
  ASSUME Clic!IdAssumption, Linked, [Clic!ClicNext]_Clic!clicVars
  PROVE  Found
<1>1. SUFFICES ASSUME Clic!ClicNext, ran' # ran
               PROVE  Found
  BY DEF Clic!clicVars, Found
<1>2. PICK i \in Clic!Ints : Clic!Dispatch(i)
  BY <1>1 DEF Clic!ClicNext, Clic!cpu_init, Clic!clic_init, Clic!Initialise, Clic!local_init, Clic!Calls, Clic!register,
     Clic!vector_register, Clic!Switch, Clic!set_interrupt, Clic!set_vector_mode, Clic!set_vector,
     Clic!set_threshold, Clic!set_priority_of, Clic!set_preemptive_level
<1>3. ran'.id = i
  BY <1>2 DEF Clic!Dispatch
<1>4. QED
  BY <1>2, <1>3, DispatchFinds DEF Found

\* Whatever modes and tables the calls have left behind, an interrupt comes to the handler that
\* the program registered for the way it is taken, the hart's own and the vectored ones for every
\* program, the other local ones for those that leave the pointer to the CLIC in the software
\* interrupt's entry (sifive_clic0.c:448-455, riscv_cpu.c:186-205, 510-513).
THEOREM HandlerRunsAlways ==
  ASSUME Clic!IdAssumption, Clic!NullAssumption
  PROVE  Clic!ClicSpec => Clic!HandlerRuns
<1>1. Clic!ClicInit => Linked
  BY LinkedInit
<1>2. Linked /\ [Clic!ClicNext]_Clic!clicVars => Linked'
  BY NextLinked
<1>3. Linked /\ [Clic!ClicNext]_Clic!clicVars => [Found]_Clic!clicVars
  BY StepFinds
<1>4. QED
  BY <1>1, <1>2, <1>3, PTL DEF Clic!ClicSpec, Clic!HandlerRuns, Found

-----------------------------------------------------------------------------
(* A hart's tables and traps. *)

Names == Functions \cup {"null", "none", "sw", "timer", "exit", "clint", "program"}
Row == [is : Names, priv : Names, sub : Names]

\* What the program registered, and is not just registering, is in the tables with its data;
\* the rows of the CLINT keep the pointer to it, and nothing was there before the
\* initialisation that clears it.
Tables ==
  /\ ints \in [Hart!Ids -> Row]
  /\ registered \in [Hart!Ids -> Functions \cup {"none", "default"}]
  /\ registering # Hart!Nothing =>
       /\ registering.id \in Hart!Ids /\ registering.fn \in Functions
       /\ ints[registering.id].is = registering.fn
  /\ \A i \in Hart!Ids : registered[i] # "none" => "cpu" \in inited /\ ints[i].is # "null"
  /\ "clint" \in inited => "cpu" \in inited /\ \A i \in Clint : ints[i].sub = "clint"
  /\ \A i \in Clint : "clint" \notin inited =>
       registered[i] = "none" /\ (registering # Hart!Nothing => registering.id # i)
  /\ registering # Hart!Nothing => "cpu" \in inited
  /\ \A i \in Hart!Ids :
       registered[i] \in Functions /\ (registering # Hart!Nothing => registering.id # i)
         => ints[i].is = registered[i] /\ ints[i].priv = registered[i]

\* The exceptions' table, the mode, and what is enabled.
Modes ==
  /\ tvec \in {"early", "direct", "vectored"} /\ ("cpu" \in inited => tvec # "early")
  /\ \A c \in caught : "cpu" \in inited /\ c \in Codes
  /\ excs \in [Codes \cup {Hart!Breakpoint} -> Names]
  /\ \A c \in caught : excs[c] = "program"
  /\ \A i \in mieb : i \in Hart!Ids /\ registered[i] # "none"

Placed == pc \in Starts /\ mepc \in Starts

HartInv == Tables /\ Modes /\ Placed

LEMMA HartStart ==
  ASSUME Hart!CodeAssumption, Hart!FunctionsAssumption, Hart!CpuInit
  PROVE  HartInv
<1>1. Hart!Empty \in Row
  BY DEF Hart!Empty, Row, Names
<1>2. Tables
  BY <1>1 DEF Hart!CpuInit, Tables, Hart!FunctionsAssumption, Hart!Ids
<1>3. Modes
  BY DEF Hart!CpuInit, Modes, Names
<1>4. Placed
  BY DEF Hart!CpuInit, Placed, Hart!CodeAssumption
<1>5. QED
  BY <1>2, <1>3, <1>4 DEF HartInv

\* Steps that leave the tables alone.
LEMMA TablesStay ==
  ASSUME Tables, UNCHANGED <<ints, registered, registering, inited>>
  PROVE  Tables'
  BY DEF Tables

LEMMA InitialisedTables ==
  ASSUME Hart!FunctionsAssumption, Tables, Hart!cpu_init \/ Hart!clint0_init
  PROVE  Tables'
<1>1. CASE Hart!cpu_init
  <2>1. /\ "cpu" \notin inited /\ "clint" \notin inited /\ inited' = inited \cup {"cpu"}
        /\ registering = Hart!Nothing /\ UNCHANGED <<registered, registering>>
        /\ ints' = [i \in Hart!Ids |-> Hart!Empty]
    BY <1>1 DEF Hart!cpu_init, Hart!Calling, Tables
  <2>2. Hart!Empty \in Row
    BY DEF Hart!Empty, Row, Names
  <2>3. \A i \in Hart!Ids : registered[i] = "none" /\ registered[i] \notin Functions
    BY <2>1 DEF Tables, Hart!FunctionsAssumption
  <2>4. QED
    BY <2>1, <2>2, <2>3 DEF Tables, Hart!FunctionsAssumption, Hart!Ids
<1>2. CASE Hart!clint0_init
  <2>1. /\ "cpu" \in inited /\ "clint" \notin inited /\ inited' = inited \cup {"clint"}
        /\ registering = Hart!Nothing /\ UNCHANGED registering
        /\ ints' = [i \in Hart!Ids |->
                      IF i \in Clint THEN [ints[i] EXCEPT !.is = Hart!Default(i), !.sub = "clint"] ELSE ints[i]]
        /\ registered' = [i \in Hart!Ids |->
                            IF i \in Clint /\ registered[i] = "none" THEN "default" ELSE registered[i]]
    BY <1>2 DEF Hart!clint0_init, Hart!Calling
  <2>2. \A i \in Clint : i \in Hart!Ids /\ registered[i] = "none"
    BY <2>1 DEF Tables, Hart!Ids
  <2>3. \A i \in Hart!Ids : Hart!Default(i) \in Names /\ Hart!Default(i) # "null"
    BY DEF Hart!Default, Names
  <2>4. /\ ints' \in [Hart!Ids -> Row]
        /\ \A i \in Clint : ints'[i].is # "null" /\ ints'[i].sub = "clint" /\ registered'[i] = "default"
        /\ \A i \in Hart!Ids \ Clint : ints'[i] = ints[i] /\ registered'[i] = registered[i]
    <3>1. ASSUME NEW r \in Row, NEW d \in Names
          PROVE  /\ [r EXCEPT !.is = d, !.sub = "clint"] \in Row
                 /\ [r EXCEPT !.is = d, !.sub = "clint"].is = d
                 /\ [r EXCEPT !.is = d, !.sub = "clint"].sub = "clint"
      BY DEF Row, Names
    <3>2. \A i \in Hart!Ids : ints[i] \in Row
      BY DEF Tables
    <3>3. ints' \in [Hart!Ids -> Row]
      BY <2>1, <2>3, <3>1, <3>2
    <3>4. ASSUME NEW i \in Clint
          PROVE  ints'[i].is # "null" /\ ints'[i].sub = "clint"
      <4>1. PICK d : d = Hart!Default(i)
        OBVIOUS
      <4>2. i \in Hart!Ids /\ d \in Names /\ d # "null"
        BY <2>2, <2>3, <4>1
      <4>3. ints'[i] = [ints[i] EXCEPT !.is = d, !.sub = "clint"]
        BY <2>1, <4>1, <4>2
      <4>4. ints[i] \in Row
        BY <3>2, <4>2
      <4>5. /\ [ints[i] EXCEPT !.is = d, !.sub = "clint"].is = d
            /\ [ints[i] EXCEPT !.is = d, !.sub = "clint"].sub = "clint"
        BY ONLY <3>1, <4>2, <4>4, Zenon
      <4>6. QED
        BY ONLY <4>2, <4>3, <4>5, Zenon
    <3>5. \A i \in Clint : registered'[i] = "default"
      BY <2>1, <2>2
    <3>6. \A i \in Hart!Ids \ Clint : ints'[i] = ints[i] /\ registered'[i] = registered[i]
      BY <2>1
    <3>7. QED
      BY <3>3, <3>4, <3>5, <3>6
  <2>5. registered' \in [Hart!Ids -> Functions \cup {"none", "default"}]
    BY <2>1 DEF Tables
  <2>6. QED
    BY <2>1, <2>2, <2>4, <2>5 DEF Tables, Hart!FunctionsAssumption
<1>3. QED
  BY <1>1, <1>2

LEMMA RegisteredTables ==
  ASSUME Hart!FunctionsAssumption, Tables, NEW i \in Hart!Ids,
         Hart!register_handler(i) \/ Hart!register_null(i)
  PROVE  Tables'
<1>1. /\ registering = Hart!Nothing /\ inited' = inited /\ (i \in Clint => "clint" \in inited)
      /\ "cpu" \in inited
  BY DEF Hart!register_handler, Hart!register_null, Hart!Registers, Hart!Calling, Tables
<1>2. CASE Hart!register_handler(i)
  <2>1. PICK f \in Functions : ints' = [ints EXCEPT ![i].is = f] /\ registering' = [id |-> i, fn |-> f]
    BY <1>2 DEF Hart!register_handler
  <2>2. registered' = registered
    BY <1>2 DEF Hart!register_handler
  <2>3. /\ ints' \in [Hart!Ids -> Row] /\ ints'[i].is = f /\ f # "null"
        /\ \A k \in Hart!Ids : ints'[k].sub = ints[k].sub /\ (k # i => ints'[k] = ints[k])
    BY <2>1 DEF Tables, Row, Names, Hart!FunctionsAssumption
  <2>4. registering'.id = i /\ registering'.fn = f
    BY <2>1
  <2>5. registering' # Hart!Nothing /\ i \in Hart!Ids
    BY <2>1 DEF Hart!Nothing, Hart!FunctionsAssumption
  <2>6. \A k \in Clint : k \in Hart!Ids
    BY DEF Hart!Ids
  <2>7. QED
    BY <1>1, <2>2, <2>3, <2>4, <2>5, <2>6 DEF Tables
<1>3. CASE Hart!register_null(i)
  <2>1. PICK d, s : d = Hart!Default(i) /\ s = IF i \in Clint THEN "clint" ELSE "program"
    OBVIOUS
  <2>2. /\ ints' = [ints EXCEPT ![i].is = d, ![i].sub = s] /\ UNCHANGED registering
        /\ registered' = [registered EXCEPT ![i] = "default"]
    BY <1>3, <2>1 DEF Hart!register_null
  <2>3. d \in Names /\ d # "null" /\ s \in Names
    BY <2>1 DEF Hart!Default, Names
  <2>4. /\ ints' \in [Hart!Ids -> Row] /\ ints'[i].is = d /\ ints'[i].sub = s
        /\ \A k \in Hart!Ids : k # i => ints'[k] = ints[k]
    BY <2>2, <2>3 DEF Tables, Row
  <2>5. /\ registered' \in [Hart!Ids -> Functions \cup {"none", "default"}]
        /\ registered'[i] = "default" /\ \A k \in Hart!Ids : k # i => registered'[k] = registered[k]
    BY <2>2 DEF Tables
  <2>6. "default" \notin Functions
    BY DEF Hart!FunctionsAssumption
  <2>7. QED
    BY <1>1, <2>1, <2>2, <2>3, <2>4, <2>5, <2>6 DEF Tables, Hart!Ids
<1>4. QED
  BY <1>2, <1>3

LEMMA DataTables ==
  ASSUME Hart!FunctionsAssumption, Tables, Hart!register_data
  PROVE  Tables'
<1>1. PICK i, f : i = registering.id /\ f = registering.fn
  OBVIOUS
<1>2. /\ registering # Hart!Nothing /\ i \in Hart!Ids /\ f \in Functions /\ ints[i].is = f
      /\ inited' = inited /\ "cpu" \in inited /\ (i \in Clint => "clint" \in inited)
      /\ registering' = Hart!Nothing
      /\ ints' = [ints EXCEPT ![i].priv = f] /\ registered' = [registered EXCEPT ![i] = f]
  BY <1>1 DEF Hart!register_data, Tables
<1>3. /\ ints' \in [Hart!Ids -> Row] /\ ints'[i].is = f /\ ints'[i].priv = f
      /\ \A k \in Hart!Ids : ints'[k].sub = ints[k].sub /\ (k # i => ints'[k] = ints[k])
  BY <1>2 DEF Tables, Row, Names
<1>4. /\ registered' \in [Hart!Ids -> Functions \cup {"none", "default"}]
      /\ registered'[i] = f /\ \A k \in Hart!Ids : k # i => registered'[k] = registered[k]
  BY <1>2 DEF Tables
<1>5. f # "null" /\ f # "none"
  BY <1>2 DEF Hart!FunctionsAssumption
<1>6. QED
  BY <1>1, <1>2, <1>3, <1>4, <1>5 DEF Tables, Hart!Ids

\* The steps of the program's calls and of the traps keep the modes and what is enabled.
LEMMA NextModes ==
  ASSUME Hart!FunctionsAssumption, Tables, Tables', Modes, Hart!CpuNext
  PROVE  Modes'
<1>. USE DEF Modes
<1>1. CASE Hart!cpu_init
  <2>1. caught = {} /\ "exit" \in Names /\ \A i \in Hart!Ids : registered[i] = "none"
    BY <1>1 DEF Hart!cpu_init, Tables, Names
  <2>2. /\ tvec' # "early" /\ UNCHANGED <<caught, mieb, registered>>
        /\ excs' = [c \in DOMAIN excs |-> "exit"]
    BY <1>1 DEF Hart!cpu_init
  <2>3. excs' \in [Codes \cup {Hart!Breakpoint} -> Names]
    BY <2>1, <2>2
  <2>4. tvec' \in {"early", "direct", "vectored"}
    BY <1>1 DEF Hart!cpu_init
  <2>5. \A i \in mieb : i \in Hart!Ids /\ registered[i] # "none"
    OBVIOUS
  <2>6. QED
    BY <2>1, <2>2, <2>3, <2>4, <2>5
<1>2. CASE Hart!clint0_init
  <2>1. /\ inited' = inited \cup {"clint"} /\ UNCHANGED <<tvec, caught, excs, mieb>>
        /\ \A i \in Hart!Ids : registered[i] # "none" => registered'[i] # "none"
    BY <1>2 DEF Hart!clint0_init, Hart!csrs
  <2>2. QED
    BY <2>1
<1>3. CASE Hart!register_data
  <2>1. /\ UNCHANGED <<inited, tvec, caught, excs, mieb>>
        /\ registered' = [registered EXCEPT ![registering.id] = registering.fn]
        /\ registering.fn # "none"
    BY <1>3 DEF Hart!register_data, Hart!csrs, Hart!FunctionsAssumption, Tables
  <2>2. QED
    BY <2>1 DEF Tables
<1>4. CASE Hart!set_vector_mode
  BY <1>4 DEF Hart!set_vector_mode, Hart!tables
<1>5. ASSUME NEW i \in Hart!Ids, Hart!register_handler(i)
      PROVE  Modes'
  BY <1>5 DEF Hart!register_handler, Hart!csrs
<1>6. ASSUME NEW i \in Hart!Ids, Hart!register_null(i)
      PROVE  Modes'
  <2>1. /\ UNCHANGED <<inited, tvec, caught, excs, mieb>>
        /\ registered' = [registered EXCEPT ![i] = "default"]
    BY <1>6 DEF Hart!register_null, Hart!csrs
  <2>2. QED
    BY <2>1 DEF Tables
<1>7. ASSUME NEW i \in Hart!Ids, Hart!local_interrupt_enable(i)
      PROVE  Modes'
  BY <1>7 DEF Hart!local_interrupt_enable, Hart!tables
<1>8. ASSUME NEW c \in Codes, Hart!exception_register(c)
      PROVE  Modes'
  <2>1. /\ UNCHANGED <<inited, tvec, mieb, registered>> /\ "cpu" \in inited /\ "program" \in Names
        /\ excs' = [excs EXCEPT ![c] = "program"] /\ caught' = caught \cup {c}
    BY <1>8 DEF Hart!exception_register, Hart!csrs, Names
  <2>2. QED
    BY <2>1
<1>9. ASSUME UNCHANGED <<inited, tvec, caught, excs, mieb, registered>>
      PROVE  Modes'
  BY <1>9
<1>10. ASSUME NEW c \in Codes, Hart!Exception(c)
       PROVE  Modes'
  BY <1>9, <1>10 DEF Hart!Exception, Hart!Enter, Hart!tables
<1>11. CASE Hart!Traps
  BY <1>9, <1>11 DEF Hart!Traps, Hart!Interrupt, Hart!Enter, Hart!Serve, Hart!Return, Hart!Exit, Hart!Finish,
     Hart!tables, Hart!csrs
<1>12. CASE Hart!Raise \/ Hart!Instruction \/ Hart!global_enable \/ Hart!set_sw_ipi
  BY <1>9, <1>12 DEF Hart!Raise, Hart!Instruction, Hart!global_enable, Hart!set_sw_ipi, Hart!tables, Hart!csrs
<1>13. QED
  BY <1>1, <1>2, <1>3, <1>4, <1>5, <1>6, <1>7, <1>8, <1>10, <1>11, <1>12 DEF Hart!CpuNext

\* The steps that leave the tables alone.
LEMMA NextTables ==
  ASSUME Hart!FunctionsAssumption, Tables, Hart!CpuNext
  PROVE  Tables'
<1>1. CASE Hart!cpu_init \/ Hart!clint0_init
  BY <1>1, InitialisedTables
<1>2. CASE Hart!register_data
  BY <1>2, DataTables
<1>3. ASSUME NEW i \in Hart!Ids, Hart!register_handler(i) \/ Hart!register_null(i)
      PROVE  Tables'
  BY <1>3, RegisteredTables
<1>4. CASE \/ Hart!set_vector_mode \/ Hart!Raise \/ Hart!Instruction \/ Hart!global_enable \/ Hart!set_sw_ipi
           \/ \E i \in Hart!Ids : Hart!local_interrupt_enable(i)
           \/ \E c \in Codes : Hart!exception_register(c) \/ Hart!Exception(c)
  BY <1>4, TablesStay DEF Hart!set_vector_mode, Hart!Raise, Hart!Instruction, Hart!global_enable,
     Hart!set_sw_ipi, Hart!local_interrupt_enable, Hart!exception_register, Hart!Exception, Hart!Enter,
     Hart!tables
<1>5. CASE Hart!Traps
  BY <1>5, TablesStay DEF Hart!Traps, Hart!Interrupt, Hart!Enter, Hart!Serve, Hart!Return, Hart!Exit,
     Hart!Finish, Hart!tables
<1>6. QED
  BY <1>1, <1>2, <1>3, <1>4, <1>5 DEF Hart!CpuNext

\* The program stays at its instructions, and a handler returns to one.
LEMMA NextPlaced ==
  ASSUME Hart!CodeAssumption, Placed, Hart!CpuNext
  PROVE  Placed'
<1>1. \A a \in Starts : (a + (IF Code[a] = 3 THEN 2 ELSE 1)) % Size \in Starts
  BY DEF Hart!CodeAssumption
<1>2. CASE Hart!Instruction
  BY <1>1, <1>2 DEF Hart!Instruction, Hart!csrs, Placed
<1>3. ASSUME NEW kind, NEW i, NEW is, NEW priv, Hart!Enter(kind, i, is, priv)
      PROVE  Placed'
  BY <1>3 DEF Hart!Enter, Placed
<1>4. CASE Hart!Serve
  <2>1. pc' = pc /\ (mepc' = mepc \/ mepc' = (mepc + (IF Code[mepc] = 3 THEN 2 ELSE 1)) % Size)
    BY <1>4 DEF Hart!Serve, Hart!Exit, Hart!Finish, Hart!Advance, Hart!get_instruction_length, Hart!csrs,
       Hart!running
  <2>2. QED
    BY <1>1, <2>1 DEF Placed
<1>5. CASE Hart!Return
  BY <1>5 DEF Hart!Return, Placed, Hart!CodeAssumption
<1>6. ASSUME UNCHANGED <<pc, mepc>>
      PROVE  Placed'
  BY <1>6 DEF Placed
<1>7. CASE \/ Hart!cpu_init \/ Hart!clint0_init \/ Hart!register_data \/ Hart!global_enable
           \/ Hart!set_vector_mode \/ Hart!set_sw_ipi \/ Hart!Raise
  BY <1>6, <1>7 DEF Hart!cpu_init, Hart!clint0_init, Hart!register_data, Hart!global_enable,
     Hart!set_vector_mode, Hart!set_sw_ipi, Hart!Raise, Hart!csrs, Hart!running
<1>8. ASSUME NEW i \in Hart!Ids,
             Hart!register_handler(i) \/ Hart!register_null(i) \/ Hart!local_interrupt_enable(i)
      PROVE  Placed'
  BY <1>6, <1>8 DEF Hart!register_handler, Hart!register_null, Hart!local_interrupt_enable, Hart!csrs,
     Hart!running
<1>9. ASSUME NEW c \in Codes, Hart!exception_register(c)
      PROVE  Placed'
  BY <1>6, <1>9 DEF Hart!exception_register, Hart!csrs, Hart!running
<1>10. CASE (\E c \in Codes : Hart!Exception(c)) \/ (\E i \in Hart!Ids : Hart!Interrupt(i))
  BY <1>3, <1>10 DEF Hart!Exception, Hart!Interrupt
<1>11. QED
  BY <1>2, <1>4, <1>5, <1>7, <1>8, <1>9, <1>10 DEF Hart!CpuNext, Hart!Traps

LEMMA HartStutters ==
  ASSUME HartInv, UNCHANGED Hart!cpuVars
  PROVE  HartInv'
<1>1. UNCHANGED <<inited, tvec, mieb, mepc, ints, excs, registered, caught, registering, pc>>
  BY DEF Hart!cpuVars, Hart!csrs, Hart!tables, Hart!running
<1>2. Tables' /\ Modes' /\ Placed'
  BY <1>1 DEF HartInv, Tables, Modes, Placed
<1>3. QED
  BY <1>2 DEF HartInv

LEMMA NextHart ==
  ASSUME Hart!CodeAssumption, Hart!FunctionsAssumption, HartInv, [Hart!CpuNext]_Hart!cpuVars
  PROVE  HartInv'
<1>1. ASSUME Hart!CpuNext
      PROVE  HartInv'
  <2>1. Tables'
    BY <1>1, NextTables DEF HartInv
  <2>2. Modes'
    BY <1>1, <2>1, NextModes DEF HartInv
  <2>3. Placed'
    BY <1>1, NextPlaced DEF HartInv
  <2>4. QED
    BY <2>1, <2>2, <2>3 DEF HartInv
<1>2. QED
  BY <1>1, HartStutters

\* Hart!CpuSpec => []HartInv, whatever the program's handlers are called.
LEMMA HartInvariance ==
  ASSUME Hart!CodeAssumption, Hart!FunctionsAssumption
  PROVE  Hart!CpuSpec => []HartInv
<1>1. Hart!CpuInit => HartInv
  BY HartStart
<1>2. HartInv /\ [Hart!CpuNext]_Hart!cpuVars => HartInv'
  BY NextHart
<1>3. QED
  BY <1>1, <1>2, PTL DEF Hart!CpuSpec

LEMMA HartIsSound == HartInv => Hart!Sound
  BY DEF HartInv, Tables, Modes, Placed, Hart!Sound

\* What a hart enables has a handler, its tables keep the pointer to the CLINT whatever was
\* registered, and the program goes on where an instruction starts, for any handlers, any
\* interrupts and any code (riscv_cpu.c:453-549, 810-821).
THEOREM SoundAlways ==
  ASSUME Hart!CodeAssumption, Hart!FunctionsAssumption
  PROVE  Hart!CpuSpec => []Hart!Sound
  BY HartIsSound, HartInvariance, PTL

Reached ==
  Hart!Entered /\ Hart!Settled /\ (tvec = "vectored" => trap'.kind = "interrupt" /\ trap'.id # Hart!EXT)
    => Hart!CallsIts(Hart!Asked)

LEMMA StepReaches ==
  ASSUME HartInv, [Hart!CpuNext]_Hart!cpuVars
  PROVE  [Reached]_Hart!cpuVars
<1>1. SUFFICES ASSUME Hart!CpuNext, Hart!Entered, Hart!Settled,
                      tvec = "vectored" => trap'.kind = "interrupt" /\ trap'.id # Hart!EXT
               PROVE  Hart!CallsIts(Hart!Asked)
  BY DEF Reached
<1>2. (\E c \in Codes : Hart!Exception(c)) \/ (\E i \in Hart!Ids : Hart!Interrupt(i))
  <2>1. trap = Hart!Main /\ trap' # trap
    BY <1>1 DEF Hart!Entered
  <2>2. QED
    BY <1>1, <2>1 DEF Hart!CpuNext, Hart!cpu_init, Hart!clint0_init, Hart!register_data, Hart!global_enable,
       Hart!set_vector_mode, Hart!set_sw_ipi, Hart!Raise, Hart!register_handler, Hart!register_null,
       Hart!local_interrupt_enable, Hart!exception_register, Hart!Instruction, Hart!Traps, Hart!Serve,
       Hart!Return, Hart!running
<1>3. CASE \E c \in Codes : Hart!Exception(c)
  <2>1. PICK c \in Codes : Hart!Exception(c)
    BY <1>3
  <2>2. /\ trap' = [kind |-> "exception", id |-> c, is |-> IF tvec = "direct" THEN excs[c] ELSE "exit",
                    priv |-> "none"]
        /\ UNCHANGED caught
    BY <2>1 DEF Hart!Exception, Hart!Enter, Hart!tables
  <2>3. trap'.kind = "exception" /\ trap'.id = c /\ trap'.is = IF tvec = "direct" THEN excs[c] ELSE "exit"
    BY <2>2
  <2>4. c \in caught /\ tvec # "vectored"
    BY <1>1, <2>3 DEF Hart!Settled, Hart!Asked
  <2>5. QED
    BY <2>2, <2>3, <2>4 DEF HartInv, Modes, Hart!CallsIts, Hart!Asked
<1>4. CASE \E i \in Hart!Ids : Hart!Interrupt(i)
  <2>1. PICK i \in Hart!Ids : Hart!Interrupt(i)
    BY <1>4
  <2>2. trap'.kind = "interrupt" /\ trap'.id = i
    <3>1. ASSUME NEW is, NEW priv, Hart!Enter("interrupt", i, is, priv)
          PROVE  trap'.kind = "interrupt" /\ trap'.id = i
      BY <3>1 DEF Hart!Enter
    <3>2. QED
      BY <2>1, <3>1 DEF Hart!Interrupt
  <2>3. trap'.is = ints[i].is /\ trap'.priv = ints[i].priv
    <3>1. Hart!Enter("interrupt", i, ints[i].is, ints[i].priv)
      BY <1>1, <2>1, <2>2 DEF Hart!Interrupt
    <3>2. PICK is, priv : is = ints[i].is /\ priv = ints[i].priv
      OBVIOUS
    <3>3. trap' = [kind |-> "interrupt", id |-> i, is |-> is, priv |-> priv]
      BY <3>1, <3>2 DEF Hart!Enter
    <3>4. trap'.is = is /\ trap'.priv = priv
      BY <3>3
    <3>5. QED
      BY <3>2, <3>4
  <2>4. Hart!Asked = registered[i] /\ i # registering.id
    BY <1>1, <2>2 DEF Hart!Settled, Hart!Asked
  <2>5. registered[i] \in Functions
    BY <1>1, <2>4 DEF HartInv, Tables, Hart!Settled
  <2>6. QED
    BY <2>2, <2>3, <2>4, <2>5 DEF HartInv, Tables, Hart!CallsIts
<1>5. QED
  BY <1>2, <1>3, <1>4

\* A trap calls the handler that the program registered last for it, with its data, in
\* whatever mode and order the controllers were initialised; but for exceptions and the
\* external interrupt in the vectored mode (riscv_cpu.c:168-206, 453-549).
THEOREM HandlerReachedAlways ==
  ASSUME Hart!CodeAssumption, Hart!FunctionsAssumption
  PROVE  Hart!CpuSpec => Hart!HandlerReached
<1>1. HartInv /\ [Hart!CpuNext]_Hart!cpuVars => [Reached]_Hart!cpuVars
  BY StepReaches
<1>2. QED
  BY <1>1, HartInvariance, PTL DEF Hart!CpuSpec, Hart!HandlerReached, Reached

-----------------------------------------------------------------------------
(* The controllers side by side. *)

\* A step of one controller is a step of each, or leaves it as it was.
LEMMA StepOfEach ==
  ASSUME [NextInterrupts]_all
  PROVE  /\ [Next]_vars /\ [Plic!Next]_Plic!vars
         /\ [Clic!ClicNext]_Clic!clicVars /\ [Hart!CpuNext]_Hart!cpuVars
<1>1. UNCHANGED plicVars => UNCHANGED Plic!vars
  BY DEF plicVars, Plic!vars
<1>2. UNCHANGED clicVars => UNCHANGED Clic!clicVars
  BY DEF clicVars, Clic!clicVars
<1>3. UNCHANGED hartVars => UNCHANGED Hart!cpuVars
  BY DEF hartVars, Hart!cpuVars, Hart!csrs, Hart!tables, Hart!running
<1>4. CASE UNCHANGED all
  BY <1>1, <1>2, <1>3, <1>4 DEF all
<1>5. QED
  BY <1>1, <1>2, <1>3, <1>4 DEF NextInterrupts

ControllersInv == PlicInv /\ EnablesInv /\ Unmuted /\ Levelled /\ Linked /\ HartInv

LEMMA ControllersHold ==
  ASSUME ControllersAssumption
  PROVE  SpecInterrupts => [](IInv /\ ControllersInv)
<1>1. InitInterrupts => IInv /\ ControllersInv
  BY InitInv, PlicInit, InitEnables, UnmutedInit, LevelledInit, LinkedInit, HartStart
     DEF InitInterrupts, ControllersInv, ControllersAssumption
<1>2. IInv /\ ControllersInv /\ [NextInterrupts]_all => IInv' /\ ControllersInv'
  <2>1. SUFFICES ASSUME IInv, ControllersInv, [NextInterrupts]_all
                 PROVE  IInv' /\ ControllersInv'
    OBVIOUS
  <2>2. /\ [Next]_vars /\ [Plic!Next]_Plic!vars
        /\ [Clic!ClicNext]_Clic!clicVars /\ [Hart!CpuNext]_Hart!cpuVars
    BY <2>1, StepOfEach
  <2>3. QED
    BY <2>1, <2>2, NextInv, NextServed, NextEnables, NextUnmuted, NextLevelled, NextLinked, NextHart
       DEF ControllersInv, ControllersAssumption
<1>3. QED
  BY <1>1, <1>2, PTL DEF SpecInterrupts

\* However many harts, contexts, sources and programs there are, one hart at a time serves a
\* source, whatever the handlers and the programs do to the enables (riscv_plic0.c:68-85).
THEOREM OneHartServes ==
  ASSUME ControllersAssumption
  PROVE  SpecInterrupts => []ServedByOne
<1>1. ControllersInv => ServedByOne
  BY ServedByOneHart DEF ControllersInv, ServedByOne
<1>2. QED
  BY <1>1, ControllersHold, PTL

\* The enable words are what the harts asked for, a source with a handler has a priority, what
\* a hart enables has a handler, its tables keep the CLINT, and it goes on at an instruction
\* (riscv_plic0.c:58-105 and 165-208, riscv_cpu.c:453-549, 810-821).
THEOREM AskedIsEnabled ==
  ASSUME ControllersAssumption
  PROVE  SpecInterrupts => []EnabledAsAsked
<1>1. ControllersInv => EnabledAsAsked
  BY EnablesAreAsked, HartIsSound DEF ControllersInv, Unmuted, EnabledAsAsked
<1>2. QED
  BY <1>1, ControllersHold, PTL

\* A level is read back as it was set (sifive_clic0.c:85-172).
THEOREM LevelsStay ==
  ASSUME ControllersAssumption
  PROVE  SpecInterrupts => []LevelsKept
<1>1. ControllersInv => LevelsKept
  BY LevelledIsKept DEF ControllersInv, ControllersAssumption, LevelsKept
<1>2. QED
  BY <1>1, ControllersHold, PTL

\* The program's handler runs, with its data, as long as the pointers beside the handlers are the
\* drivers' (sifive_clic0.c:448-455, riscv_cpu.c:168-206).
THEOREM HandlersFound ==
  ASSUME ControllersAssumption
  PROVE  SpecInterrupts => HandlerRuns
<1>1. ControllersInv /\ [NextInterrupts]_all => [Found]_Clic!clicVars /\ [Reached]_Hart!cpuVars
  <2>1. SUFFICES ASSUME ControllersInv, [NextInterrupts]_all
                 PROVE  [Found]_Clic!clicVars /\ [Reached]_Hart!cpuVars
    OBVIOUS
  <2>2. [Clic!ClicNext]_Clic!clicVars /\ [Hart!CpuNext]_Hart!cpuVars
    BY <2>1, StepOfEach
  <2>3. QED
    BY <2>1, <2>2, StepFinds, StepReaches DEF ControllersInv, ControllersAssumption
<1>2. QED
  BY <1>1, ControllersHold, PTL
     DEF SpecInterrupts, HandlerRuns, Clic!HandlerRuns, Hart!HandlerReached, Found, Reached
=============================================================================
