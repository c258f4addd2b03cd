-------------------------- MODULE HartStart_proofs --------------------------
(* Proofs about HartStart, for any number of harts and any boot hart.      *)
EXTENDS HartStart, TLAPS

\* Hart 0 has lowered h's bit for good, or never had to.
Released(h) == pc[0] = "main" \/ (pc[0] = "clear" /\ h < i)

\* A bit is up only while its hart waits, and down only when it may leave.
Bits ==
  \A h \in Other :
    /\ msip[h] = 1 => pc[h] = "wait"
    /\ pc[h] = "wait" /\ msip[h] = 0 => Released(h)
    /\ pc[h] = "main" => Released(h)

\* What hart 0 knows of the others in each of its loops.
Collected ==
  /\ pc[0] = "collect" => i >= 1 /\ \A h \in Other : h < i => pc[h] = "wait"
  /\ pc[0] \in {"clear", "main"} => i >= 1 /\ \A h \in Other : pc[h] \in {"wait", "main"}

Booted == pc[BootHart] # "start" => initialised

IInv == TypeOK /\ Booted /\ Bits /\ Collected

-----------------------------------------------------------------------------

LEMMA Harts == /\ 0 \in Hart /\ Other \subseteq Hart /\ 0 \notin Other
               /\ \A h \in Hart : h # 0 => h \in Other
               /\ MAX_HARTS \in Nat /\ Other \subseteq Int
  BY HartsAssumption DEF Hart, Other

LEMMA InitIInv == Init => IInv
<1> SUFFICES ASSUME Init PROVE IInv
  OBVIOUS
<1>1. TypeOK
  <2>1. pc \in [Hart -> {"start", "synchronize", "collect", "clear", "wait", "main"}]
    BY DEF Init
  <2>2. \A h \in Other : pc[h] \notin {"collect", "clear"}
    BY Harts DEF Init
  <2>3. pc[0] # "wait"
    BY Harts DEF Init
  <2>4. msip \in [Hart -> {0, 1}]
    BY DEF Init
  <2>5. i \in 0 .. MAX_HARTS
    BY Harts DEF Init
  <2>6. initialised \in BOOLEAN
    BY Zenon DEF Init
  <2> QED
    BY <2>1, <2>2, <2>3, <2>4, <2>5, <2>6 DEF TypeOK
<1>2. Booted
  BY BootAssumption DEF Init, Booted
<1>3. Bits
  BY Harts DEF Init, Bits
<1>4. Collected
  BY Harts DEF Init, Collected
<1> QED
  BY <1>1, <1>2, <1>3, <1>4 DEF IInv

LEMMA BootIInv ==
  ASSUME IInv, NEW h \in Hart, Boot(h)
  PROVE  IInv'
<1>1. pc[h] = "start" /\ pc' = [pc EXCEPT ![h] = "synchronize"]
      /\ msip' = msip /\ i' = i /\ initialised' = (initialised \/ h = BootHart)
  BY DEF Boot, Go
<1>2. TypeOK'
  BY <1>1, Harts DEF IInv, TypeOK
<1>3. Booted'
  BY <1>1, BootAssumption DEF IInv, TypeOK, Booted
<1>4. Bits'
  BY <1>1, Harts DEF IInv, TypeOK, Bits, Released
<1>5. Collected'
  BY <1>1, Harts DEF IInv, TypeOK, Collected
<1> QED
  BY <1>2, <1>3, <1>4, <1>5 DEF IInv

LEMMA EnterIInv ==
  ASSUME IInv, Enter
  PROVE  IInv'
<1>1. pc[0] = "synchronize" /\ pc' = [pc EXCEPT ![0] = "collect"]
      /\ msip' = msip /\ i' = 1 /\ initialised' = initialised
  BY DEF Enter, Go
<1>2. TypeOK'
  BY <1>1, Harts, HartsAssumption DEF IInv, TypeOK
<1>3. Booted'
  BY <1>1, BootAssumption DEF IInv, TypeOK, Booted
<1>4. Bits'
  BY <1>1, Harts DEF IInv, TypeOK, Bits, Released
<1>5. Collected'
  BY <1>1, Harts DEF IInv, TypeOK, Collected, Other
<1> QED
  BY <1>2, <1>3, <1>4, <1>5 DEF IInv

LEMMA CollectIInv ==
  ASSUME IInv, Collect
  PROVE  IInv'
<1>1. CASE i < MAX_HARTS /\ msip[i] = 1 /\ i' = i + 1 /\ pc' = pc
  <2>1. pc[0] = "collect" /\ msip' = msip /\ initialised' = initialised
    BY DEF Collect
  <2>2. i \in Other
    <3>1. i \in Int /\ i >= 1
      BY <2>1, Harts DEF IInv, TypeOK, Collected
    <3> QED
      BY <1>1, <3>1, Harts DEF Other
  <2>3. pc[i] = "wait"
    BY <1>1, <2>2 DEF IInv, Bits
  <2>4. TypeOK'
    BY <1>1, <2>1, <2>2, Harts DEF IInv, TypeOK, Other
  <2>5. Bits'
    BY <1>1, <2>1 DEF IInv, Bits, Released
  <2>6. Collected'
    <3>1. \A h \in Other : h < i + 1 => h < i \/ h = i
      BY <2>2 DEF Other
    <3>2. i + 1 >= 1
      BY <2>2 DEF Other
    <3> QED
      BY <1>1, <2>1, <2>3, <3>1, <3>2 DEF IInv, Collected
  <2> QED
    BY <1>1, <2>1, <2>4, <2>5, <2>6 DEF IInv, Booted
<1>2. CASE i >= MAX_HARTS /\ i' = 1 /\ pc' = [pc EXCEPT ![0] = "clear"]
  <2>1. pc[0] = "collect" /\ msip' = msip /\ initialised' = initialised
    BY DEF Collect
  <2>2. \A h \in Other : h < i
    BY <1>2, Harts DEF IInv, TypeOK, Other
  <2>3. \A h \in Other : pc[h] = "wait" /\ msip[h] = 1
    BY <2>1, <2>2, Harts DEF IInv, TypeOK, Bits, Released, Collected
  <2>4. TypeOK'
    BY <1>2, <2>1, Harts, HartsAssumption DEF IInv, TypeOK
  <2>5. Bits'
    BY <1>2, <2>1, <2>3, Harts DEF IInv, TypeOK, Bits
  <2>6. Collected'
    BY <1>2, <2>3, Harts DEF IInv, TypeOK, Collected
  <2>7. Booted'
    BY <1>2, <2>1, BootAssumption DEF IInv, TypeOK, Booted
  <2> QED
    BY <2>4, <2>5, <2>6, <2>7 DEF IInv
<1> QED
  BY <1>1, <1>2 DEF Collect

LEMMA ClearIInv ==
  ASSUME IInv, Clear
  PROVE  IInv'
<1>1. CASE i < MAX_HARTS /\ msip' = [msip EXCEPT ![i] = 0] /\ i' = i + 1 /\ pc' = pc
  <2>1. pc[0] = "clear" /\ initialised' = initialised
    BY DEF Clear
  <2>2. i \in Other
    <3>1. i \in Int /\ i >= 1
      BY <2>1, Harts DEF IInv, TypeOK, Collected
    <3> QED
      BY <1>1, <3>1, Harts DEF Other
  <2>3. TypeOK'
    BY <1>1, <2>1, <2>2, Harts DEF IInv, TypeOK, Other
  <2>4. Bits'
    <3> SUFFICES ASSUME NEW h \in Other
                 PROVE  /\ msip'[h] = 1 => pc'[h] = "wait"
                        /\ pc'[h] = "wait" /\ msip'[h] = 0 => Released(h)'
                        /\ pc'[h] = "main" => Released(h)'
      BY DEF Bits
    <3>1. CASE h = i
      BY <1>1, <2>1, <2>2, <3>1, Harts DEF IInv, TypeOK, Released, Other
    <3>2. CASE h # i
      <4>1. msip'[h] = msip[h]
        BY <1>1, <3>2, Harts DEF IInv, TypeOK
      <4>2. h < i => h < i + 1
        BY <2>2, Harts DEF Other
      <4> QED
        BY <1>1, <2>1, <4>1, <4>2 DEF IInv, Bits, Released
    <3> QED
      BY <3>1, <3>2
  <2>5. Collected'
    <3>1. i + 1 >= 1
      BY <2>2 DEF Other
    <3> QED
      BY <1>1, <2>1, <3>1 DEF IInv, Collected
  <2> QED
    BY <1>1, <2>1, <2>3, <2>4, <2>5 DEF IInv, Booted
<1>2. CASE i >= MAX_HARTS /\ pc' = [pc EXCEPT ![0] = "main"] /\ msip' = msip /\ i' = i
  <2>1. pc[0] = "clear" /\ initialised' = initialised
    BY DEF Clear
  <2>2. TypeOK'
    BY <1>2, <2>1, Harts DEF IInv, TypeOK
  <2>3. Bits'
    BY <1>2, <2>1, Harts DEF IInv, TypeOK, Bits, Released
  <2>4. Collected'
    BY <1>2, <2>1, Harts DEF IInv, TypeOK, Collected
  <2>5. Booted'
    BY <1>2, <2>1, BootAssumption DEF IInv, TypeOK, Booted
  <2> QED
    BY <2>2, <2>3, <2>4, <2>5 DEF IInv
<1> QED
  BY <1>1, <1>2 DEF Clear

LEMMA AnnounceIInv ==
  ASSUME IInv, NEW h \in Hart, Announce(h)
  PROVE  IInv'
<1>1. /\ h \in Other /\ pc[h] = "synchronize" /\ pc' = [pc EXCEPT ![h] = "wait"]
      /\ msip' = [msip EXCEPT ![h] = 1] /\ i' = i /\ initialised' = initialised
  BY Harts DEF Announce, Go
<1>2. TypeOK'
  BY <1>1, Harts DEF IInv, TypeOK
<1>3. Booted'
  BY <1>1, BootAssumption DEF IInv, TypeOK, Booted
<1>4. pc'[0] = pc[0]
  BY <1>1, Harts DEF IInv, TypeOK
<1>5. Bits'
  BY <1>1, <1>4, Harts DEF IInv, TypeOK, Bits, Released
<1>6. Collected'
  BY <1>1, <1>4, Harts DEF IInv, TypeOK, Collected
<1> QED
  BY <1>2, <1>3, <1>5, <1>6 DEF IInv

LEMMA LeaveIInv ==
  ASSUME IInv, NEW h \in Hart, Leave(h)
  PROVE  IInv'
<1>1. /\ pc[h] = "wait" /\ msip[h] = 0 /\ pc' = [pc EXCEPT ![h] = "main"]
      /\ msip' = msip /\ i' = i /\ initialised' = initialised
  BY DEF Leave, Go
<1>2. h \in Other /\ Released(h)
  BY <1>1, Harts DEF IInv, TypeOK, Bits
<1>3. pc'[0] = pc[0]
  BY <1>1, <1>2, Harts DEF IInv, TypeOK
<1>4. TypeOK'
  BY <1>1, <1>2, Harts DEF IInv, TypeOK
<1>5. Booted'
  BY <1>1, BootAssumption DEF IInv, TypeOK, Booted
<1>6. Bits'
  BY <1>1, <1>2, <1>3, Harts DEF IInv, TypeOK, Bits, Released
<1>7. Collected'
  BY <1>1, <1>2, <1>3, Harts DEF IInv, TypeOK, Collected, Released
<1> QED
  BY <1>4, <1>5, <1>6, <1>7 DEF IInv

LEMMA NextIInv == IInv /\ [Next]_vars => IInv'
<1> SUFFICES ASSUME IInv, [Next]_vars PROVE IInv'
  OBVIOUS
<1>1. ASSUME NEW h \in Hart, Step(h) PROVE IInv'
  BY <1>1, BootIInv, EnterIInv, CollectIInv, ClearIInv, AnnounceIInv, LeaveIInv DEF Step
<1>2. CASE UNCHANGED vars
  BY <1>2 DEF vars, IInv, TypeOK, Booted, Bits, Collected, Released
<1> QED
  BY <1>1, <1>2 DEF Next

-----------------------------------------------------------------------------

\* The inductive invariant holds throughout.
THEOREM Invariance == Spec => []IInv
<1> QED
  BY InitIInv, NextIInv, PTL DEF Spec

\* Hart 0's loops stay inside the register array (TypeOK), for any number of
\* harts (synchronize_harts.c:46-54).
THEOREM TypeCorrect == Spec => []TypeOK
<1>1. IInv => TypeOK
  BY DEF IInv
<1> QED
  BY Invariance, <1>1, PTL

\* The harts meet (AllArrived, synchronize_harts.c:44-63): if one has gone on,
\* hart 0 has collected all the bits, and a bit is up only while its hart waits.
THEOREM HartsMeet == Spec => []AllArrived
<1>1. IInv => AllArrived
  <2> SUFFICES ASSUME IInv, NEW h \in Hart, pc[h] = "main", NEW g \in Hart
               PROVE  pc[g] \notin {"start", "synchronize"}
    BY DEF AllArrived
  <2>1. pc[0] \in {"clear", "main"}
    BY Harts DEF IInv, Bits, Released
  <2>2. \A x \in Other : pc[x] \in {"wait", "main"}
    BY <2>1 DEF IInv, Collected
  <2> QED
    BY <2>1, <2>2, Harts
<1> QED
  BY Invariance, <1>1, PTL

\* No hart runs user code before memory is initialised (NoneBeforeInitialised,
\* synchronize_harts.c:19-21, crt0.S:49-51), whichever hart boots.
THEOREM InitialisedFirst == Spec => []NoneBeforeInitialised
<1>1. IInv => NoneBeforeInitialised
  <2> SUFFICES ASSUME IInv, NEW h \in Hart, pc[h] = "main"
               PROVE  initialised
    BY DEF NoneBeforeInitialised
  <2>1. pc[0] \in {"clear", "main"}
    BY Harts DEF IInv, Bits, Released
  <2>2. \A x \in Other : pc[x] \in {"wait", "main"}
    BY <2>1 DEF IInv, Collected
  <2>3. pc[BootHart] # "start"
    BY <2>1, <2>2, Harts, BootAssumption
  <2> QED
    BY <2>3 DEF IInv, Booted
<1> QED
  BY Invariance, <1>1, PTL
=============================================================================
