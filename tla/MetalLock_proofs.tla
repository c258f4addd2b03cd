-------------------------- MODULE MetalLock_proofs --------------------------
(***************************************************************************)
(* For every set of harts and every back-off: the lock excludes, and loses *)
(* no update of the datum it guards.                                       *)
(***************************************************************************)
EXTENDS MetalLock, TLAPS

\* Before the initialisation no hart is past it.
Uninitialised == pc[Initialiser] = "init" => \A h \in Hart : pc[h] = "init"

\* The word is set while a hart holds the lock.
WordSet == \A h \in Hart : Holding(h) => state = 1

\* Only the holder's last store can still be on its way, and it is the latest.
OwnStore == \A h \in Hart : buffer[h] # Empty => pc[h] = "give" /\ buffer[h] = latest

\* With nothing on its way, memory holds the latest value.
InMemory == (\A h \in Hart : buffer[h] = Empty) => datum = latest

LockInv == Uninitialised /\ WordSet /\ MutualExclusion /\ OwnStore /\ InMemory /\ NoUpdateLost

-----------------------------------------------------------------------------

LEMMA Growth ==
  ASSUME NEW a \in Nat, a < MaxBackoff
  PROVE  a * Exponent \in Nat /\ a * Exponent < Exponent * MaxBackoff
  BY BackoffAssumption, SMT

LEMMA Room == Exponent * MaxBackoff \in Nat /\ 1 < Exponent * MaxBackoff
<1>1. PICK k \in Nat : MaxBackoff = k + 1
  <2>1. MaxBackoff - 1 \in Nat /\ MaxBackoff = (MaxBackoff - 1) + 1
    BY BackoffAssumption
  <2> QED BY <2>1
<1>2. Exponent * k \in Nat
  BY BackoffAssumption
<1>3. Exponent * MaxBackoff = Exponent * k + Exponent
  BY <1>1, BackoffAssumption, SMT
<1> QED BY <1>2, <1>3, BackoffAssumption, SMT

LEMMA VersionStep ==
  ASSUME NEW v \in Version
  PROVE  (v + 1) % Versions \in Version
  BY VersionsAssumption DEF Version

\* Variables keep their types (metal/lock.h), for any harts and any back-off.
THEOREM TypeCorrect == Spec => []TypeOK
<1>1. Init => TypeOK
  BY VersionsAssumption DEF Init, TypeOK, Version, Empty
<1>2. TypeOK /\ [Next]_vars => TypeOK'
  <2> SUFFICES ASSUME TypeOK, [Next]_vars PROVE TypeOK'
    OBVIOUS
  <2> USE DEF TypeOK, section
  <2>1. CASE metal_lock_init
    BY <2>1 DEF metal_lock_init
  <2>2. ASSUME NEW h \in Hart, Call(h) PROVE TypeOK'
    BY <2>2 DEF Call
  <2>3. ASSUME NEW h \in Hart, Swap(h) PROVE TypeOK'
    BY <2>3 DEF Swap
  <2>4. ASSUME NEW h \in Hart, Backoff(h) PROVE TypeOK'
    <3>1. backoff[h] < MaxBackoff => backoff[h] * Exponent \in Nat
      BY Growth
    <3>2. backoff' \in [Hart -> Nat]
      BY <2>4, <3>1 DEF Backoff
    <3> QED BY <2>4, <3>2 DEF Backoff
  <2>5. ASSUME NEW h \in Hart, Load(h) PROVE TypeOK'
    BY <2>5 DEF Load
  <2>6. ASSUME NEW h \in Hart, Store(h) PROVE TypeOK'
    <3>1. (seen[h] + 1) % Versions \in Version /\ (latest + 1) % Versions \in Version
      BY VersionStep
    <3> QED BY <2>6, <3>1 DEF Store
  <2>7. ASSUME NEW h \in Hart, Drain(h) PROVE TypeOK'
    BY <2>7 DEF Drain
  <2>8. ASSUME NEW h \in Hart, metal_lock_give(h) PROVE TypeOK'
    BY <2>8 DEF metal_lock_give
  <2>9. CASE UNCHANGED vars
    BY <2>9 DEF vars
  <2> QED BY <2>1, <2>2, <2>3, <2>4, <2>5, <2>6, <2>7, <2>8, <2>9 DEF Next, Run
<1> QED BY <1>1, <1>2, PTL DEF Spec

\* The back-off of a losing hart is bounded (lock.h:96-102), for every maximum.
THEOREM BackoffCorrect == Spec => []BackoffBounded
<1>1. Init => BackoffBounded
  BY Room DEF Init, BackoffBounded
<1>2. TypeOK /\ BackoffBounded /\ [Next]_vars => BackoffBounded'
  <2> SUFFICES ASSUME TypeOK, BackoffBounded, [Next]_vars PROVE BackoffBounded'
    OBVIOUS
  <2>0. Exponent * MaxBackoff \in Nat /\ 1 < Exponent * MaxBackoff
    BY Room
  <2> USE DEF TypeOK, BackoffBounded, section
  <2>1. CASE metal_lock_init
    BY <2>1 DEF metal_lock_init
  <2>2. ASSUME NEW h \in Hart, Call(h) PROVE BackoffBounded'
    BY <2>2, <2>0 DEF Call
  <2>3. ASSUME NEW h \in Hart, Swap(h) PROVE BackoffBounded'
    BY <2>3 DEF Swap
  <2>4. ASSUME NEW h \in Hart, Backoff(h) PROVE BackoffBounded'
    <3>1. backoff[h] < MaxBackoff =>
            backoff[h] * Exponent \in Nat /\ backoff[h] * Exponent < Exponent * MaxBackoff
      BY Growth
    <3>2. CASE wait[h] < backoff[h]
      BY <2>4, <3>2 DEF Backoff
    <3>3. CASE wait[h] >= backoff[h]
      BY <2>4, <2>0, <3>1, <3>3 DEF Backoff
    <3> QED BY <3>2, <3>3
  <2>5. ASSUME NEW h \in Hart, Load(h) \/ Store(h) \/ Drain(h) \/ metal_lock_give(h)
        PROVE BackoffBounded'
    BY <2>5 DEF Load, Store, Drain, metal_lock_give
  <2>9. CASE UNCHANGED vars
    BY <2>9 DEF vars
  <2> QED BY <2>1, <2>2, <2>3, <2>4, <2>5, <2>9 DEF Next, Run
<1> QED BY <1>1, <1>2, TypeCorrect, PTL DEF Spec

-----------------------------------------------------------------------------

LEMMA LockInvInit == Init => LockInv
  BY DEF Init, LockInv, Uninitialised, WordSet, MutualExclusion, OwnStore, InMemory,
         NoUpdateLost, Holding, Empty

LEMMA LockInvNext == TypeOK /\ LockInv /\ [Next]_vars => LockInv'
<1> SUFFICES ASSUME TypeOK, LockInv, [Next]_vars PROVE LockInv'
  OBVIOUS
<1> USE DEF LockInv, Uninitialised, WordSet, MutualExclusion, OwnStore, InMemory,
            NoUpdateLost, Holding, section, TypeOK
<1>1. CASE metal_lock_init
  BY <1>1, InitialiserAssumption DEF metal_lock_init
<1>2. ASSUME NEW h \in Hart, Call(h) PROVE LockInv'
  BY <1>2, InitialiserAssumption DEF Call
\* The word was clear, so nobody held the lock.
<1>3. ASSUME NEW h \in Hart, Swap(h) PROVE LockInv'
  <2>1. CASE state = 0
    <3>1. \A g \in Hart : ~Holding(g)
      BY <2>1
    <3> QED BY <1>3, <2>1, <3>1, InitialiserAssumption DEF Swap
  <2>2. CASE state # 0
    BY <1>3, <2>2, InitialiserAssumption DEF Swap
  <2> QED BY <2>1, <2>2
<1>4. ASSUME NEW h \in Hart, Backoff(h) PROVE LockInv'
  <2>1. pc' \in {pc, [pc EXCEPT ![h] = "swap"]} /\ pc[h] = "spin"
    BY <1>4 DEF Backoff
  <2> QED BY <1>4, <2>1, InitialiserAssumption DEF Backoff
\* No store is on its way when a section loads: memory is up to date.
<1>5. ASSUME NEW h \in Hart, Load(h) PROVE LockInv'
  <2>1. \A g \in Hart : buffer[g] = Empty
    BY <1>5 DEF Load
  <2> QED BY <1>5, <2>1, InitialiserAssumption DEF Load
<1>6. ASSUME NEW h \in Hart, Store(h) PROVE LockInv'
  <2>1. seen[h] = latest /\ \A g \in Hart : buffer[g] = Empty
    BY <1>6 DEF Store
  <2>2. latest' = buffer'[h] /\ latest' # Empty
    BY <1>6, <2>1, VersionStep DEF Store, Version, Empty
  <2>3. \A g \in Hart : g # h => ~Holding(g) /\ pc'[g] = pc[g] /\ buffer'[g] = Empty
    BY <1>6, <2>1 DEF Store
  <2>4. pc'[h] = "give" /\ state' = state
    BY <1>6 DEF Store
  <2>5. OwnStore' /\ InMemory' /\ NoUpdateLost'
    BY <2>2, <2>3, <2>4, <1>6 DEF Store
  <2>6. WordSet' /\ MutualExclusion' /\ Uninitialised'
    BY <1>6, <2>3, <2>4, InitialiserAssumption DEF Store
  <2> QED BY <2>5, <2>6
<1>7. ASSUME NEW h \in Hart, Drain(h) PROVE LockInv'
  <2>1. buffer[h] = latest /\ pc[h] = "give"
    BY <1>7 DEF Drain
  <2> QED BY <1>7, <2>1 DEF Drain
\* The release waits for the giver's store; the others have none.
<1>8. ASSUME NEW h \in Hart, metal_lock_give(h) PROVE LockInv'
  <2>1. \A g \in Hart : buffer[g] = Empty /\ (g # h => ~Holding(g))
    BY <1>8 DEF metal_lock_give
  <2> QED BY <1>8, <2>1, InitialiserAssumption DEF metal_lock_give
<1>9. CASE UNCHANGED vars
  BY <1>9 DEF vars
<1> QED BY <1>1, <1>2, <1>3, <1>4, <1>5, <1>6, <1>7, <1>8, <1>9 DEF Next, Run

LEMMA LockInvAlways == Spec => []LockInv
  BY LockInvInit, LockInvNext, TypeCorrect, PTL DEF Spec

\* No two harts hold the lock (lock.h:87-94), for any set of harts.
THEOREM Exclusion == Spec => []MutualExclusion
<1>1. LockInv => MutualExclusion
  BY DEF LockInv
<1> QED BY <1>1, LockInvAlways, PTL

\* No section's update is lost (lock.h:87, 129), for any set of harts.
THEOREM UpdatesKept == Spec => []NoUpdateLost
<1>1. LockInv => NoUpdateLost
  BY DEF LockInv
<1> QED BY <1>1, LockInvAlways, PTL
=============================================================================
