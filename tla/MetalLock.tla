------------------------------ MODULE MetalLock ------------------------------
(***************************************************************************)
(* The test-and-set lock of freedom-metal (metal/lock.h) and harts that    *)
(* use it to guard one shared datum.  The harts' stores go through store   *)
(* buffers: the .rl of the give is what makes the section's stores visible *)
(* before the lock is seen free.                                           *)
(***************************************************************************)
EXTENDS Integers

CONSTANTS
  Hart,          \* the harts that share the lock
  Initialiser,   \* the one that calls metal_lock_init
  MaxBackoff,    \* METAL_LOCK_BACKOFF_CYCLES * METAL_MAX_CORES
  Exponent,      \* METAL_LOCK_BACKOFF_EXPONENT
  Versions       \* the datum counts modulo this

ASSUME InitialiserAssumption == Initialiser \in Hart
ASSUME BackoffAssumption == MaxBackoff \in Nat \ {0} /\ Exponent \in Nat \ {0, 1}
ASSUME VersionsAssumption == Versions \in Nat \ {0, 1}

VARIABLES
  state,     \* lock->_state
  pc,        \* where each hart is
  backoff,   \* metal_lock_take's backoff
  wait,      \* its loop counter i
  datum,     \* the guarded datum, in memory
  buffer,    \* each hart's store to it that is not in memory yet, or Empty
  seen,      \* the value each hart loaded
  latest     \* the datum as the sections, one after the other, leave it

vars == <<state, pc, backoff, wait, datum, buffer, seen, latest>>
section == <<datum, buffer, seen, latest>>

Version == 0 .. Versions - 1
Empty == -1

-----------------------------------------------------------------------------

\* metal_lock_init, before any other hart uses the lock.
metal_lock_init ==
  /\ pc[Initialiser] = "init"
  /\ state' = 0
  /\ pc' = [h \in Hart |-> "idle"]
  /\ UNCHANGED <<backoff, wait, section>>

\* metal_lock_take is called: int backoff = 1.
Call(h) ==
  /\ pc[h] = "idle"
  /\ pc' = [pc EXCEPT ![h] = "swap"]
  /\ backoff' = [backoff EXCEPT ![h] = 1]
  /\ UNCHANGED <<state, wait, section>>

\* Slip: the word is read first and written afterwards.
Swap_in_two(h) ==
  /\ \/ pc[h] = "swap" /\ pc' = [pc EXCEPT ![h] = IF state = 0 THEN "spin" ELSE "swap"]
                       /\ UNCHANGED state
     \/ pc[h] = "spin" /\ pc' = [pc EXCEPT ![h] = "section"] /\ state' = 1
  /\ UNCHANGED <<backoff, wait, section>>

\* amoswap.w.aq: the lock was free, or the hart backs off.
Swap(h) ==
  /\ pc[h] = "swap"
  /\ state' = 1
  /\ pc' = [pc EXCEPT ![h] = IF state = 0 THEN "section" ELSE "spin"]
  /\ wait' = [wait EXCEPT ![h] = 0]
  /\ UNCHANGED <<backoff, section>>

\* for (i = 0; i < backoff; i++); then the back-off grows while below its maximum.
Backoff(h) ==
  /\ pc[h] = "spin"
  /\ \/ /\ wait[h] < backoff[h]
        /\ wait' = [wait EXCEPT ![h] = @ + 1]
        /\ UNCHANGED <<pc, backoff>>
     \/ /\ wait[h] >= backoff[h]
        /\ pc' = [pc EXCEPT ![h] = "swap"]
        /\ backoff' = [backoff EXCEPT ![h] = IF @ < MaxBackoff THEN @ * Exponent ELSE @]
        /\ UNCHANGED wait
  /\ UNCHANGED <<state, section>>

\* The caller's section: load the datum (no earlier than the .aq swap)...
Load(h) ==
  /\ pc[h] = "section"
  /\ seen' = [seen EXCEPT ![h] = datum]
  /\ pc' = [pc EXCEPT ![h] = "loaded"]
  /\ UNCHANGED <<state, backoff, wait, datum, buffer, latest>>

\* ...and store its successor, into the hart's store buffer.
Store(h) ==
  /\ pc[h] = "loaded"
  /\ buffer' = [buffer EXCEPT ![h] = (seen[h] + 1) % Versions]
  /\ latest' = (latest + 1) % Versions
  /\ pc' = [pc EXCEPT ![h] = "give"]
  /\ UNCHANGED <<state, backoff, wait, datum, seen>>

\* The buffered store reaches memory, whenever it likes.
Drain(h) ==
  /\ buffer[h] # Empty
  /\ datum' = buffer[h]
  /\ buffer' = [buffer EXCEPT ![h] = Empty]
  /\ UNCHANGED <<state, pc, backoff, wait, seen, latest>>

\* Slip: amoswap.w without .rl.
Give_relaxed(h) ==
  /\ pc[h] = "give"
  /\ state' = 0
  /\ pc' = [pc EXCEPT ![h] = "idle"]
  /\ UNCHANGED <<backoff, wait, section>>

\* Slip: metal_lock_give forgets the word.
Give_nothing(h) ==
  /\ pc[h] = "give" /\ buffer[h] = Empty
  /\ pc' = [pc EXCEPT ![h] = "idle"]
  /\ UNCHANGED <<state, backoff, wait, section>>

\* metal_lock_give: amoswap.w.rl, after the section's stores.
metal_lock_give(h) ==
  /\ pc[h] = "give"
  /\ buffer[h] = Empty
  /\ state' = 0
  /\ pc' = [pc EXCEPT ![h] = "idle"]
  /\ UNCHANGED <<backoff, wait, section>>

-----------------------------------------------------------------------------

\* The word is whatever memory held.
Init ==
  /\ state \in {0, 1}
  /\ pc = [h \in Hart |-> "init"]
  /\ backoff = [h \in Hart |-> 1] /\ wait = [h \in Hart |-> 0]
  /\ datum = 0 /\ latest = 0
  /\ buffer = [h \in Hart |-> Empty] /\ seen = [h \in Hart |-> 0]

\* A hart that has called runs on.
Run(h) == Swap(h) \/ Backoff(h) \/ Load(h) \/ Store(h) \/ Drain(h) \/ metal_lock_give(h)

Next == metal_lock_init \/ \E h \in Hart : Call(h) \/ Run(h)

\* Harts execute on; nobody has to call.
Spec == Init /\ [][Next]_vars /\ WF_vars(metal_lock_init) /\ \A h \in Hart : WF_vars(Run(h))

-----------------------------------------------------------------------------
(* Properties. *)

Holding(h) == pc[h] \in {"section", "loaded", "give"}

TypeOK ==
  /\ state \in {0, 1}
  /\ pc \in [Hart -> {"init", "idle", "swap", "spin", "section", "loaded", "give"}]
  /\ backoff \in [Hart -> Nat] /\ wait \in [Hart -> Nat]
  /\ datum \in Version /\ latest \in Version
  /\ buffer \in [Hart -> Version \cup {Empty}]
  /\ seen \in [Hart -> Version]

\* No two harts hold the lock, however their swaps interleave (lock.h:87-94).
MutualExclusion == \A g, h \in Hart : Holding(g) /\ Holding(h) => g = h

\* Each section works on what the one before it left, although stores are
\* delayed: none is lost (the .aq and .rl of lock.h:87 and 129).
NoUpdateLost == \A h \in Hart : pc[h] = "loaded" => seen[h] = latest

\* The back-off of a hart that keeps losing stays below its maximum times the
\* exponent, so a waiting hart looks again after a bounded time (lock.h:96-102).
BackoffBounded ==
  \A h \in Hart : backoff[h] < Exponent * MaxBackoff /\ (pc[h] = "spin" => wait[h] <= backoff[h])

\* Test-and-set promises no hart its turn, but while one wants the lock some
\* hart gets it: the word never stays set without a holder (lock.h:86-103).
SomeoneProgresses ==
  (\E h \in Hart : pc[h] \in {"swap", "spin"}) ~> (\E h \in Hart : pc[h] = "section")
=============================================================================
