------------------------------ MODULE HartStart ------------------------------
(***************************************************************************)
(* The start of the harts (freedom-metal): crt0.S lets the boot hart        *)
(* initialise memory and run the constructors while the others skip ahead, *)
(* and __metal_synchronize_harts makes them all meet before any of them    *)
(* goes on.  The meeting is led by hart 0, whichever hart boots.           *)
(***************************************************************************)
EXTENDS Integers

CONSTANTS
  MAX_HARTS,   \* __METAL_DT_MAX_HARTS
  BootHart     \* __metal_boot_hart (0 unless the linker script says otherwise)

Hart  == 0 .. MAX_HARTS - 1
Other == 1 .. MAX_HARTS - 1     \* the harts that hart 0 waits for

ASSUME HartsAssumption == MAX_HARTS \in Nat \ {0}
ASSUME BootAssumption  == BootHart \in Hart

VARIABLES
  pc,           \* where each hart is
  msip,         \* each hart's software interrupt bit, memory mapped
  i,            \* the index of hart 0's loops
  initialised   \* the boot hart has copied .data, zeroed .bss, run constructors

vars == <<pc, msip, i, initialised>>

-----------------------------------------------------------------------------

Go(h, from, to) == pc[h] = from /\ pc' = [pc EXCEPT ![h] = to]

\* crt0.S before the call: everything the boot hart does, or the jump over it.
Boot(h) ==
  /\ Go(h, "start", "synchronize")
  /\ initialised' = (initialised \/ h = BootHart)
  /\ UNCHANGED <<msip, i>>

\* Hart 0 enters its first loop.
Enter ==
  /\ Go(0, "synchronize", "collect")
  /\ i' = 1
  /\ UNCHANGED <<msip, initialised>>

\* Slip: each bit is cleared as soon as it is seen.
Collect_and_clear ==
  /\ pc[0] = "collect"
  /\ \/ /\ i < MAX_HARTS /\ msip[i] = 1
        /\ i' = i + 1 /\ msip' = [msip EXCEPT ![i] = 0]
        /\ UNCHANGED pc
     \/ /\ i >= MAX_HARTS
        /\ i' = 1 /\ pc' = [pc EXCEPT ![0] = "clear"]
        /\ UNCHANGED msip
  /\ UNCHANGED initialised

\* for (i = 1; i < MAX_HARTS; i++) while (METAL_MSIP(i) == 0);
Collect ==
  /\ pc[0] = "collect"
  /\ \/ /\ i < MAX_HARTS /\ msip[i] = 1
        /\ i' = i + 1
        /\ UNCHANGED pc
     \/ /\ i >= MAX_HARTS
        /\ i' = 1 /\ pc' = [pc EXCEPT ![0] = "clear"]
  /\ UNCHANGED <<msip, initialised>>

\* Slip: the last hart is forgotten.
Clear_but_last ==
  /\ pc[0] = "clear"
  /\ \/ /\ i < MAX_HARTS - 1
        /\ msip' = [msip EXCEPT ![i] = 0] /\ i' = i + 1
        /\ UNCHANGED pc
     \/ /\ i >= MAX_HARTS - 1
        /\ pc' = [pc EXCEPT ![0] = "main"]
        /\ UNCHANGED <<msip, i>>
  /\ UNCHANGED initialised

\* for (i = 1; i < MAX_HARTS; i++) METAL_MSIP(i) = 0;
Clear ==
  /\ pc[0] = "clear"
  /\ \/ /\ i < MAX_HARTS
        /\ msip' = [msip EXCEPT ![i] = 0] /\ i' = i + 1
        /\ UNCHANGED pc
     \/ /\ i >= MAX_HARTS
        /\ pc' = [pc EXCEPT ![0] = "main"]
        /\ UNCHANGED <<msip, i>>
  /\ UNCHANGED initialised

\* The others raise their bit...
Announce(h) ==
  /\ h # 0
  /\ Go(h, "synchronize", "wait")
  /\ msip' = [msip EXCEPT ![h] = 1]
  /\ UNCHANGED <<i, initialised>>

\* ...and wait until hart 0 has lowered it.
Leave(h) ==
  /\ msip[h] = 0
  /\ Go(h, "wait", "main")
  /\ UNCHANGED <<msip, i, initialised>>

-----------------------------------------------------------------------------

\* Reset: no software interrupt is pending.
Init ==
  /\ pc = [h \in Hart |-> "start"]
  /\ msip = [h \in Hart |-> 0]
  /\ i = 0 /\ initialised = FALSE

Step(h) ==
  \/ Boot(h)
  \/ h = 0 /\ (Enter \/ Collect \/ Clear)
  \/ Announce(h) \/ Leave(h)

\* Every hart runs its main (the others sleep there).
Started == \A h \in Hart : pc[h] = "main"

Next == (\E h \in Hart : Step(h)) \/ (Started /\ UNCHANGED vars)

\* Each hart executes on.
Spec == Init /\ [][Next]_vars /\ \A h \in Hart : WF_vars(Step(h))
-----------------------------------------------------------------------------
(* Properties. *)

\* Harts are where they can be, bits are bits, and hart 0's loops stay inside
\* the register array (synchronize_harts.c:46-54).
TypeOK ==
  /\ pc \in [Hart -> {"start", "synchronize", "collect", "clear", "wait", "main"}]
  /\ \A h \in Other : pc[h] \notin {"collect", "clear"}
  /\ pc[0] # "wait"
  /\ msip \in [Hart -> {0, 1}]
  /\ i \in 0 .. MAX_HARTS
  /\ initialised \in BOOLEAN

\* No hart runs user code before the boot hart has finished initialising
\* (synchronize_harts.c:19-21), also when the boot hart is not hart 0.
NoneBeforeInitialised == \A h \in Hart : pc[h] = "main" => initialised

\* The harts meet: none goes on while another has not arrived, and none is
\* counted as arrived by a bit it has not raised (synchronize_harts.c:44-63).
AllArrived ==
  \A h \in Hart : pc[h] = "main" => \A g \in Hart : pc[g] \notin {"start", "synchronize"}

\* Every hart gets to its main, in whatever order they come out of reset.
AllStart == <>Started
=============================================================================
