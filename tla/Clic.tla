--------------------------------- MODULE Clic ---------------------------------
(***************************************************************************)
(* The core-local interrupt controller (sifive_clic0.c), the hart's own    *)
(* controller that it registers with (riscv_cpu.c), and the local external *)
(* interrupts that are wired to it.  A control byte holds an interrupt's   *)
(* level, priority and vector bit in places that other registers choose;   *)
(* a handler is found through mtvec, mtvt, two tables and a pointer that   *)
(* clic_init leaves in the software interrupt's entry.                     *)
(***************************************************************************)
EXTENDS Integers, FiniteSets

CONSTANTS
  Cpu,        \* its lines to the hart: the software interrupt and others
  Local,      \* ids of the local external interrupts
  IntBits,    \* __metal_driver_sifive_clic0_num_intbits
  MaxLevels,  \* __metal_driver_sifive_clic0_max_levels
  Users       \* programs: [handled, null, modes, bytes, levels, thresholds]

SW == 3
Ints == Cpu \cup Local
Bit == 0 .. 7
MaxNlBits == 8     \* METAL_CLIC_MAX_NLBITS

\* The hart's ids are those of the software, timer and external interrupts, which it registers
\* without a handler, too; the local ones come after those; the control bytes have some bits.
IdAssumption ==
  /\ SW \in Cpu /\ Cpu \subseteq {SW, 7, 11} /\ Cpu \cap Local = {} /\ 0 \notin Local
  /\ IntBits \in 1 .. 8 /\ MaxLevels \in Nat
BytesAssumption ==
  \A p \in Users : p.levels \subseteq SUBSET Bit /\ p.thresholds \subseteq 0 .. 8
NullAssumption == \A p \in Users : p.null \in {"clic", "program"}

VARIABLES
  user,      \* the program that runs: the ids that it handles, the data that it passes with NULL
             \* for a handler (the CLIC or its own), the modes that it sets, the ids whose control
             \* bytes it writes, the bytes, as sets of bits, that it sets there, and the nlbits
  ready,     \* the drivers that are initialised: "cpu", "clic", "local"
  nmbits, nlbits, nvbit,   \* CLICCFG
  ctl,       \* CLICINTCTL, as sets of bits
  enabled, pending,        \* CLICINTIE and CLICINTIP
  mtvec,     \* "direct", "clic" or "vectored"
  handler,   \* metal_int_table and metal_exint_table: [is, priv]
  sub_int,   \* their other pointer: "null", "clic", "local" or "program"
  mtvt,      \* metal_mtvt_table
  levelled,  \* the level that was set last, until its bits are moved or shared
  given,     \* the mode in which the program registered its handler last, or "none"
  ran        \* what the last interrupt came to: [id, is]

clicVars == <<user, ready, nmbits, nlbits, nvbit, ctl, enabled, pending, mtvec, handler,
              sub_int, mtvt, levelled, given, ran>>
tables == <<handler, sub_int, mtvt, given>>
config == <<nmbits, nlbits, nvbit, mtvec>>

NoLevel == {-1}

ClicInit ==
  /\ user \in Users
  /\ ready = {} /\ mtvec = "direct" /\ nmbits = 0 /\ nlbits = 0 /\ nvbit = 0
  /\ ctl = [i \in Ints |-> 0 .. 7 - IntBits] /\ enabled = {} /\ pending = {}
  /\ handler = [i \in Ints |-> "null"] /\ sub_int = [i \in Ints |-> "null"]
  /\ mtvt = [i \in {0} \cup Ints |-> "null"]
  /\ levelled = [i \in Ints |-> NoLevel]
  /\ given = [i \in Ints |-> "none"] /\ ran = [id |-> 0, is |-> "none"]

-----------------------------------------------------------------------------
(* The control byte. *)

Small(a, b) == IF a < b THEN a ELSE b

\* The bits that the controller does not have read as ones.
Stored(bits) == (bits \cap (8 - IntBits .. 7)) \cup (0 .. 7 - IntBits)

LevelMask == {b \in Bit : b >= 8 - (nmbits + nlbits) /\ b < 8 - nmbits}
\* Slip: the mask reaches the lowest bit of the level.
PriorityMask_level == {b \in Bit : b >= 8 - IntBits /\ b <= 8 - (nmbits + nlbits)}
PriorityMask == {b \in Bit : b >= 8 - IntBits /\ b < 8 - (nmbits + nlbits)}
VectorBit == 8 - IntBits

With(byte, mask, bits) == Stored((byte \ mask) \cup (bits \cap mask))

set_level(byte, bits) == With(byte, LevelMask, bits)
set_priority(byte, bits) ==
  IF nmbits + nlbits <= IntBits THEN With(byte, PriorityMask, bits) ELSE byte

LevelBits == Small(IntBits - nmbits, nlbits)
FreeBits == 0 .. 7 - LevelBits

\* The level, aligned to the left, ones below it; 255 when it has no bits.
get_level(i) ==
  IF LevelBits <= 0 THEN Bit
  ELSE {b + nmbits : b \in {b \in ctl[i] : b >= 8 - (nmbits + LevelBits) /\ b < 8 - nmbits}}
         \cup FreeBits

is_vectored(i) == VectorBit \in ctl[i]

-----------------------------------------------------------------------------
(* Initialisation, by any of the three drivers first. *)

\* __metal_driver_sifive_clic0_register; its two refusals, and the entry it fills.
Mode ==
  IF mtvec # "clic" THEN mtvec ELSE IF nvbit = 1 THEN "selective" ELSE "nonvectored"
Refused(i) ==
  Mode \in {"direct", "vectored"} \/ (Mode = "selective" /\ is_vectored(i))

cpu_init ==
  /\ "cpu" \notin ready /\ ready' = ready \cup {"cpu"}
  /\ handler' = [i \in Ints |-> IF i \in Cpu THEN "null" ELSE handler[i]]
  /\ sub_int' = [i \in Ints |-> IF i \in Cpu THEN "null" ELSE sub_int[i]]
  /\ UNCHANGED <<config, ctl, enabled, pending, mtvt, levelled, given, ran>>

\* The hart's controller first, if it is not; the lines with their default handlers and this
\* pointer; every level is set to 2^nlbits - 1, of which the upper nlbits bits count.
Initialise(link) ==
  /\ "clic" \notin ready /\ ready' = ready \cup {"cpu", "clic"}
  /\ mtvec' = "clic" /\ nmbits' = 0 /\ nlbits' = Small(MaxLevels, MaxNlBits) /\ nvbit' = 0
  /\ handler' = [i \in Ints |-> IF i \in Cpu THEN "default" ELSE "null"]
  /\ sub_int' = [i \in Ints |-> IF i \in Cpu THEN link ELSE "null"]
  /\ mtvt' = [i \in {0} \cup Ints |-> IF i = 0 THEN "clic" ELSE "null"]
  /\ ctl' = [i \in Ints |-> With(ctl[i], LevelMask', 0 .. nlbits' - 1)] /\ enabled' = {}
  /\ given' = [i \in Ints |-> "none"] /\ levelled' = [i \in Ints |-> NoLevel]
  /\ UNCHANGED <<pending, ran>>

\* Slip: the pointer for the common handler is not left in the hart's table.
clic_init_no_link == Initialise("null")
clic_init == Initialise("clic")

\* Its lines are registered with the CLIC, which refuses before its own initialisation;
\* the local controller is initialised all the same.
local_init ==
  /\ "local" \notin ready /\ ready' = ready \cup {"local"}
  /\ LET lines == {i \in Local : ~Refused(i)}
     IN  /\ handler' = [i \in Ints |-> IF i \in lines THEN "default" ELSE handler[i]]
         /\ sub_int' = [i \in Ints |-> IF i \in lines THEN "local" ELSE sub_int[i]]
         /\ given' = [i \in Ints |-> IF i \in lines THEN "none" ELSE given[i]]
  /\ UNCHANGED <<config, ctl, enabled, pending, mtvt, levelled, ran>>

-----------------------------------------------------------------------------
(* Calls of the program. *)

Up == "clic" \in ready

\* A handler, or NULL for the default one: NULL stores the handler's data in sub_int.  The
\* hart's own ids go on to its table: NULL for the software interrupt replaces the pointer
\* that leads every local interrupt to its handler.
register(i) ==
  /\ ~Refused(i)
  /\ \/ /\ handler' = [handler EXCEPT ![i] = "program"]
        /\ given' = [given EXCEPT ![i] = "table"]
        /\ UNCHANGED sub_int
     \/ /\ handler' = [handler EXCEPT ![i] = "default"]
        /\ sub_int' = [sub_int EXCEPT ![i] = user.null]
        /\ given' = [given EXCEPT ![i] = "none"]
  /\ UNCHANGED <<ready, config, ctl, enabled, pending, mtvt, levelled, ran>>

\* Of any id; the data go to the CLIC's own entries, so that the hart's keep theirs.
vector_register(i) ==
  /\ Mode \in {"selective", "vectored"} /\ (Mode = "selective" => is_vectored(i))
  /\ \/ /\ mtvt' = [mtvt EXCEPT ![i] = "program"]
        /\ given' = [given EXCEPT ![i] = "vector"]
        /\ UNCHANGED sub_int
     \/ /\ mtvt' = [mtvt EXCEPT ![i] = "default"]
        /\ sub_int' = [sub_int EXCEPT ![i] = IF i \in Local THEN user.null ELSE @]
        /\ given' = [given EXCEPT ![i] = "none"]
  /\ UNCHANGED <<ready, config, ctl, enabled, pending, handler, levelled, ran>>

Switch(i, on) ==
  /\ enabled' = IF on THEN enabled \cup {i} ELSE enabled \ {i}
  /\ UNCHANGED <<ready, config, ctl, pending, tables, levelled, ran>>

set_interrupt(i, on) ==
  /\ pending' = IF on THEN pending \cup {i} ELSE pending \ {i}
  /\ UNCHANGED <<ready, config, ctl, enabled, tables, levelled, ran>>

\* The program's handlers belong to the mode that it registers them in.
set_vector_mode(m) ==
  /\ mtvec' = IF m = "vectored" THEN "vectored" ELSE "clic"
  /\ nvbit' = IF m = "nonvectored" THEN 0 ELSE 1
  /\ given' = [i \in Ints |-> "none"]
  /\ UNCHANGED <<ready, nmbits, nlbits, ctl, enabled, pending, handler, sub_int, mtvt, levelled,
                 ran>>

\* Enabling is refused outside the vectored modes, disabling never.
set_vector(i, on) ==
  /\ on => Mode \in {"selective", "vectored"}
  /\ ctl' = [ctl EXCEPT ![i] = Stored(IF on THEN @ \cup {VectorBit} ELSE @ \ {VectorBit})]
  /\ given' = [given EXCEPT ![i] = "none"] /\ levelled' = [levelled EXCEPT ![i] = NoLevel]
  /\ UNCHANGED <<ready, config, enabled, pending, handler, sub_int, mtvt, ran>>

set_threshold(nl) ==
  /\ nlbits' = nl /\ levelled' = [i \in Ints |-> NoLevel]
  /\ UNCHANGED <<ready, nmbits, nvbit, mtvec, ctl, enabled, pending, tables, ran>>

set_priority_of(i, bits) ==
  /\ ctl' = [ctl EXCEPT ![i] = set_priority(@, bits)]
  /\ UNCHANGED <<ready, config, enabled, pending, tables, levelled, ran>>

\* The level, and the same byte again as the priority.
set_preemptive_level(i, bits) ==
  /\ ctl' = [ctl EXCEPT ![i] = set_priority(set_level(@, bits), bits)]
  /\ levelled' = [levelled EXCEPT ![i] = bits]
  /\ UNCHANGED <<ready, config, enabled, pending, tables, ran>>

-----------------------------------------------------------------------------
(* An interrupt is taken. *)

Jumps(i) == mtvec = "vectored" \/ (mtvec = "clic" /\ nvbit = 1 /\ is_vectored(i))

\* Slip: the hart's own handlers are looked for in the controller's table too.
exception_handler_one_table(i) ==
  IF mtvt[0] # "clic" \/ sub_int[SW] # "clic" THEN "wild" ELSE
  IF i \in Cpu THEN "none" ELSE IF handler[i] = "null" THEN "none" ELSE handler[i]

\* The hart's own interrupts are called from its table, the others through mtvt's first
\* entry with the pointer in the software interrupt's; a local one without a handler is
\* left alone.
exception_handler(i) ==
  IF i \in Cpu THEN (IF handler[i] = "null" THEN "wild" ELSE handler[i])
  ELSE IF mtvt[0] # "clic" \/ sub_int[SW] # "clic" THEN "wild"
  ELSE IF handler[i] = "null" THEN "none" ELSE handler[i]

Dispatch(i) ==
  /\ Up /\ i \in enabled \cap pending
  /\ ran' = [id |-> i, is |-> IF ~Jumps(i) THEN exception_handler(i)
                              ELSE IF mtvt[i] = "null" THEN "wild" ELSE mtvt[i]]
  /\ pending' = pending \ {i}
  /\ UNCHANGED <<ready, config, ctl, enabled, tables, levelled>>

Calls(i) ==
  \/ i \in user.handled /\ register(i)
  \/ i \in user.handled /\ vector_register(i)
  \/ i \in user.handled /\ \E on \in BOOLEAN : Switch(i, on) \/ set_interrupt(i, on)
  \/ i \in user.bytes /\ \E on \in BOOLEAN : set_vector(i, on)
  \/ i \in user.bytes /\ \E bits \in user.levels :
       set_priority_of(i, bits) \/ set_preemptive_level(i, bits)

ClicNext ==
  /\ UNCHANGED user
  /\ \/ cpu_init \/ clic_init \/ local_init
     \/ Up /\ \E i \in Ints : Calls(i) \/ Dispatch(i)
     \/ Up /\ \E m \in user.modes : set_vector_mode(m)
     \/ Up /\ \E nl \in user.thresholds : set_threshold(nl)

ClicSpec == ClicInit /\ [][ClicNext]_clicVars

-----------------------------------------------------------------------------
(* Properties. *)

\* A program that leaves the software interrupt's pointer alone: it registers a handler for
\* that interrupt, or NULL with the CLIC itself, if it registers anything.
KeepsLink == SW \in user.handled => user.null = "clic"

\* Whatever modes and tables the calls have left behind, an interrupt comes to the handler that
\* the program registered for the way it is taken now: one of the hart's or a vectored one for
\* every program, the other local ones for those that leave the pointer there
\* (sifive_clic0.c:448-455, riscv_cpu.c:186-205, 510-513).
HandlerRuns ==
  [][ran' # ran =>
       LET i == ran'.id
       IN  given[i] = (IF Jumps(i) THEN "vector" ELSE "table")
             => (KeepsLink \/ i \in Cpu \/ Jumps(i) => ran'.is = "program")]_clicVars

\* A level is read back as it was set, cut to its bits and ones below, whatever was set
\* since of priorities and modes (sifive_clic0.c:85-172).
LevelsKept ==
  \A i \in Ints : levelled[i] # NoLevel =>
    get_level(i) =
      IF LevelBits <= 0 THEN Bit ELSE (levelled[i] \cap (8 - LevelBits .. 7)) \cup FreeBits
===============================================================================
