------------------------------- MODULE ApHal --------------------------------
(***************************************************************************)
(* The hardware abstraction layer of the associative processor             *)
(* (src/ap_hal.c) against the device it drives.                            *)
(*                                                                         *)
(* A HAL function is the sequence of its bus accesses, in program order    *)
(* (every one is volatile): `todo' holds the accesses the current call has *)
(* still to make.  The processor performs them one at a time; the engine,  *)
(* once triggered, computes rows and raises its interrupt flag in between. *)
(* The processor is a single hart with interrupts unused, so calls do not  *)
(* overlap: all the concurrency is between the processor and the engine.   *)
(***************************************************************************)
EXTENDS ApMemory

CONSTANTS
  Callable,      \* names of the functions the client calls
  Commands,      \* commands it passes
  Columns,       \* internal_col values it passes (APInternalCollunm)
  Selectors,     \* internal_col_bits it passes, one bit per CAM
  Vectors,       \* vectors it passes (sequences of bytes)
  MaxCalls,      \* bound: calls made after warmup_ap
  MAX_RESULTS,   \* capacity of record.results (10 in util.h)
  InitMemories   \* contents the columns may power up with

ASSUME CommandsAssumption == Commands \subseteq APOperations
ASSUME ColumnsAssumption  == Columns \subseteq {LEFT, RIGHT} /\ Selectors \subseteq InternalCol
ASSUME VectorsAssumption  == Vectors \subseteq Seq(Byte)
ASSUME BoundsAssumption   == MaxCalls \in Nat /\ MAX_RESULTS \in Nat
ASSUME InitAssumption     == InitMemories \subseteq Memory

VARIABLES
  control, mode,   \* *AP_CONTROL and *AP_MODE
  irq,             \* *AP_IRQ
  busy, left,      \* is the engine computing, and the rows it has not done
  cam,             \* the six columns
  todo,            \* bus accesses the current call has still to make
  call,            \* the call in progress, or the last one
  buf,             \* the bytes the call has read for its caller
  suspect,         \* a bounded poll gave up and no engine reset followed (history)
  results_size,    \* record.results_size
  old,             \* cam, call, buf and suspect when the call began (history)
  calls            \* calls made, for the bound

device == <<control, mode, irq, busy, left, cam>>
cpu    == <<todo, call, buf, suspect, results_size, old, calls>>
vars   == <<device, cpu>>

-----------------------------------------------------------------------------
(* Bus accesses. *)

Control(if_state, target, trigger, rst) ==
  [kind |-> "control", control |-> set_control_reg(if_state, target, trigger, rst)]
Mode(internal_col, col, direction, cmd) ==
  [kind |-> "mode", mode |-> set_mode_reg(internal_col, col, direction, cmd)]
Store(a, v) == [kind |-> "store", addr |-> a, value |-> v]
Load(a)     == [kind |-> "load", addr |-> a]
Copy(to, a) == [kind |-> "copy", addr |-> a, to |-> to]
Wait        == [kind |-> "wait"]                \* while (ap_irq_check() == 0) {}
Poll(loops) == [kind |-> "poll", loops |-> loops]
EndCycles   == [kind |-> "end_cycles"]

Release  == [kind |-> "control", control |-> Released]
ZeroMode == [kind |-> "mode", mode |-> ModeZero]

Access ==
  [kind : {"control"}, control : ControlReg] \cup [kind : {"mode"}, mode : ModeReg]
  \cup [kind : {"store"}, addr : Nat, value : Byte] \cup [kind : {"load"}, addr : Nat]
  \cup [kind : {"copy"}, addr : Nat, to : Nat]
  \cup [kind : {"poll"}, loops : Nat] \cup [kind : {"wait", "end_cycles"}]

StoreVector(base, V) == [i \in 1 .. Len(V) |-> Store(base + i - 1, V[i])]
LoadVector(base, n)  == [i \in 1 .. n |-> Load(base + i - 1)]

\* Lock the interface, select, trigger: how a computing function starts the engine.
\* Slip: the trigger write drops the lock bit.
Trigger_unlocked(target, m) ==
  << Control(STATIC, target, FALSE, {}), m, Control(DYNAMIC, target, TRUE, {}) >>

Trigger(target, m) ==
  << Control(STATIC, target, FALSE, {}), m, Control(STATIC, target, TRUE, {}) >>

-----------------------------------------------------------------------------
(* The functions of ap_hal.c: what each puts on the bus.  A definition marked
   "Slip" is the one after it with a plausible mistake; nothing uses it. *)

Begin(c, s) ==
  /\ todo = << >>
  /\ c.fn \in Callable
  /\ calls < MaxCalls
  /\ calls' = calls + 1
  /\ call' = c
  /\ todo' = s
  /\ buf' = << >>
  /\ old' = [cam |-> cam, call |-> call, buf |-> buf, suspect |-> suspect]
  /\ suspect' = (suspect /\ c.fn \notin {"warmup_ap", "reset_ap_engine"})
  /\ UNCHANGED <<device, results_size>>

\* Slip: only the left columns are flushed.
Warmup_left_only ==
  << Release, ZeroMode,
     Control(STATIC, TARGET_C, FALSE, {}),
     Control(STATIC, TARGET_C, FALSE, {0, 1, 2}), Control(STATIC, TARGET_C, FALSE, {}),
     Control(STATIC, TARGET_C, FALSE, {3}), Control(STATIC, TARGET_C, FALSE, {}),
     Release, ZeroMode >>

Warmup ==
  << Release, ZeroMode,
     Control(STATIC, TARGET_C, FALSE, {}),
     Control(STATIC, TARGET_C, FALSE, {0, 1, 2}), Control(STATIC, TARGET_C, FALSE, {}),
     Control(STATIC, TARGET_C, FALSE, {3}), Control(STATIC, TARGET_C, FALSE, {}),
     Mode(RIGHT, CAM_A, HORIZONTAL, OR),
     Control(STATIC, TARGET_C, FALSE, {0, 1, 2}), Control(STATIC, TARGET_C, FALSE, {}),
     Release, ZeroMode >>

warmup_ap == Begin([fn |-> "warmup_ap"], Warmup)

\* Slip: the registers are cleared, the engine is not reset.
reset_ap_engine_registers_only ==
  Begin([fn |-> "reset_ap_engine"], << Control(STATIC, TARGET_C, FALSE, {}), Release, ZeroMode >>)

reset_ap_engine ==
  Begin([fn |-> "reset_ap_engine"],
        << Control(STATIC, TARGET_C, FALSE, {3}), Control(STATIC, TARGET_C, FALSE, {}),
           Release, ZeroMode >>)

ap_write_vector(col, internal_col, V) ==
  Begin([fn |-> "ap_write_vector", col |-> col, internal_col |-> internal_col, V |-> V],
        IF Len(V) > AP_COL_SIZE THEN << >>
        ELSE StoreVector(VectorBase(col, internal_col), V))

ap_read_vector(col, internal_col, size) ==
  Begin([fn |-> "ap_read_vector", col |-> col, internal_col |-> internal_col, size |-> size],
        IF size > AP_COL_SIZE THEN << >>
        ELSE LoadVector(VectorBase(col, internal_col), size))

\* ap_memcpy into a column, out of a column, and from one column to another.
ap_memcpy_in(to, V) ==
  /\ to + Len(V) - 1 \in CamAddr
  /\ Begin([fn |-> "ap_memcpy_in", to |-> to, V |-> V], StoreVector(to, V))

ap_memcpy_out(from, bytes) ==
  Begin([fn |-> "ap_memcpy_out", from |-> from, bytes |-> bytes], LoadVector(from, bytes))

ap_memcpy(to, from, bytes) ==
  /\ to # from
  /\ Begin([fn |-> "ap_memcpy", to |-> to, from |-> from, bytes |-> bytes],
           [i \in 1 .. bytes |-> Copy(to + i - 1, from + i - 1)])

\* Slip: the interface is released at once; the interrupt is not awaited.
ap_trigger_computing_no_wait(op, direction, internal_col) ==
  Begin([fn |-> "ap_trigger_computing_w_wait", op |-> op, direction |-> direction,
         internal_col |-> internal_col],
        Trigger(TARGET_C, Mode(internal_col, CAM_A, direction, op)) \o << Release >>)

\* Slip: the interface stays locked and the flag up.
ap_trigger_computing_no_release(op, direction, internal_col) ==
  Begin([fn |-> "ap_trigger_computing_w_wait", op |-> op, direction |-> direction,
         internal_col |-> internal_col],
        Trigger(TARGET_C, Mode(internal_col, CAM_A, direction, op)) \o << Wait >>)

ap_trigger_computing_w_wait(op, direction, internal_col) ==
  Begin([fn |-> "ap_trigger_computing_w_wait", op |-> op, direction |-> direction,
         internal_col |-> internal_col],
        Trigger(TARGET_C, Mode(internal_col, CAM_A, direction, op))
          \o << Wait, Release >>)

\* Slip: the last control write selects the target without the trigger bit.
ap_target_a_untriggered(op, direction, bits) ==
  Begin([fn |-> "ap_trigger_computing_w_wait_target_a", op |-> op, direction |-> direction,
         internal_col |-> bits],
        << Control(STATIC, TARGET_C, FALSE, {}), Mode(bits, CAM_A, direction, op),
           Control(STATIC, TARGET_A, FALSE, {}), Wait, Release >>)

ap_trigger_computing_w_wait_target_a(op, direction, bits) ==
  Begin([fn |-> "ap_trigger_computing_w_wait_target_a", op |-> op, direction |-> direction,
         internal_col |-> bits],
        << Control(STATIC, TARGET_C, FALSE, {}), Mode(bits, CAM_A, direction, op),
           Control(STATIC, TARGET_A, TRUE, {}), Wait, Release >>)

\* One flush: lock, select the internal column, pulse the CAM's reset bit, unlock.
Flush(cam_bit, internal_col) ==
  << Control(STATIC, TARGET_C, FALSE, {}), Mode(internal_col, CAM_A, HORIZONTAL, OR),
     Control(STATIC, TARGET_C, FALSE, {cam_bit}), Release, ZeroMode >>

ap_flush_a_1 == Begin([fn |-> "ap_flush_a_1"], Flush(CAM_A, RIGHT))
ap_flush_b_0 == Begin([fn |-> "ap_flush_b_0"], Flush(CAM_B, LEFT))
ap_flush_b_1 == Begin([fn |-> "ap_flush_b_1"], Flush(CAM_B, RIGHT))
ap_flush_c_1 == Begin([fn |-> "ap_flush_c_1"], Flush(CAM_C, RIGHT))

\* The one flush that selects before it locks, and leaves the mode alone after.
\* Slip: the selection of the last command stays in force.
ap_flush_c_0_unselected ==
  Begin([fn |-> "ap_flush_c_0"],
        << Control(STATIC, TARGET_C, FALSE, {}),
           Control(STATIC, TARGET_C, FALSE, {CAM_C}), Release >>)

ap_flush_c_0 ==
  Begin([fn |-> "ap_flush_c_0"],
        << ZeroMode, Control(STATIC, TARGET_C, FALSE, {}),
           Control(STATIC, TARGET_C, FALSE, {CAM_C}), Release >>)

ap_flush_col(col, internal_col) ==
  Begin([fn |-> "ap_flush_col", col |-> col, internal_col |-> internal_col],
        << Control(STATIC, TARGET_C, FALSE, {}), Mode(internal_col, col, HORIZONTAL, OR),
           Control(STATIC, TARGET_C, FALSE, {col}), Control(STATIC, TARGET_C, FALSE, {}),
           Release >>)

\* ap_computing returns with the engine running; its one caller waits and releases.
ap_computing(op, internal_col, direction, A, B) ==
  StoreVector(VectorBase(CAM_A, internal_col), A)
    \o StoreVector(VectorBase(CAM_B, internal_col), B)
    \o Trigger(TARGET_C, Mode(internal_col, CAM_A, direction, op))

ap_computing_horizontal_test(op, internal_col, A, B) ==
  /\ Len(A) = AP_COL_SIZE /\ Len(B) = AP_COL_SIZE
  /\ Begin([fn |-> "ap_computing_horizontal_test", op |-> op, A |-> A, B |-> B,
            internal_col |-> internal_col],
           ap_computing(op, internal_col, HORIZONTAL, A, B)
             \o << Wait, EndCycles, Release >>
             \o LoadVector(CamBase(CAM_C, 0), AP_COL_SIZE))

\* The bounded poll decides what follows, so it is an access of its own (CpuPoll).
ap_trigger_computing(op, col, internal_col, direction, target) ==
  Begin([fn |-> "ap_trigger_computing", op |-> op, direction |-> direction,
         internal_col |-> internal_col, target |-> target],
        Trigger(target, Mode(internal_col, col, direction, op)) \o << Poll(5) >>)

op_target_setup(V) ==
  /\ Len(V) = AP_COL_SIZE
  /\ Begin([fn |-> "op_target_setup", V |-> V],
           StoreVector(CamBase(CAM_B, 1), V) \o StoreVector(CamBase(CAM_C, 1), V)
             \o Trigger(TARGET_A, Mode(1, CAM_A, HORIZONTAL, ADD)) \o << Poll(3) >>)

release_ap_if == Begin([fn |-> "release_ap_if"], << Release >>)

\* Slip: SET is given to CAM A whatever the column.
ap_set_value_cam_a(col, internal_col, value) ==
  Begin([fn |-> "ap_set_value", col |-> col, internal_col |-> internal_col, value |-> value],
        << Store(VectorBase(col, internal_col), value) >>
          \o Trigger(TARGET_C, Mode(internal_col, CAM_A, HORIZONTAL, SET))
          \o << Wait, EndCycles, Release >>)

ap_set_value(col, internal_col, value) ==
  Begin([fn |-> "ap_set_value", col |-> col, internal_col |-> internal_col, value |-> value],
        << Store(VectorBase(col, internal_col), value) >>
          \o Trigger(TARGET_C, Mode(internal_col, col, HORIZONTAL, SET))
          \o << Wait, EndCycles, Release >>)

ap_set_value_cam_a_left(factor) ==
  Begin([fn |-> "ap_set_value_cam_a_left", value |-> factor],
        << Store(CamBase(CAM_A, 0), factor) >>
          \o Trigger(TARGET_C, Mode(LEFT, CAM_A, HORIZONTAL, SET)) \o << Wait, Release >>)

\* The interface stays locked and the interrupt flag up when ap_search returns.
\* Slip: the search is not awaited.
ap_search_no_wait(key, internal_col, target) ==
  Begin([fn |-> "ap_search", value |-> key, internal_col |-> internal_col, target |-> target],
        << Store(CamBase(CAM_B, IF internal_col = 1 THEN 1 ELSE 0), key) >>
          \o Trigger(target, Mode(internal_col, CAM_A, HORIZONTAL, SEARCH)) \o << EndCycles >>)

ap_search(key, internal_col, target) ==
  Begin([fn |-> "ap_search", value |-> key, internal_col |-> internal_col, target |-> target],
        << Store(CamBase(CAM_B, IF internal_col = 1 THEN 1 ELSE 0), key) >>
          \o Trigger(target, Mode(internal_col, CAM_A, HORIZONTAL, SEARCH))
          \o << Wait, EndCycles >>)

\* The vertical functions write 0x10000 to lock: the op_target bit, not ap_if_state.
VerticalTrigger(op, col, internal_col) ==
  << Control(DYNAMIC, TARGET_A, FALSE, {}), Mode(internal_col, col, VERTICAL, op),
     Control(DYNAMIC, TARGET_A, TRUE, {}) >>

ap_vertical_computing(op, col, internal_col, V) ==
  StoreVector(VectorBase(col, internal_col), V) \o VerticalTrigger(op, col, internal_col)

ap_computing_vertical_test(op, internal_col, V) ==
  Begin([fn |-> "ap_computing_vertical_test", op |-> op, internal_col |-> internal_col, V |-> V],
        ap_vertical_computing(op, CAM_B, internal_col, V) \o << Wait, Release >>
          \o LoadVector(VectorBase(CAM_C, internal_col), AP_COL_SIZE))

ap_trigger_vertical_computing_w_wait(op, col, internal_col) ==
  Begin([fn |-> "ap_trigger_vertical_computing_w_wait", op |-> op, col |-> col,
         internal_col |-> internal_col],
        VerticalTrigger(op, col, internal_col) \o << Wait, Release >>)

\* Slip: the release after the wait is forgotten.
ap_vertical_target_no_release(op, col, internal_col, target) ==
  Begin([fn |-> "ap_trigger_vertical_computing_target", op |-> op, col |-> col,
         internal_col |-> internal_col, target |-> target],
        << Control(DYNAMIC, TARGET_A, FALSE, {}), Mode(internal_col, col, VERTICAL, op),
           Control(STATIC, target, TRUE, {}), Wait >>)

ap_trigger_vertical_computing_target(op, col, internal_col, target) ==
  Begin([fn |-> "ap_trigger_vertical_computing_target", op |-> op, col |-> col,
         internal_col |-> internal_col, target |-> target],
        << Control(DYNAMIC, TARGET_A, FALSE, {}), Mode(internal_col, col, VERTICAL, op),
           Control(STATIC, target, TRUE, {}), Wait, Release >>)
-----------------------------------------------------------------------------
(* The processor performs the next access. *)

IsNext(kind) == todo # << >> /\ Head(todo).kind = kind
Done == todo' = Tail(todo)

\* A control write: flush and reset bits act at once, a rising trigger starts
\* the engine and lowers the flag, a low trigger lowers the flag; whether it
\* also stops a running engine nobody says, so both happen.
CpuControl ==
  /\ IsNext("control") /\ Done
  /\ LET c == Head(todo).control
     IN  /\ control' = c
         /\ cam' = Flushed(c.rst, mode, cam)
         /\ \/ /\ 3 \in c.rst
               /\ busy' = FALSE /\ left' = {} /\ irq' = FALSE
            \/ /\ 3 \notin c.rst /\ c.trigger /\ ~ control.trigger
               /\ busy' = TRUE /\ left' = Row /\ irq' = FALSE
            \/ /\ 3 \notin c.rst /\ c.trigger /\ control.trigger
               /\ UNCHANGED <<busy, left, irq>>
            \/ /\ 3 \notin c.rst /\ ~ c.trigger
               /\ \/ UNCHANGED <<busy, left>>
                  \/ busy' = FALSE /\ left' = {}
               /\ irq' = FALSE
  /\ UNCHANGED <<mode, call, buf, suspect, results_size, old, calls>>

CpuMode ==
  /\ IsNext("mode") /\ Done
  /\ mode' = Head(todo).mode
  /\ UNCHANGED <<control, irq, busy, left, cam, call, buf, suspect, results_size, old, calls>>

CpuStore ==
  /\ IsNext("store") /\ Done
  /\ cam' = Stored(Head(todo).addr, Head(todo).value, cam)
  /\ UNCHANGED <<control, mode, irq, busy, left, call, buf, suspect, results_size, old, calls>>

\* What a load returns: from outside the columns, whatever the bus does.
Read(a) == IF a \in CamAddr THEN {cam[a]} ELSE Byte

CpuLoad ==
  /\ IsNext("load") /\ Done
  /\ \E v \in Read(Head(todo).addr) : buf' = Append(buf, v)
  /\ UNCHANGED <<device, call, suspect, results_size, old, calls>>

CpuCopy ==
  /\ IsNext("copy") /\ Done
  /\ \E v \in Read(Head(todo).addr) : cam' = Stored(Head(todo).to, v, cam)
  /\ UNCHANGED <<control, mode, irq, busy, left, call, buf, suspect, results_size, old, calls>>

\* The unbounded wait: another turn while the flag is down, out when it is up.
CpuWait ==
  /\ IsNext("wait")
  /\ \/ ~ irq /\ UNCHANGED todo
     \/ irq /\ Done
  /\ UNCHANGED <<device, call, buf, suspect, results_size, old, calls>>

\* ap_waiting_for_computing: flag up, TRUE and both registers cleared; flag
\* down, one loop less; out of loops, FALSE with the registers as they are.
CpuPoll ==
  /\ IsNext("poll")
  /\ LET loops == Head(todo).loops
     IN  \/ /\ loops > 0 /\ irq
            /\ todo' = << Release, ZeroMode >> \o Tail(todo)
            /\ UNCHANGED suspect
         \/ /\ loops > 0 /\ ~ irq
            /\ todo' = << Poll(loops - 1) >> \o Tail(todo)
            /\ UNCHANGED suspect
         \/ /\ loops = 0
            /\ todo' = Tail(todo)
            /\ suspect' = TRUE
  /\ UNCHANGED <<device, call, buf, results_size, old, calls>>

\* end_compute_cycles: one more result, until the array is full.
CpuEndCycles ==
  /\ IsNext("end_cycles") /\ Done
  /\ results_size' = IF results_size = MAX_RESULTS THEN results_size ELSE results_size + 1
  /\ UNCHANGED <<device, call, buf, suspect, old, calls>>

Cpu == CpuControl \/ CpuMode \/ CpuStore \/ CpuLoad \/ CpuCopy \/ CpuWait \/ CpuPoll
         \/ CpuEndCycles

-----------------------------------------------------------------------------
(* The engine (external): rows in any order, under the registers as they are. *)

EngineRow ==
  /\ busy
  /\ \E r \in left :
       /\ left' = left \ {r}
       /\ \/ /\ mode.op_direction = HORIZONTAL
             /\ cam' = Computed(control, mode, cam, {r})
          \/ /\ mode.op_direction = VERTICAL
             /\ \E v \in Byte : cam' = Stored(Destination(control, mode) + r, v, cam)
  /\ UNCHANGED <<control, mode, irq, busy, cpu>>

EngineDone ==
  /\ busy /\ left = {}
  /\ busy' = FALSE /\ irq' = TRUE
  /\ UNCHANGED <<control, mode, left, cam, cpu>>

Engine == EngineRow \/ EngineDone

-----------------------------------------------------------------------------

\* main: warmup_ap first, on registers out of reset and columns in any state.
Init ==
  /\ control = Released /\ mode = ModeZero
  /\ irq = FALSE /\ busy = FALSE /\ left = {}
  /\ cam \in InitMemories
  /\ call = [fn |-> "warmup_ap"] /\ todo = Warmup
  /\ buf = << >> /\ suspect = FALSE /\ results_size = 0
  /\ old = [cam |-> cam, call |-> [fn |-> "none"], buf |-> << >>, suspect |-> FALSE]
  /\ calls = 0

Bases == {CamBase(col, half) : col \in APCollunm, half \in {0, 1}}
Targets == {TARGET_C, TARGET_A}

Move ==
  \/ \E col \in APCollunm, i \in Columns, V \in Vectors : ap_write_vector(col, i, V)
  \/ \E col \in APCollunm, i \in Columns, n \in {AP_COL_SIZE, AP_COL_SIZE + 1} :
       ap_read_vector(col, i, n)
  \/ \E to \in Bases, V \in Vectors : ap_memcpy_in(to, V)
  \/ \E from \in Bases : ap_memcpy_out(from, AP_COL_SIZE)
  \/ \E to, from \in Bases : ap_memcpy(to, from, AP_COL_SIZE)

Reset ==
  \/ warmup_ap \/ reset_ap_engine \/ release_ap_if
  \/ ap_flush_a_1 \/ ap_flush_b_0 \/ ap_flush_b_1 \/ ap_flush_c_0 \/ ap_flush_c_1
  \/ \E col \in APCollunm, i \in Columns : ap_flush_col(col, i)

Compute ==
  \/ \E op \in Commands, i \in Columns :
       \/ ap_trigger_computing_w_wait(op, HORIZONTAL, i)
       \/ \E A, B \in Vectors : ap_computing_horizontal_test(op, i, A, B)
       \/ \E t \in Targets : ap_trigger_computing(op, CAM_A, i, HORIZONTAL, t)
  \/ \E op \in Commands, b \in Selectors : ap_trigger_computing_w_wait_target_a(op, HORIZONTAL, b)
  \/ \E V \in Vectors : op_target_setup(V)
  \/ \E col \in APCollunm, i \in Columns, v \in Byte : ap_set_value(col, i, v)
  \/ \E v \in Byte : ap_set_value_cam_a_left(v)
  \/ \E v \in Byte, i \in Columns, t \in Targets : ap_search(v, i, t)

Vertical ==
  \E op \in Commands, i \in Columns :
    \/ \E V \in Vectors : ap_computing_vertical_test(op, i, V)
    \/ ap_trigger_vertical_computing_w_wait(op, CAM_A, i)
    \/ \E t \in Targets : ap_trigger_vertical_computing_target(op, CAM_A, i, t)

\* main returns (the bound on calls reached): the one place the program may stop.
Return == todo = << >> /\ calls = MaxCalls /\ UNCHANGED vars

Next == Move \/ Reset \/ Compute \/ Vertical \/ Cpu \/ Engine \/ Return

\* The hart keeps executing and a triggered command takes finitely many cycles.
Fairness == WF_vars(Cpu) /\ WF_vars(Engine)

Spec == Init /\ [][Next]_vars /\ Fairness
-----------------------------------------------------------------------------
(* Properties. *)

\* The legacy functions for vertical computation; the promise (ApCalls) leaves them out.
VerticalFns == {"ap_computing_vertical_test", "ap_trigger_vertical_computing_w_wait",
                "ap_trigger_vertical_computing_target"}

\* Every register, byte and pending access is of its kind: no sequence of calls
\* makes a driver function hand the bus a malformed word (ap_hal.h:89-98).
TypeOK ==
  /\ control \in ControlReg /\ mode \in ModeReg
  /\ irq \in BOOLEAN /\ busy \in BOOLEAN /\ left \subseteq Row
  /\ cam \in Memory
  /\ todo \in Seq(Access)
  /\ buf \in Seq(Byte)
  /\ suspect \in BOOLEAN
  /\ results_size \in 0 .. MAX_RESULTS
  /\ calls \in 0 .. MaxCalls

\* Whenever the engine computes, the processor stands at the interrupt poll: it
\* never touches a register or a column under a running command, whatever
\* calls came before (the wait loops of ap_hal.c:104, 120, 254, 274, 321, 333).
CpuWaitsForEngine ==
  busy /\ ~ suspect => todo # << >> /\ Head(todo).kind \in {"wait", "poll"}

\* The interface is locked for the whole of a computation: what the comments
\* "Lock ap_if_state" (ap_hal.c:99, 115, 210) and "Block interface"
\* (ap_hal.c:232, 244, 264) announce.
InterfaceLockedWhileBusy == busy => control.ap_if_state = STATIC

\* A call that returns hands back a released interface, an idle engine and a
\* lowered flag, so that no later wait is satisfied by an earlier command
\* ("Release ap_if_state", "Release block interface", ap_hal.c:40, 257, 277, 324).
ReleasedAtReturn == todo = << >> /\ ~ suspect => control = Released /\ ~ busy /\ ~ irq

\* The abstract state: while a call runs, the one it started from.
Promise == INSTANCE ApCalls WITH
  mem  <- IF todo = << >> THEN cam ELSE old.cam,
  last <- IF todo = << >> THEN call ELSE old.call,
  out  <- IF todo = << >> THEN buf ELSE old.buf

\* ap_search looks for the key it was given, on either side of the CAMs
\* (ap_hal.c:352-356; RIGHT is 0b111 in ap_hal.h:76).
SearchLooksForItsKey ==
  todo = << >> /\ call.fn = "ap_search" => cam = Promise!Effect(call, old.cam)

\* Each call is one atomic operation on the columns, with the promised effect
\* and the promised bytes: ApHal implements ApCalls (all of ap_hal.c).
PromiseKept == Promise!Spec

\* After a bounded poll gave up (ap_trigger_computing ignores its FALSE), one
\* reset of the engine is enough: every later call, until the next such
\* timeout, has its promised effect and no other (ap_hal.c:51-57, 218-225).
PromiseKeptAfterReset ==
  todo = << >> /\ ~ suspect /\ ~ old.suspect /\ call.fn \notin VerticalFns =>
    cam = Promise!Effect(call, old.cam)

\* Every call returns: no wait is for a command that was not triggered or whose
\* flag was already taken.
CallsReturn == (todo # << >>) ~> (todo = << >>)
=============================================================================
