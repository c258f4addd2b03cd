------------------------------ MODULE ApCalls -------------------------------
(***************************************************************************)
(* What the HAL promises its client: every call is one atomic operation on *)
(* the six columns, with the effect its name, its enumerations and the     *)
(* comments of ap_hal.h and ap_hal.c give it.  There are no registers, no  *)
(* engine and no waiting here; ApHal implements this module.               *)
(***************************************************************************)
EXTENDS ApMemory

CONSTANTS
  InitMemories   \* contents the columns may power up with

VARIABLES
  mem,    \* the six columns between two calls
  last,   \* the last call, a record [fn |-> ..., its arguments]
  out     \* the bytes it returned

-----------------------------------------------------------------------------

Column(cam, half) == {CamBase(cam, half) + r : r \in Row}

Filled(cam, half, v, m) == [a \in CamAddr |-> IF a \in Column(cam, half) THEN v ELSE m[a]]

Written(base, V, m) ==
  [a \in CamAddr |-> IF a - base \in 0 .. Len(V) - 1 THEN V[a - base + 1] ELSE m[a]]

Moved(to, from, n, m) ==
  [a \in CamAddr |-> IF a - to \in 0 .. n - 1 THEN m[from + a - to] ELSE m[a]]

\* The whole column at once: cmd over the columns internal_col selects.
Operated(op, internal_col, target, m) ==
  Computed(set_control_reg(STATIC, target, TRUE, {}),
           set_mode_reg(internal_col, CAM_A, HORIZONTAL, op), m, Row)

\* The left or the right internal column of a CAM, for a whole-column selector.
Side(internal_col) == IF internal_col = LEFT THEN 0 ELSE 1

-----------------------------------------------------------------------------
(* The effect of a call on the columns. *)

Effect(c, m) ==
  CASE c.fn = "warmup_ap" -> [a \in CamAddr |-> 0]
    [] c.fn \in {"reset_ap_engine", "release_ap_if", "ap_read_vector", "ap_memcpy_out"} -> m
    [] c.fn = "ap_write_vector" ->
         IF Len(c.V) > AP_COL_SIZE THEN m
         ELSE Written(CamBase(c.col, Side(c.internal_col)), c.V, m)
    [] c.fn = "ap_memcpy_in" -> Written(c.to, c.V, m)
    [] c.fn = "ap_memcpy" -> Moved(c.to, c.from, c.bytes, m)
    [] c.fn = "ap_flush_a_1" -> Filled(CAM_A, 1, 0, m)
    [] c.fn = "ap_flush_b_0" -> Filled(CAM_B, 0, 0, m)
    [] c.fn = "ap_flush_b_1" -> Filled(CAM_B, 1, 0, m)
    [] c.fn = "ap_flush_c_0" -> Filled(CAM_C, 0, 0, m)
    [] c.fn = "ap_flush_c_1" -> Filled(CAM_C, 1, 0, m)
    [] c.fn = "ap_flush_col" -> Filled(c.col, Side(c.internal_col), 0, m)
    [] c.fn = "ap_trigger_computing_w_wait" -> Operated(c.op, c.internal_col, TARGET_C, m)
    [] c.fn = "ap_trigger_computing_w_wait_target_a" ->
         Operated(c.op, c.internal_col, TARGET_A, m)
    [] c.fn = "ap_trigger_computing" -> Operated(c.op, c.internal_col, c.target, m)
    [] c.fn = "ap_computing_horizontal_test" ->
         Operated(c.op, c.internal_col, TARGET_C,
                  Written(CamBase(CAM_B, Side(c.internal_col)), c.B,
                          Written(CamBase(CAM_A, Side(c.internal_col)), c.A, m)))
    [] c.fn = "op_target_setup" ->
         Operated(ADD, 1, TARGET_A,
                  Written(CamBase(CAM_C, 1), c.V, Written(CamBase(CAM_B, 1), c.V, m)))
    [] c.fn = "ap_set_value" -> Filled(c.col, Side(c.internal_col), c.value, m)
    [] c.fn = "ap_set_value_cam_a_left" -> Filled(CAM_A, 0, c.value, m)
    [] c.fn = "ap_search" ->
         Operated(SEARCH, c.internal_col, c.target,
                  Written(CamBase(CAM_B, Side(c.internal_col)), << c.value >>, m))

\* The bytes a call hands back: a prefix of the columns, in order.
Bytes(base, n, m) == [i \in 1 .. n |-> m[base + i - 1]]

Output(c, m) ==
  CASE c.fn = "ap_read_vector" ->
         IF c.size > AP_COL_SIZE THEN << >>
         ELSE Bytes(CamBase(c.col, Side(c.internal_col)), c.size, m)
    [] c.fn = "ap_memcpy_out" -> Bytes(c.from, c.bytes, m)
    [] c.fn = "ap_computing_horizontal_test" -> Bytes(CamBase(CAM_C, 0), AP_COL_SIZE, Effect(c, m))
    [] OTHER -> << >>

-----------------------------------------------------------------------------

Init ==
  /\ mem \in InitMemories
  /\ last = [fn |-> "none"]
  /\ out = << >>

\* Any call the client chooses, with the effect of that call.
Next ==
  /\ last'.fn # "none"
  /\ mem' = Effect(last', mem)
  /\ out' = Output(last', mem)

vars == <<mem, last, out>>

Spec == Init /\ [][Next]_vars
=============================================================================
