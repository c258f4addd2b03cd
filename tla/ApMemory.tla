------------------------------ MODULE ApMemory ------------------------------
(***************************************************************************)
(* The associative processor as its driver sees it: six byte columns in    *)
(* one address window (CAMs A, B and C, each with a left and a right       *)
(* internal column, back to back from AP_BASE_ADDR), and the effect of one *)
(* engine command on them.                                                 *)
(*                                                                         *)
(* The address map is ap_hal.h's.  The engine is hardware: what a command  *)
(* does is read off the tests and kernels that use it (ap_tests.h).        *)
(***************************************************************************)
EXTENDS Integers, FiniteSets, Sequences

CONSTANTS
  AP_COL_SIZE,   \* rows of one internal column (512 in ap_hal.h)
  ByteMod,       \* a byte is 0 .. ByteMod - 1 (256 on the target)
  Alu(_, _, _)   \* row function of the commands OR .. MULT

Byte == 0 .. ByteMod - 1

ASSUME ColSizeAssumption == AP_COL_SIZE \in Nat \ {0}
ASSUME ByteModAssumption == ByteMod \in Nat \ {0, 1}
ASSUME AluAssumption == \A op \in 0 .. 6, x, y \in Byte : Alu(op, x, y) \in Byte

-----------------------------------------------------------------------------
(* The enumerations of ap_hal.h. *)

OR     == 0
XOR    == 1
AND    == 2
NOT    == 3
ADD    == 4
SUB    == 5
MULT   == 6
SET    == 7
SEARCH == 8
ADD_D  == 9
APOperations == OR .. ADD_D

CAM_A == 0
CAM_B == 1
CAM_C == 2
APCollunm == CAM_A .. CAM_C

\* RIGHT is one bit per CAM (0b111); kernels also pass 0b011 and 1.
LEFT  == 0
RIGHT == 7
InternalCol == 0 .. 7

HORIZONTAL == 0
VERTICAL == 1
DYNAMIC == 0
STATIC == 1
TARGET_C == 0
TARGET_A == 1

-----------------------------------------------------------------------------
(* The address map, as offsets from AP_BASE_ADDR. *)

Row     == 0 .. AP_COL_SIZE - 1
CamAddr == 0 .. 6 * AP_COL_SIZE - 1

\* CAM_x_0_BASE_ADDR and CAM_x_1_BASE_ADDR: half is 0 (left) or 1 (right).
CamBase(cam, half) == AP_COL_SIZE * 2 * cam + AP_COL_SIZE * half

\* The address ap_write_vector, ap_read_vector and ap_set_value compute: they
\* scale the enumeration value itself, which is 7 for RIGHT.
VectorBase(col, internal_col) == AP_COL_SIZE * 2 * col + AP_COL_SIZE * internal_col

Memory == [CamAddr -> Byte]

-----------------------------------------------------------------------------
(* The two writable registers, one field per byte of the word. *)

Bits == 0 .. 3    \* rst: bit 0, 1, 2 flush CAM A, B, C; bit 3 resets the engine

ControlReg == [ap_if_state : {DYNAMIC, STATIC}, op_target : {TARGET_C, TARGET_A},
               trigger : BOOLEAN, rst : SUBSET Bits]
ModeReg    == [internal_col : InternalCol, col : APCollunm,
               op_direction : {HORIZONTAL, VERTICAL}, cmd : APOperations]

set_control_reg(if_state, target, trigger, rst) ==
  [ap_if_state |-> if_state, op_target |-> target, trigger |-> trigger, rst |-> rst]

set_mode_reg(internal_col, col, direction, cmd) ==
  [internal_col |-> internal_col, col |-> col, op_direction |-> direction, cmd |-> cmd]

Released == set_control_reg(DYNAMIC, TARGET_C, FALSE, {})   \* *AP_CONTROL = 0x0
ModeZero == set_mode_reg(LEFT, CAM_A, HORIZONTAL, OR)       \* *AP_MODE = 0x0

-----------------------------------------------------------------------------
(* The effect of one command (the engine, external to the repository). *)

\* The internal column of a CAM that the selector names: one bit per CAM.
Half(internal_col, cam) ==
  (internal_col \div (CASE cam = CAM_A -> 1 [] cam = CAM_B -> 2 [] cam = CAM_C -> 4)) % 2
Selected(internal_col, cam) == CamBase(cam, Half(internal_col, cam))

\* The column a command writes: SET fills the column mode.col names, every
\* other command writes the selected column of its target.
Destination(c, m) ==
  Selected(m.internal_col,
           IF m.cmd = SET THEN m.col
           ELSE IF c.op_target = TARGET_A THEN CAM_A ELSE CAM_C)

RowResult(m, mem, r) ==
  LET A(x) == mem[Selected(m.internal_col, CAM_A) + x]
      B(x) == mem[Selected(m.internal_col, CAM_B) + x]
      C(x) == mem[Selected(m.internal_col, CAM_C) + x]
  IN  CASE m.cmd \in OR .. MULT -> Alu(m.cmd, A(r), B(r))
        [] m.cmd = SET          -> mem[Selected(m.internal_col, m.col)]
        [] m.cmd = SEARCH       -> IF A(r) = B(0) THEN 1 ELSE 0
        [] m.cmd = ADD_D        -> (A(r) + C(r)) % ByteMod

\* Memory after the rows in rs of a horizontal command have been computed.
Computed(c, m, mem, rs) ==
  LET d == Destination(c, m)
  IN  [a \in CamAddr |-> IF a - d \in rs THEN RowResult(m, mem, a - d) ELSE mem[a]]

\* Memory after the rst bits of a control write have flushed their columns.
Flushed(rst, m, mem) ==
  [a \in CamAddr |->
     IF \E cam \in rst \cap APCollunm : a - Selected(m.internal_col, cam) \in Row
     THEN 0 ELSE mem[a]]

\* A store outside the six columns reaches no CAM.
Stored(a, v, mem) == IF a \in CamAddr THEN [mem EXCEPT ![a] = v] ELSE mem
=============================================================================
