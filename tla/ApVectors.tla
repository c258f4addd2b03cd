----------------------------- MODULE ApVectors ------------------------------
(***************************************************************************)
(* Row-by-row operations on vectors longer than a column (src/ap_tests.h): *)
(* vector_ap_op_kernel_horizontal cuts them into slices, and               *)
(* vector_ap_op_horizontal lets a vector run from the left into the right  *)
(* column of its CAM and computes both.  A step is one HAL call, as in     *)
(* ApMatmul.                                                               *)
(***************************************************************************)
EXTENDS ApCalls

CONSTANTS
  Functions,       \* those called, of the two
  Ops,             \* commands
  Sizes,           \* vector lengths
  Fills,           \* contents of a vector, functions on an interval 0 .. n
  MONITOR,         \* bytes ap_monitor_breakpoint looks at (10)
  MaxCalls         \* bound: calls of the client

\* The commands of two operands; a vector has as many bytes as are asked of it, and a column's.
VectorsAssumption ==
  /\ Functions \subseteq {"vector_ap_op_kernel_horizontal", "vector_ap_op_horizontal"}
  /\ Ops \subseteq OR .. MULT /\ Sizes \subseteq Nat /\ MONITOR \in Nat
  /\ \A V \in Fills, n \in Sizes : \A x \in (0 .. n - 1) \cup Row : V[x] \in Byte

VARIABLES
  fn, op, size,    \* the function and its arguments
  A, B, C,         \* the vectors
  data,            \* where offload copies CAM C to
  i,               \* the index of the slices
  todo,            \* HAL calls still to make
  phase,
  calls

device  == <<mem, last, out>>
args    == <<fn, op, size, A, B>>
vars_v  == <<device, args, C, data, i, todo, phase, calls>>

KernelFn     == "vector_ap_op_kernel_horizontal"
HorizontalFn == "vector_ap_op_horizontal"

Both == 2 * AP_COL_SIZE    \* rows of the left and the right column together

-----------------------------------------------------------------------------
(* The HAL calls. *)

From(V, x, n) == [r \in 1 .. n |-> V[x + r - 1]]

Write(cam, V) == [fn |-> "ap_write_vector", col |-> cam, internal_col |-> LEFT, V |-> V]
Read(cam, n)  == [fn |-> "ap_read_vector", col |-> cam, internal_col |-> LEFT, size |-> n]
Compute(internal_col) ==
  [fn |-> "ap_trigger_computing_w_wait", op |-> op, internal_col |-> internal_col]

\* A byte loop to or from a CAM's base moves what ap_memcpy would.
fill_a_b_cols(n) ==
  << [fn |-> "ap_memcpy_in", to |-> CamBase(CAM_A, 0), V |-> From(A, 0, n)],
     [fn |-> "ap_memcpy_in", to |-> CamBase(CAM_B, 0), V |-> From(B, 0, n)] >>

offload(n) == << [fn |-> "ap_memcpy_out", from |-> CamBase(CAM_C, 0), bytes |-> n] >>

warmup == << [fn |-> "warmup_ap"] >>

-----------------------------------------------------------------------------
(* vector_ap_op_kernel_horizontal *)

slices == (size \div AP_COL_SIZE) + 1

\* Slip: the slices start one byte, not one column, apart.
start_index_unscaled(s) == s

start_index(s) == AP_COL_SIZE * s

chunk_size(s) ==
  IF size < start_index(s) + AP_COL_SIZE THEN size % AP_COL_SIZE ELSE AP_COL_SIZE

SliceCalls(s) ==
  << Write(CAM_A, From(A, start_index(s), chunk_size(s))),
     Write(CAM_B, From(B, start_index(s), chunk_size(s))),
     Compute(LEFT), Read(CAM_C, chunk_size(s)) >>

\* Slip: the index is not stepped.
Slice_stuck ==
  /\ fn = KernelFn /\ phase = "run" /\ todo = << >> /\ i < slices
  /\ todo' = SliceCalls(i)
  /\ UNCHANGED <<device, args, C, data, i, phase, calls>>

Slice ==
  /\ fn = KernelFn /\ phase = "run" /\ todo = << >> /\ i < slices
  /\ todo' = SliceCalls(i)
  /\ i' = i + 1
  /\ UNCHANGED <<device, args, C, data, phase, calls>>

EndSlices ==
  /\ fn = KernelFn /\ phase = "run" /\ todo = << >> /\ i = slices
  /\ phase' = "done"
  /\ UNCHANGED <<device, args, C, data, i, todo, calls>>

-----------------------------------------------------------------------------
(* vector_ap_op_horizontal *)

\* Slip: 1 selects the right column of CAM A alone.
computeBoth_one == << Compute(LEFT), Compute(1) >>

computeBoth == << Compute(LEFT), Compute(RIGHT) >>

\* Slip: each round is offloaded before the right column has been computed.
Rounds_early(n) == [x \in 1 .. 3 * n - 1 |->
  IF x % 3 = 1 THEN Compute(LEFT) ELSE IF x % 3 = 2 THEN offload(Both)[1] ELSE Compute(RIGHT)]

\* n rounds of the engine, each but the last copied out; the columns are
\* filled once and for all.
Rounds(n) == [x \in 1 .. 3 * n - 1 |->
  IF x % 3 = 0 THEN offload(Both)[1] ELSE computeBoth[x % 3]]

\* The if's exclude each other; for any other size nothing is computed.
Horizontal ==
  /\ fn = HorizontalFn /\ phase = "run" /\ todo = << >>
  /\ todo' = CASE size <= AP_COL_SIZE -> fill_a_b_cols(size) \o << Compute(LEFT) >>
               [] size > AP_COL_SIZE /\ size <= Both -> fill_a_b_cols(size) \o computeBoth
               [] size = 2 * Both -> fill_a_b_cols(Both) \o Rounds(2)
               [] size = 4 * Both -> fill_a_b_cols(Both) \o Rounds(4)
               [] OTHER -> << >>
  /\ phase' = "computed"
  /\ UNCHANGED <<device, args, C, data, i, calls>>

\* Slip: the columns keep what they hold.
EndHorizontal_no_warmup ==
  /\ fn = HorizontalFn /\ phase = "computed" /\ todo = << >>
  /\ todo' = offload(MONITOR)
  /\ phase' = "done"
  /\ UNCHANGED <<device, args, C, data, i, calls>>

\* ap_monitor_breakpoint, then warmup_ap.
EndHorizontal ==
  /\ fn = HorizontalFn /\ phase = "computed" /\ todo = << >>
  /\ todo' = offload(MONITOR) \o warmup
  /\ phase' = "done"
  /\ UNCHANGED <<device, args, C, data, i, calls>>

-----------------------------------------------------------------------------

\* The next HAL call; ap_read_vector fills C from its start, offload fills data.
HalCall ==
  /\ todo # << >>
  /\ last' = Head(todo)
  /\ mem' = Effect(last', mem)
  /\ out' = Output(last', mem)
  /\ C' = IF last'.fn # "ap_read_vector" THEN C
          ELSE [x \in Row |-> IF x < Len(out') THEN out'[x + 1] ELSE C[x]]
  /\ data' = IF last'.fn # "ap_memcpy_out" THEN data
             ELSE [x \in 0 .. Both - 1 |-> IF x < Len(out') THEN out'[x + 1] ELSE data[x]]
  /\ todo' = Tail(todo)
  /\ UNCHANGED <<args, i, phase, calls>>

\* The kernel's vectors are its caller's.  vector_ap_op_horizontal fills
\* r_v_mgmt, whose A, B and C, of one column's length each, follow each other:
\* a longer A runs into B, and B into C, all zero.
VectorA(f, V, W) ==
  IF f = KernelFn THEN V
  ELSE [x \in 0 .. Both - 1 |-> IF x < AP_COL_SIZE THEN V[x] ELSE W[x - AP_COL_SIZE]]
VectorB(f, W) ==
  IF f = KernelFn THEN W ELSE [x \in 0 .. Both - 1 |-> IF x < AP_COL_SIZE THEN W[x] ELSE 0]

Zero == [x \in Row |-> 0]
Done == phase = "done" /\ todo = << >>

InitVectors ==
  /\ mem \in InitMemories /\ last = [fn |-> "none"] /\ out = << >>
  /\ fn \in Functions /\ op \in Ops /\ size \in Sizes
  /\ \E V, W \in Fills : A = VectorA(fn, V, W) /\ B = VectorB(fn, W)
  /\ C = Zero /\ i = 0 /\ phase = "run"
  /\ data = [x \in 0 .. Both - 1 |-> 0]
  /\ todo = warmup /\ calls = 1

\* test_vector_ap_op_horizontal goes on to the next size.
Again ==
  /\ Done /\ calls < MaxCalls
  /\ fn' \in Functions /\ op' \in Ops /\ size' \in Sizes
  /\ \E V, W \in Fills : A' = VectorA(fn', V, W) /\ B' = VectorB(fn', W)
  /\ C' = Zero /\ i' = 0 /\ phase' = "run"
  /\ calls' = calls + 1
  /\ UNCHANGED <<device, data, todo>>

Return == Done /\ calls = MaxCalls /\ UNCHANGED vars_v

Step == Slice \/ EndSlices \/ Horizontal \/ EndHorizontal \/ HalCall

NextVectors == Step \/ Again \/ Return

\* The program runs on: every HAL call returns (CallsReturn in ApHal).
SpecVectors == InitVectors /\ [][NextVectors]_vars_v /\ WF_vars_v(Step)
-----------------------------------------------------------------------------
(* Properties. *)

\* Element x of the operation, as ap_unit_test_sw computes it.
Golden(x) == Alu(op, A[x], B[x])

\* C holds, in each row, the newest slice that reaches that row, from the
\* slices' own elements: nothing of an earlier slice is computed in the place
\* of a later one, also when the size is a multiple of the column and the last
\* slice is empty (ap_tests.h:310-323).
NewestSlice ==
  Done /\ fn = KernelFn =>
    \A r \in Row :
      LET s == IF r < size % AP_COL_SIZE THEN size \div AP_COL_SIZE
               ELSE (size \div AP_COL_SIZE) - 1
      IN  C[r] = IF s < 0 THEN 0 ELSE Golden(s * AP_COL_SIZE + r)

\* The vector's elements, left column and then right, have been computed when
\* the measurement ends, for each size the function handles (ap_tests.h:381-422).
ColumnsAreGolden ==
  /\ fn = HorizontalFn /\ phase = "computed" /\ todo = << >>
  /\ size <= Both \/ size \in {2 * Both, 4 * Both}
  =>
    \A x \in 0 .. Both - 1 : x < size => mem[CamBase(CAM_C, 0) + x] = Golden(x)

\* What is copied out of the columns between two rounds is a finished result
\* (ap_tests.h:401, 412-418).
OffloadedWhenComputed ==
  fn = HorizontalFn /\ phase = "computed" /\ last.fn = "ap_memcpy_out" =>
    \A x \in 0 .. Both - 1 : data[x] = Golden(x)

\* Each call leaves the columns as it found them, zero: the next size does not
\* see the last one's rows (ap_tests.h:424-426).
NextStartsClean == Done /\ fn = HorizontalFn => \A a \in CamAddr : mem[a] = 0

=============================================================================
