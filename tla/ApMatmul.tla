------------------------------ MODULE ApMatmul ------------------------------
(***************************************************************************)
(* The matrix products of src/ap_tests.h on the associative processor, as  *)
(* matmul_evaluation (src/evaluation.h) runs them after main's warmup_ap:  *)
(* ap_mm and ap_mm_v2 accumulate one row of the product at a time, in      *)
(* CAM C right and in CAM A right; ap_mm_v4 accumulates the whole product  *)
(* in CAM A right, one rank-one update at a time.                          *)
(*                                                                         *)
(* A step is one HAL call, with the effect ApCalls promises (ApHal shows   *)
(* that ap_hal.c keeps the promise).  `todo' holds the calls the current   *)
(* loop body has still to make.                                            *)
(***************************************************************************)
EXTENDS ApCalls

CONSTANTS
  Kernels,   \* the kernels run, among "ap_mm", "ap_mm_v2", "ap_mm_v4"
  Dims,      \* dimensions << m_len, k_len, n_len >>
  Entries,   \* matrix entries
  MaxRuns    \* bound: kernels run one after the other

ASSUME KernelsAssumption == Kernels \subseteq {"ap_mm", "ap_mm_v2", "ap_mm_v4"}
\* r_v_mgmt's vectors hold the matrices.
ASSUME DimsAssumption ==
  \A d \in Dims :
    /\ \A x \in 1 .. 3 : d[x] \in Nat \ {0}
    /\ d[1] * d[2] <= AP_COL_SIZE /\ d[2] * d[3] <= AP_COL_SIZE /\ d[1] * d[3] <= AP_COL_SIZE
ASSUME EntriesAssumption == Entries \subseteq Byte
\* The engine multiplies as the reference of its test does (env_tests.h, ap_unit_test_sw).
ASSUME MultAssumption == \A x, y \in Byte : Alu(MULT, x, y) = (x * y) % ByteMod

VARIABLES
  kernel, dim,   \* the kernel and its arguments
  A, B, C,       \* r_v_mgmt
  i, j,          \* its loop counters
  todo,          \* calls the loop body has still to make
  phase,         \* "kernel", then "done" when nothing but todo is left
  runs

device == <<mem, last, out>>
loop   == <<i, j, todo, phase>>
vars_mm == <<device, loop, kernel, dim, A, B, C, runs>>

Index == 0 .. AP_COL_SIZE - 1    \* RANDOM_VECTORS_SIZE is AP_COL_SIZE
m_len == dim[1]
k_len == dim[2]
n_len == dim[3]

-----------------------------------------------------------------------------
(* The calls a kernel makes. *)

\* n bytes of a vector, from an offset on.
From(V, x, n) == [r \in 1 .. n |-> V[x + r - 1]]

In(to, V) == [fn |-> "ap_memcpy_in", to |-> to, V |-> V]
\* A copy out of a column to C, from offset `at' on.
Out(at, from, n) == [fn |-> "ap_memcpy_out", from |-> from, bytes |-> n, at |-> at]
Call(fn) == [fn |-> fn]
SetLeft(factor) == [fn |-> "ap_set_value_cam_a_left", value |-> factor]
Compute(op, internal_col) ==
  [fn |-> "ap_trigger_computing_w_wait", op |-> op, internal_col |-> internal_col]
ComputeA(op, bits) ==
  [fn |-> "ap_trigger_computing_w_wait_target_a", op |-> op, internal_col |-> bits]

ap_matrix_col_mm(factor, bytes) ==
  << SetLeft(factor), Compute(MULT, LEFT),
     [fn |-> "ap_memcpy", to |-> CamBase(CAM_A, 1), from |-> CamBase(CAM_C, 0),
      bytes |-> bytes],
     Compute(ADD_D, RIGHT), Call("ap_flush_c_0") >>

\* Slip: the products in CAM C left are accumulated where RIGHT puts them.
ap_matrix_col_mm_window_right(factor) ==
  << SetLeft(factor), Compute(MULT, LEFT), ComputeA(ADD_D, RIGHT), Call("ap_flush_c_0") >>

ap_matrix_col_mm_window(factor) ==
  << SetLeft(factor), Compute(MULT, LEFT), ComputeA(ADD_D, 3), Call("ap_flush_c_0") >>

\* Column col of A spread over the rows, row col of B repeated, in one layout.
mm_cols_setup(col) ==
  << In(CamBase(CAM_A, 0), [x \in 1 .. m_len * n_len |-> A[((x - 1) \div n_len) * m_len + col]]),
     In(CamBase(CAM_B, 0), [x \in 1 .. m_len * n_len |-> B[(col * n_len) + ((x - 1) % n_len)]]) >>

-----------------------------------------------------------------------------

\* A step of the inner loop: row j of B times A[i][j].
Inner(k, calls) ==
  /\ kernel = k /\ phase = "kernel" /\ todo = << >>
  /\ i < m_len /\ j < k_len
  /\ todo' = << In(CamBase(CAM_B, 0), From(B, j * n_len, n_len)) >> \o calls
  /\ j' = j + 1
  /\ UNCHANGED <<device, i, phase, kernel, dim, A, B, C, runs>>

\* The end of a row: copy the accumulator out and flush it.
RowEnd(k, calls) ==
  /\ kernel = k /\ phase = "kernel" /\ todo = << >>
  /\ i < m_len /\ j = k_len
  /\ todo' = calls
  /\ i' = i + 1 /\ j' = 0
  /\ UNCHANGED <<device, phase, kernel, dim, A, B, C, runs>>

ap_mm_inner == Inner("ap_mm", ap_matrix_col_mm(A[i * k_len + j], n_len))

\* Slip: the accumulator is copied out and not flushed.
ap_mm_row_no_flush == RowEnd("ap_mm", << Out(i * n_len, CamBase(CAM_C, 1), n_len) >>)

ap_mm_row ==
  RowEnd("ap_mm", << Out(i * n_len, CamBase(CAM_C, 1), n_len), Call("ap_flush_c_1") >>)

ap_mm_v2_inner == Inner("ap_mm_v2", ap_matrix_col_mm_window(A[i * k_len + j]))

ap_mm_v2_row ==
  RowEnd("ap_mm_v2", << Out(i * n_len, CamBase(CAM_A, 1), n_len), Call("ap_flush_a_1") >>)

\* Slip: i++ is lost, the loop repeats its first update.
ap_mm_v4_stuck ==
  /\ kernel = "ap_mm_v4" /\ phase = "kernel" /\ todo = << >>
  /\ i < m_len
  /\ todo' = mm_cols_setup(i)
               \o << Compute(MULT, LEFT), ComputeA(ADD_D, 3), Call("ap_flush_c_0") >>
  /\ UNCHANGED <<device, i, j, phase, kernel, dim, A, B, C, runs>>

\* One rank-one update of the whole product; i counts the columns of A.
ap_mm_v4 ==
  /\ kernel = "ap_mm_v4" /\ phase = "kernel" /\ todo = << >>
  /\ i < m_len
  /\ todo' = mm_cols_setup(i)
               \o << Compute(MULT, LEFT), ComputeA(ADD_D, 3), Call("ap_flush_c_0") >>
  /\ i' = i + 1
  /\ UNCHANGED <<device, j, phase, kernel, dim, A, B, C, runs>>

\* The loops are over; matmul_evaluation copies ap_mm_v4's product out of CAM A.
Finish ==
  /\ phase = "kernel" /\ todo = << >> /\ i = m_len
  /\ phase' = "done"
  /\ todo' = IF kernel = "ap_mm_v4" THEN << Out(0, CamBase(CAM_A, 1), AP_COL_SIZE) >> ELSE << >>
  /\ UNCHANGED <<device, i, j, kernel, dim, A, B, C, runs>>

\* The next HAL call; bytes copied out of a column go to C.
HalCall ==
  /\ todo # << >>
  /\ last' = Head(todo)
  /\ mem' = Effect(last', mem)
  /\ out' = Output(last', mem)
  /\ C' = IF last'.fn # "ap_memcpy_out" THEN C
          ELSE [x \in Index |-> IF x - last'.at \in 0 .. last'.bytes - 1
                                THEN out'[x - last'.at + 1] ELSE C[x]]
  /\ todo' = Tail(todo)
  /\ UNCHANGED <<i, j, phase, kernel, dim, A, B, runs>>

-----------------------------------------------------------------------------

Zero == [x \in Index |-> 0]
Done == phase = "done" /\ todo = << >>

\* A matrix in the first n bytes of a vector; the rest is not zero.
Matrices(n) == {[x \in Index |-> IF x < n THEN V[x] ELSE 1] : V \in [0 .. n - 1 -> Entries]}

\* ap_mm_v4 strides A by m_len: its callers pass m_len = k_len.
Accepts(k, d) == k = "ap_mm_v4" => d[1] = d[2]

InitMatmul ==
  /\ mem \in InitMemories /\ last = [fn |-> "none"] /\ out = << >>
  /\ kernel \in Kernels /\ dim \in {d \in Dims : Accepts(kernel, d)}
  /\ A \in Matrices(m_len * k_len) /\ B \in Matrices(k_len * n_len)
  /\ C = Zero
  /\ i = 0 /\ j = 0 /\ phase = "kernel" /\ runs = 1
  /\ todo = << Call("warmup_ap") >>

\* ap_mm and ap_mm_v2 flush their accumulator and may be called again; any
\* kernel may after another warmup_ap.
Again ==
  /\ Done /\ runs < MaxRuns
  /\ \E k \in Kernels :
       /\ Accepts(k, dim) /\ kernel' = k
       /\ \/ todo' = << Call("warmup_ap") >>
          \/ k = kernel /\ k # "ap_mm_v4" /\ todo' = << >>
  /\ C' = Zero
  /\ i' = 0 /\ j' = 0 /\ phase' = "kernel" /\ runs' = runs + 1
  /\ UNCHANGED <<device, dim, A, B>>

\* main returns.
Return == Done /\ runs = MaxRuns /\ UNCHANGED vars_mm

Step == ap_mm_inner \/ ap_mm_row \/ ap_mm_v2_inner \/ ap_mm_v2_row \/ ap_mm_v4
          \/ Finish \/ HalCall

NextMatmul == Step \/ Again \/ Return

\* The program runs on: every HAL call returns (CallsReturn in ApHal).
SpecMatmul == InitMatmul /\ [][NextMatmul]_vars_mm /\ WF_vars_mm(Step)
-----------------------------------------------------------------------------
(* Properties. *)

\* matmul_cpu's inner loop: the sum of the first t products, in a uint8_t.
Dot(x, y, t) ==
  LET sum[s \in 0 .. t] ==
        IF s = 0 THEN 0
        ELSE (sum[s - 1] + A[x * k_len + s - 1] * B[(s - 1) * n_len + y]) % ByteMod
  IN  sum[t]

\* matmul_cpu: the product in the first m_len * n_len bytes, zero above.
matmul_cpu ==
  [x \in Index |-> IF x < m_len * n_len THEN Dot(x \div n_len, x % n_len, k_len) ELSE 0]

\* Between two loop bodies the accumulating column holds exactly the partial
\* sums so far, and the rows of C already copied out are final: nothing a
\* call left in a column leaks into the next (ap_tests.h:616-630, 689-700, 860-867).
PartialSums ==
  phase = "kernel" /\ todo = << >> =>
    /\ kernel = "ap_mm" /\ i < m_len =>
         \A r \in 0 .. n_len - 1 : mem[CamBase(CAM_C, 1) + r] = Dot(i, r, j)
    /\ kernel = "ap_mm_v2" /\ i < m_len =>
         \A r \in 0 .. n_len - 1 : mem[CamBase(CAM_A, 1) + r] = Dot(i, r, j)
    /\ kernel = "ap_mm_v4" =>
         \A x \in 0 .. m_len * n_len - 1 :
           mem[CamBase(CAM_A, 1) + x] = Dot(x \div n_len, x % n_len, i)
    /\ kernel # "ap_mm_v4" =>
         \A x \in 0 .. i * n_len - 1 : C[x] = matmul_cpu[x]

\* Each kernel computes what matmul_cpu does, byte for byte, rows above the
\* product included: matmul_evaluation compares checksums of all the bytes
\* (evaluation.h:28-41).
ProductIsGolden == kernel \in Kernels /\ Done => C = matmul_cpu

=============================================================================
