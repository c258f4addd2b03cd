------------------------------- MODULE ApSums -------------------------------
(***************************************************************************)
(* Work inside the columns (src/ap_tests.h): accumulate_horizontal sums two *)
(* columns by halves with the assembly helpers of src/ap_funcs.S, and       *)
(* ap_search_test marks the rows that hold a key.  A step is one iteration  *)
(* of a byte loop or one HAL call.                                          *)
(***************************************************************************)
EXTENDS ApCalls

CONSTANTS
  N,             \* rows that are summed (the literal 512), a power of two
  Reach,         \* bytes a word store may change, at an address that is not a word's
  KeyRow, Key, Other,   \* of ap_search_test: 10, 10 and 5
  MaxCalls       \* bound: calls of the client

\* The numbers that halving N goes through, down to 1: N is a power of two.
Halvings(S) == N \in S /\ \A x \in S : x = 1 \/ (x % 2 = 0 /\ x \div 2 \in S)

RowsAssumption ==
  /\ N \in Row \cup {AP_COL_SIZE} /\ \E S \in SUBSET (1 .. N) : Halvings(S)
  /\ Reach \subseteq 1 .. AP_COL_SIZE /\ InitMemories \subseteq Memory
  /\ KeyRow \in Row /\ Key \in Byte /\ Other \in Byte /\ Key # Other
  /\ \A x, y \in Byte : Alu(ADD, x, y) = (x + y) % ByteMod

VARIABLES
  fn,        \* the function that runs
  i,         \* accumulate_horizontal's i: the rows that are still summands
  k,         \* the index of its inner loops
  found,     \* r_v_mgmt.A of ap_search_test
  phase, calls

device == <<mem, last, out>>
vars_s == <<device, fn, i, k, found, phase, calls>>

Accumulates == fn = "accumulate_horizontal"
Searches == fn = "ap_search_test"
At(p) == phase = p /\ UNCHANGED <<fn, calls>>

\* A HAL call that is due.
Hal(c) == last' = c /\ mem' = Effect(c, mem) /\ out' = Output(c, mem)

-----------------------------------------------------------------------------
(* ap_funcs.S *)

\* sw of a byte: the bytes above it become 0, or stay where the core or the device
\* passes only the low one on.
ap_store_data(a, v, reach, m) ==
  [x \in CamAddr |-> IF x = a THEN v ELSE IF x \in a + 1 .. a + reach - 1 THEN 0 ELSE m[x]]

\* lw, of which sb stores the lowest byte.
ap_get_data_to(to, from, m) == [m EXCEPT ![to] = m[from]]

-----------------------------------------------------------------------------
(* accumulate_horizontal *)

\* Slip: from the last row down, so that each store clears the rows above.
StoreOnes_down ==
  /\ Accumulates /\ At("fill") /\ k < N
  /\ \E reach \in Reach :
       mem' = ap_store_data(CamBase(CAM_B, 0) + N - 1 - k, 1, reach,
                ap_store_data(CamBase(CAM_A, 0) + N - 1 - k, 1, reach, mem))
  /\ k' = k + 1 /\ phase' = IF k + 1 = N THEN "compute" ELSE phase
  /\ UNCHANGED <<last, out, i, found>>
StoreOnes ==
  /\ Accumulates /\ At("fill") /\ k < N
  /\ \E reach \in Reach :
       mem' = ap_store_data(CamBase(CAM_B, 0) + k, 1, reach,
                ap_store_data(CamBase(CAM_A, 0) + k, 1, reach, mem))
  /\ k' = k + 1 /\ phase' = IF k + 1 = N THEN "compute" ELSE phase
  /\ UNCHANGED <<last, out, i, found>>

\* Slip: as the comment between the rounds has it, but the column is not reset.
Round_onto_c ==
  /\ Accumulates /\ At("compute")
  /\ Hal([fn |-> "ap_trigger_computing_w_wait", op |-> ADD_D, internal_col |-> LEFT])
  /\ k' = 0 /\ phase' = "halve" /\ UNCHANGED <<i, found>>
Round ==
  /\ Accumulates /\ At("compute")
  /\ Hal([fn |-> "ap_trigger_computing_w_wait", op |-> ADD, internal_col |-> LEFT])
  /\ k' = 0 /\ phase' = "halve" /\ UNCHANGED <<i, found>>

half == i \div 2

\* Slip: the second half is read one row late.
Halve_late ==
  /\ Accumulates /\ At("halve") /\ k < half
  /\ mem' = ap_get_data_to(CamBase(CAM_B, 0) + k, CamBase(CAM_C, 0) + half + k + 1,
              ap_get_data_to(CamBase(CAM_A, 0) + k, CamBase(CAM_C, 0) + k, mem))
  /\ k' = k + 1 /\ UNCHANGED <<last, out, i, found, phase>>
\* accum_data_manipulation: the halves of CAM C are the next summands.
Halve ==
  /\ Accumulates /\ At("halve") /\ k < half
  /\ mem' = ap_get_data_to(CamBase(CAM_B, 0) + k, CamBase(CAM_C, 0) + half + k,
              ap_get_data_to(CamBase(CAM_A, 0) + k, CamBase(CAM_C, 0) + k, mem))
  /\ k' = k + 1 /\ UNCHANGED <<last, out, i, found, phase>>

\* Slip: the number of rows is not halved.
NextRound_stuck ==
  /\ Accumulates /\ At("halve") /\ k = half
  /\ k' = 0 /\ i' = i
  /\ phase' = IF half > 0 THEN "compute" ELSE "done"
  /\ UNCHANGED <<device, found>>
NextRound ==
  /\ Accumulates /\ At("halve") /\ k = half
  /\ k' = 0 /\ i' = half
  /\ phase' = IF half > 0 THEN "compute" ELSE "done"
  /\ UNCHANGED <<device, found>>

-----------------------------------------------------------------------------
(* ap_search_test *)

FillRows ==
  /\ Searches /\ At("fill")
  /\ mem' = [a \in CamAddr |-> IF a \notin Column(CAM_A, 0) THEN mem[a]
                               ELSE IF a = CamBase(CAM_A, 0) + KeyRow THEN Key ELSE Other]
  /\ phase' = "search" /\ UNCHANGED <<last, out, i, k, found>>

Search ==
  /\ Searches /\ At("search")
  /\ Hal([fn |-> "ap_search", value |-> Key, internal_col |-> LEFT, target |-> TARGET_C])
  /\ phase' = "copy" /\ UNCHANGED <<i, k, found>>

\* Slip: the column that was searched is copied out.
CopyFound_a ==
  /\ Searches /\ At("copy")
  /\ found' = [r \in Row |-> mem[CamBase(CAM_A, 0) + r]]
  /\ phase' = "done" /\ UNCHANGED <<device, i, k>>
CopyFound ==
  /\ Searches /\ At("copy")
  /\ found' = [r \in Row |-> mem[CamBase(CAM_C, 0) + r]]
  /\ phase' = "done" /\ UNCHANGED <<device, i, k>>

-----------------------------------------------------------------------------

Tests == {"accumulate_horizontal", "ap_search_test"}

InitSums ==
  /\ mem \in InitMemories /\ last = [fn |-> "none"] /\ out = << >>
  /\ fn \in Tests /\ i = N /\ k = 0 /\ found = [r \in Row |-> 0]
  /\ phase = "fill" /\ calls = 1

\* The next function finds the columns as the last one left them.
Again ==
  /\ phase = "done" /\ calls < MaxCalls
  /\ fn' \in Tests /\ i' = N /\ k' = 0 /\ phase' = "fill" /\ calls' = calls + 1
  /\ found' = [r \in Row |-> 0]
  /\ UNCHANGED device

Return == phase = "done" /\ calls = MaxCalls /\ UNCHANGED vars_s

Step == StoreOnes \/ Round \/ Halve \/ NextRound \/ FillRows \/ Search \/ CopyFound

NextSums == Step \/ Again \/ Return

\* The program runs on: every HAL call returns.
SpecSums == InitSums /\ [][NextSums]_vars_s /\ WF_vars_s(Step)

-----------------------------------------------------------------------------
(* Properties. *)

\* Whatever the word stores do to their neighbours and whatever the columns held, after each
\* round the rows that are still summands hold the sum of all 2 * N ones, in equal parts
\* (ap_tests.h:462-489, ap_funcs.S:12-27).
PartsOfTheSum ==
  Accumulates /\ phase = "halve" =>
    \A r \in 0 .. i - 1 : mem[CamBase(CAM_C, 0) + r] = ((2 * N) \div i) % ByteMod

\* ap_search_test marks what cpu_search_test does: 1 in the row of the key and 0 in every
\* other (ap_tests.h:565-578, cpu_tests.h:465-483).
cpu_search == [r \in Row |-> IF r = KeyRow THEN 1 ELSE 0]
MarksTheKey == Searches /\ phase = "done" => found = cpu_search
=============================================================================
