------------------------------ MODULE MCApHal ------------------------------
(* Instances of ApHal for TLC: columns of two rows, bytes of two bits. *)
EXTENDS ApHal

Reference == INSTANCE ApAlu
MCAlu(op, x, y) == Reference!ap_unit_test_sw(op, x, y)

\* Every byte distinct from its neighbours, and none of them zero.
MCInitMemories == {[a \in CamAddr |-> 1 + ((a + (a \div 3)) % (ByteMod - 1))]}

\* A column's worth of bytes, a short vector, and one that fills the window.
Window == [i \in 1 .. 6 * AP_COL_SIZE |-> (i * i) % ByteMod]
MCVectors == {<< 1, 2 >>, << 3 >>, Window}
MCWindow == {Window}
MCColumns == {<< 1, 2 >>, << 3, 1 >>}

\* The functions that lock, trigger, wait and release; those that move bytes;
\* those that flush.
Waiting  == {"ap_trigger_computing_w_wait", "ap_trigger_computing_w_wait_target_a",
             "ap_set_value_cam_a_left"}
Memcpy   == {"ap_memcpy_in", "ap_memcpy_out", "ap_memcpy"}
Flushing == {"warmup_ap", "reset_ap_engine", "release_ap_if", "ap_flush_col", "ap_flush_a_1",
             "ap_flush_b_0", "ap_flush_b_1", "ap_flush_c_0", "ap_flush_c_1"}
ByVector == {"ap_write_vector", "ap_read_vector", "ap_set_value",
             "ap_computing_horizontal_test"}
Polling  == {"ap_trigger_computing", "op_target_setup"}


\* The programs that call the HAL: what they call, with which arguments, how often.
Program ==
  [left     |-> [fns |-> ByVector \cup {"ap_memcpy_in"} \cup Waiting \cup {"ap_search", "ap_flush_col", "ap_flush_c_0"},
                 ops |-> {0, 4, 6}, cols |-> {0}, bits |-> {3}, vs |-> MCVectors, max |-> 2],
   both     |-> [fns |-> Waiting \cup Memcpy \cup Flushing,
                 ops |-> {6, 9}, cols |-> {0, 7}, bits |-> {0, 3}, vs |-> MCVectors, max |-> 2],
   search   |-> [fns |-> {"ap_search"}, ops |-> {4}, cols |-> {0, 7}, bits |-> {3}, vs |-> MCVectors, max |-> 1],
   timed    |-> [fns |-> Polling \cup {"ap_memcpy_in", "reset_ap_engine", "warmup_ap", "ap_trigger_computing_w_wait"},
                 ops |-> {4}, cols |-> {0, 7}, bits |-> {3}, vs |-> MCVectors, max |-> 3],
   vertical |-> [fns |-> VerticalFns \cup {"ap_memcpy_in"}, ops |-> {4}, cols |-> {0}, bits |-> {3}, vs |-> MCVectors, max |-> 2],
   sequence |-> [fns |-> Waiting \cup {"ap_memcpy_in", "ap_flush_c_0", "ap_search"},
                 ops |-> {6, 9}, cols |-> {0}, bits |-> {3, 7}, vs |-> MCWindow, max |-> 4]]

CONSTANT Programs   \* those that run
VARIABLE program

\* What the programs of a run call, for Callable.
ProgramFns == UNION {Program[p].fns : p \in Programs}

Arg(c, f, S) == f \in DOMAIN c => c[f] \in S
Calls(p, c) ==
  /\ c.fn \in p.fns /\ Arg(c, "op", p.ops) /\ Arg(c, "V", p.vs) /\ Arg(c, "A", p.vs)
  /\ Arg(c, "B", p.vs)
  /\ Arg(c, "internal_col", IF c.fn = "ap_trigger_computing_w_wait_target_a" THEN p.bits ELSE p.cols)

ProgramNext ==
  /\ \/ Next
     \/ todo = << >> /\ calls >= Program[program].max /\ UNCHANGED vars
  /\ calls' # calls => calls' <= Program[program].max /\ Calls(Program[program], call')
  /\ UNCHANGED program

ProgramInit == Init /\ program \in Programs

ProgramSpec ==
  ProgramInit /\ [][ProgramNext]_<<vars, program>> /\ Fairness
=============================================================================
