---------------------------- MODULE MCApKernels -----------------------------
(***************************************************************************)
(* Instances of the kernels for TLC: columns of six rows, bytes of three   *)
(* bits.                                                                   *)
(***************************************************************************)
EXTENDS ApKernels

Reference == INSTANCE ApAlu
MCAlu(o, x, y) == Reference!ap_unit_test_sw(o, x, y)

\* Columns that power up with no byte zero.
MCInitMemories == {[a \in CamAddr |-> 1 + (a % (ByteMod - 1))]}

MCKernels == {"ap_mm", "ap_mm_v2", "ap_mm_v4"}

\* A square product, two that are not, and one that overflows its bytes soonest.
MCDims == {<< 2, 2, 2 >>, << 1, 3, 2 >>, << 2, 2, 1 >>, << 2, 1, 3 >>}

MCFunctions == {"vector_ap_op_kernel_horizontal", "vector_ap_op_horizontal"}

\* SUB tells the operands apart; NOT is what the test passes.
MCOps == {SUB, NOT}

\* Vectors in which any two neighbours, and rows a column apart, differ.
MCFills == {[x \in 0 .. 47 |-> (x * f + 1) % ByteMod] : f \in {1, 5}}

ASSUME Vec!VectorsAssumption
ASSUME Sum!RowsAssumption
=============================================================================
