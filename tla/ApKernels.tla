------------------------------- MODULE ApKernels -------------------------------
(***************************************************************************)
(* The programs that main (src/hello.c) can be built as: one of matrix     *)
(* products (ApMatmul), one of vector operations (ApVectors), or one that  *)
(* sums and searches inside the columns (ApSums).  They use the same       *)
(* columns and vectors, and never run together.                            *)
(***************************************************************************)
EXTENDS ApMatmul

CONSTANTS
  Functions, Ops, Sizes, Fills, MONITOR, MaxCalls,  \* of ApVectors
  N, Reach, KeyRow, Key, Other, MaxSums             \* of ApSums

VARIABLES
  fn, op, size, data, calls,   \* of ApVectors
  k, found                     \* of ApSums

Vec == INSTANCE ApVectors
Sum == INSTANCE ApSums WITH MaxCalls <- MaxSums

matrices == <<kernel, dim, j, runs>>
vectors == <<op, size, data>>
inside == <<k, found>>
shared == <<mem, last, out, A, B, C, i, phase, todo, fn, calls>>
all == <<shared, matrices, vectors, inside>>

Multiplies == kernel # "none"
Inside == fn \in Sum!Tests
Operates == ~Multiplies /\ ~Inside

NoMatrix == kernel = "none" /\ dim = << 0, 0, 0 >> /\ j = 0 /\ runs = 0
NoVector == op = OR /\ size = 0 /\ data = << >>
NoneInside == k = 0 /\ found = << >>

InitKernels ==
  \/ InitMatmul /\ NoVector /\ NoneInside /\ fn = "none" /\ calls = 0
  \/ Vec!InitVectors /\ NoMatrix /\ NoneInside
  \/ Sum!InitSums /\ NoMatrix /\ NoVector /\ A = Zero /\ B = Zero /\ C = Zero /\ todo = << >>

NextKernels ==
  \/ Multiplies /\ NextMatmul /\ UNCHANGED <<fn, calls, vectors, inside>>
  \/ Operates /\ Vec!NextVectors /\ UNCHANGED <<matrices, inside>>
  \/ Inside /\ Sum!NextSums /\ UNCHANGED <<matrices, vectors, A, B, C, todo>>

Advance ==
  \/ Multiplies /\ Step /\ UNCHANGED <<fn, calls, vectors, inside>>
  \/ Operates /\ Vec!Step /\ UNCHANGED <<matrices, inside>>
  \/ Inside /\ Sum!Step /\ UNCHANGED <<matrices, vectors, A, B, C, todo>>

SpecKernels == InitKernels /\ [][NextKernels]_all /\ WF_all(Advance)
-----------------------------------------------------------------------------
(* The properties, of the program that runs. *)

\* PartialSums and ProductIsGolden are those of ApMatmul; no other program's kernel is one of
\* Kernels or has a dimension.

\* C holds the newest slice that reaches each row (ap_tests.h:310-323).
NewestSlice == Operates => Vec!NewestSlice

\* Both columns hold the vector's elements, computed, when the measurement ends, what is
\* copied out between two rounds is finished, and the columns are left zero, so that the next
\* operation does not see its rows (ap_tests.h:381-426).  Inside the columns the rows still to
\* be summed hold equal parts of the sum of all (ap_tests.h:462-489), and a search marks the
\* rows that cpu_search_test does (ap_tests.h:565-578, cpu_tests.h:465-483).
VectorsAreGolden ==
  /\ Operates => Vec!ColumnsAreGolden /\ Vec!OffloadedWhenComputed /\ Vec!NextStartsClean
  /\ Inside => Sum!PartsOfTheSum /\ Sum!MarksTheKey

\* Every function that is started ends.
KernelsEnd == (phase \in {"kernel", "run", "fill"}) ~> (phase = "done" /\ todo = << >>)
=============================================================================
