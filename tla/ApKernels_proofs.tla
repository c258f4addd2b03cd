-------------------------- MODULE ApKernels_proofs ---------------------------
(***************************************************************************)
(* For products of every shape that the vectors hold, columns of any size, *)
(* bytes of any width and however the three kernels follow each other:     *)
(* between two loop bodies the accumulating column holds the partial sums, *)
(* and every kernel ends with what matmul_cpu computes.                    *)
(*                                                                         *)
(* The argument: a loop body is a list of calls, and what it does to the   *)
(* columns and to C as a whole (`Runs') is one product more in every sum.  *)
(* The invariant is that what is left of the list runs from here to        *)
(* columns and a C that are good for the loop's counters (`Good').  The    *)
(* sums themselves are a recursive function: that it exists for every      *)
(* number of products is shown by a least counterexample.                  *)
(*                                                                         *)
(* Then the kernels on vectors longer than a column, and the sums and the  *)
(* search inside the columns, each under its own specification.            *)
(***************************************************************************)
EXTENDS ApKernels, SequenceTheorems, WellFoundedInduction, TLAPS

-----------------------------------------------------------------------------
(* The least number. *)

\* A nonempty set of naturals has a least element.
LEMMA LeastNatural ==
  ASSUME NEW S, S \subseteq Nat, S # {}
  PROVE  \E n \in S : \A m \in S : n <= m
<1> DEFINE R == {s \in Nat \X Nat : s[1] < s[2]}
<1>1. R = OpToRel(<, Nat)
  BY DEF OpToRel
<1>2. IsWellFoundedOn(R, Nat)
  BY <1>1, NatLessThanWellFounded, Zenon
<1>3. PICK n \in S : \A m \in S : ~ (<<m, n>> \in R)
  BY <1>2, WFMin
<1>4. ASSUME NEW m \in S
      PROVE  n <= m
  <2>1. m \in Nat /\ n \in Nat
    OBVIOUS
  <2>2. m < n => <<m, n>> \in R
    BY <2>1
  <2>3. ~ (m < n)
    BY <1>3, <2>2
  <2>4. QED
    BY <2>1, <2>3
<1>5. QED
  BY <1>4

-----------------------------------------------------------------------------
(* matmul_cpu's inner loop: Dot is the sum its loop computes. *)

\* The sums of the products P[1], P[2] ... in a byte.
IsSum(g, P, t) == g = [s \in 0 .. t |-> IF s = 0 THEN 0 ELSE (g[s - 1] + P[s]) % ByteMod]

\* Such a sum exists for any number of products: none is the least for which it does not.
LEMMA SumExists ==
  ASSUME NEW P, NEW t \in Nat
  PROVE  \E g : IsSum(g, P, t)
<1> DEFINE Bad == {n \in Nat : ~ \E g : IsSum(g, P, n)}
<1>1. SUFFICES ASSUME Bad # {}
               PROVE  FALSE
  OBVIOUS
<1>2. PICK n \in Bad : \A m \in Bad : n <= m
  <2> HIDE DEF Bad
  <2>1. Bad \subseteq Nat
    BY DEF Bad
  <2>2. QED
    BY <1>1, <2>1, LeastNatural
<1>3. n # 0
  <2>1. IsSum([s \in 0 .. 0 |-> 0], P, 0)
    BY DEF IsSum
  <2>2. QED
    BY <2>1
<1>4. n - 1 \in Nat /\ n - 1 \notin Bad
  BY <1>2, <1>3
<1>5. PICK g : IsSum(g, P, n - 1)
  BY <1>4
<1> DEFINE h == [s \in 0 .. n |-> IF s = n THEN (g[n - 1] + P[n]) % ByteMod ELSE g[s]]
<1>6. IsSum(h, P, n)
  <2>1. \A s \in 0 .. n : h[s] = IF s = 0 THEN 0 ELSE (h[s - 1] + P[s]) % ByteMod
    <3> TAKE s \in 0 .. n
    <3>1. CASE s = n
      BY <1>3, <3>1
    <3>2. CASE s # n
      <4>1. s \in 0 .. n - 1 /\ h[s] = g[s]
        BY <3>2
      <4>2. g[s] = IF s = 0 THEN 0 ELSE (g[s - 1] + P[s]) % ByteMod
        BY <1>5, <4>1 DEF IsSum
      <4>3. s # 0 => h[s - 1] = g[s - 1]
        BY <4>1
      <4>4. QED
        BY <4>1, <4>2, <4>3
    <3>3. QED
      BY <3>1, <3>2
  <2>2. h = [s \in 0 .. n |-> h[s]]
    OBVIOUS
  <2>3. QED
    <3> HIDE DEF h
    <3> QED BY <2>1, <2>2 DEF IsSum
<1>7. QED
  BY <1>6

\* Two such sums agree as far as both go.
LEMMA SumUnique ==
  ASSUME NEW P, NEW t \in Nat, NEW u \in Nat, NEW g, NEW h, IsSum(g, P, t), IsSum(h, P, u),
         NEW x \in Nat, x <= t, x <= u
  PROVE  g[x] = h[x]
<1> DEFINE Bad == {n \in 0 .. x : g[n] # h[n]}
<1>1. SUFFICES ASSUME Bad # {}
               PROVE  FALSE
  OBVIOUS
<1>2. PICK n \in Bad : \A m \in Bad : n <= m
  <2> HIDE DEF Bad
  <2>1. Bad \subseteq Nat
    BY DEF Bad
  <2>2. QED
    BY <1>1, <2>1, LeastNatural
<1>3. /\ g[n] = IF n = 0 THEN 0 ELSE (g[n - 1] + P[n]) % ByteMod
      /\ h[n] = IF n = 0 THEN 0 ELSE (h[n - 1] + P[n]) % ByteMod
  BY DEF IsSum
<1>4. n # 0 /\ n - 1 \in 0 .. x /\ n - 1 \notin Bad
  BY <1>2, <1>3
<1>5. QED
  BY <1>3, <1>4

\* Dot by its recursion: nothing at first, then one product more.
LEMMA DotStep ==
  ASSUME NEW x, NEW y, NEW t \in Nat, x * k_len \in Int
  PROVE  /\ Dot(x, y, 0) = 0
         /\ Dot(x, y, t + 1) = (Dot(x, y, t) + A[x * k_len + t] * B[t * n_len + y]) % ByteMod
<1> DEFINE P == [s \in Nat |-> A[x * k_len + s - 1] * B[(s - 1) * n_len + y]]
           Total(u) == CHOOSE g : IsSum(g, P, u)
<1>1. ASSUME NEW u \in Nat
      PROVE  Dot(x, y, u) = Total(u)[u]
  <2>1. \A g : (g = [s \in 0 .. u |->
         IF s = 0 THEN 0
         ELSE (g[s - 1] + A[x * k_len + s - 1] * B[(s - 1) * n_len + y]) % ByteMod]) <=> IsSum(g, P, u)
    BY DEF IsSum
  <2>2. QED
    BY <2>1 DEF Dot
<1>2. P[t + 1] = A[x * k_len + t] * B[t * n_len + y]
  <2>1. x * k_len + (t + 1) - 1 = x * k_len + t /\ (t + 1) - 1 = t
    OBVIOUS
  <2>2. QED
    BY <2>1
<1> HIDE DEF P
<1>3. ASSUME NEW u \in Nat
      PROVE  IsSum(Total(u), P, u)
  BY SumExists
<1> HIDE DEF Total
<1>4. Total(0)[0] = 0
  BY <1>3 DEF IsSum
<1>5. Total(t + 1)[t + 1] = (Total(t + 1)[t] + P[t + 1]) % ByteMod
  BY <1>3 DEF IsSum
<1>6. Total(t + 1)[t] = Total(t)[t]
  BY <1>3, SumUnique
<1>7. QED
  BY <1>1, <1>2, <1>4, <1>5, <1>6

-----------------------------------------------------------------------------
(* The columns. *)

\* Columns do not overlap.
LEMMA ColumnsApart ==
  ASSUME NEW a \in APCollunm, NEW b \in APCollunm, NEW g \in {0, 1}, NEW h \in {0, 1},
         NEW r \in Row, NEW q \in Row, CamBase(a, g) + r = CamBase(b, h) + q
  PROVE  a = b /\ g = h /\ r = q
<1>1. AP_COL_SIZE \in Nat /\ AP_COL_SIZE > 0
  BY ColSizeAssumption
<1>2. /\ r \in Nat /\ r < AP_COL_SIZE /\ q \in Nat /\ q < AP_COL_SIZE
  BY <1>1 DEF Row
<1>3. \A n \in {0, 1, 2} : CamBase(n, 0) = AP_COL_SIZE * 2 * n /\ CamBase(n, 1) = AP_COL_SIZE * 2 * n + AP_COL_SIZE
  BY <1>1 DEF CamBase
<1>4. /\ CamBase(0, 0) = 0 /\ CamBase(0, 1) = AP_COL_SIZE
      /\ CamBase(1, 0) = 2 * AP_COL_SIZE /\ CamBase(1, 1) = 3 * AP_COL_SIZE
      /\ CamBase(2, 0) = 4 * AP_COL_SIZE /\ CamBase(2, 1) = 5 * AP_COL_SIZE
  BY <1>1, <1>3
<1>5. a \in {0, 1, 2} /\ b \in {0, 1, 2}
  BY DEF APCollunm, CAM_A, CAM_C
<1>6. CASE a = 0
  BY <1>1, <1>2, <1>4, <1>5, <1>6
<1>7. CASE a = 1
  BY <1>1, <1>2, <1>4, <1>5, <1>7
<1>8. CASE a = 2
  BY <1>1, <1>2, <1>4, <1>5, <1>8
<1>9. QED
  BY <1>5, <1>6, <1>7, <1>8

LEMMA AddressInColumns ==
  ASSUME NEW c \in APCollunm, NEW h \in {0, 1}, NEW r \in Row
  PROVE  CamBase(c, h) \in Nat /\ r \in Nat /\ CamBase(c, h) + r \in CamAddr
<1>1. AP_COL_SIZE \in Nat /\ AP_COL_SIZE > 0 /\ c \in {0, 1, 2} /\ r \in Nat /\ r < AP_COL_SIZE
  BY ColSizeAssumption DEF APCollunm, CAM_A, CAM_C, Row
<1>2. CASE c = 0
  BY <1>1, <1>2 DEF CamBase, CamAddr
<1>3. CASE c = 1
  BY <1>1, <1>3 DEF CamBase, CamAddr
<1>4. CASE c = 2
  BY <1>1, <1>4 DEF CamBase, CamAddr
<1>5. QED
  BY <1>1, <1>2, <1>3, <1>4

\* Rows S of one column become f; every other byte is left alone.
Writes(m2, m, cam, half, S, f) ==
  /\ m2 \in Memory
  /\ \A r \in S : m2[CamBase(cam, half) + r] = f[r]
  /\ \A c \in APCollunm, h \in {0, 1}, r \in Row :
       (c # cam \/ h # half \/ r \notin S) => m2[CamBase(c, h) + r] = m[CamBase(c, h) + r]

\* Stores to rows of one column.
LEMMA WritesColumn ==
  ASSUME NEW m \in Memory, NEW cam \in APCollunm, NEW half \in {0, 1}, NEW S \in SUBSET Row,
         NEW f, \A r \in S : f[r] \in Byte, NEW b, b = CamBase(cam, half)
  PROVE  Writes([a \in CamAddr |-> IF a - b \in S THEN f[a - b] ELSE m[a]], m, cam, half, S, f)
<1> DEFINE m2 == [a \in CamAddr |-> IF a - b \in S THEN f[a - b] ELSE m[a]]
<1>1. m2 \in Memory
  BY DEF Memory
<1>2. b \in Nat
  BY AddressInColumns, ColSizeAssumption DEF CamBase, APCollunm, CAM_A, CAM_C
<1>3. ASSUME NEW r \in S
      PROVE  m2[b + r] = f[r]
  <2>1. b + r \in CamAddr /\ r \in Nat
    BY AddressInColumns
  <2>2. (b + r) - b = r
    BY <1>2, <2>1
  <2>3. QED
    BY <2>1, <2>2
<1>4. ASSUME NEW c \in APCollunm, NEW h \in {0, 1}, NEW r \in Row, c # cam \/ h # half \/ r \notin S
      PROVE  m2[CamBase(c, h) + r] = m[CamBase(c, h) + r]
  <2>1. CamBase(c, h) + r \in CamAddr /\ r \in Nat /\ CamBase(c, h) \in Nat
    BY AddressInColumns
  <2>2. CamBase(c, h) + r - b \notin S
    <3>1. SUFFICES ASSUME NEW q \in S, q = CamBase(c, h) + r - b
                   PROVE  FALSE
      OBVIOUS
    <3>2. q \in Row /\ CamBase(c, h) + r = CamBase(cam, half) + q
      BY <1>2, <2>1, <3>1 DEF Row
    <3>3. QED
      BY <1>4, <3>2, ColumnsApart
  <2>3. QED
    <3>1. \A x \in CamAddr : x - b \notin S => m2[x] = m[x]
      OBVIOUS
    <3> HIDE DEF m2
    <3>2. QED
      BY <1>2, <2>1, <2>2, <3>1
<1>5. Writes(m2, m, cam, half, S, f)
  <2> HIDE DEF m2
  <2> QED BY <1>1, <1>3, <1>4 DEF Writes
<1>6. QED
  BY <1>5

\* The columns that LEFT, RIGHT and the window select.
LEMMA Sides ==
  /\ \A c \in APCollunm : Selected(LEFT, c) = CamBase(c, 0) /\ Selected(RIGHT, c) = CamBase(c, 1)
  /\ Selected(3, CAM_A) = CamBase(CAM_A, 1) /\ Selected(3, CAM_C) = CamBase(CAM_C, 0)
<1>1. ASSUME NEW c \in APCollunm
      PROVE  Half(LEFT, c) = 0 /\ Half(RIGHT, c) = 1
  <2>1. CASE c = 0
    BY <2>1 DEF Half, LEFT, RIGHT, CAM_A
  <2>2. CASE c = 1
    BY <2>2 DEF Half, LEFT, RIGHT, CAM_A, CAM_B
  <2>3. CASE c = 2
    BY <2>3 DEF Half, LEFT, RIGHT, CAM_A, CAM_B, CAM_C
  <2>4. QED
    BY <2>1, <2>2, <2>3 DEF APCollunm, CAM_A, CAM_C
<1>2. Half(3, CAM_A) = 1 /\ Half(3, CAM_C) = 0
  BY DEF Half, CAM_A, CAM_B, CAM_C
<1>3. QED
  BY <1>1, <1>2 DEF Selected

Rows(n) == 0 .. n - 1

\* What a whole-column command writes.
OpMode(o, internal_col) == set_mode_reg(internal_col, CAM_A, HORIZONTAL, o)

\* A command writes its result to every row of one column.
LEMMA OperatedWrites ==
  ASSUME NEW o \in APOperations \ {SET}, NEW internal_col \in InternalCol,
         NEW target \in {TARGET_C, TARGET_A},
         NEW m \in Memory, NEW cam \in APCollunm, NEW half \in {0, 1},
         Selected(internal_col, IF target = TARGET_A THEN CAM_A ELSE CAM_C) = CamBase(cam, half),
         NEW f, \A r \in Row : f[r] \in Byte /\ RowResult(OpMode(o, internal_col), m, r) = f[r]
  PROVE  Writes(Operated(o, internal_col, target, m), m, cam, half, Row, f)
<1> DEFINE b == CamBase(cam, half)
           c == set_control_reg(STATIC, target, TRUE, {})
           d == OpMode(o, internal_col)
<1>1. Destination(c, d) = b
  BY DEF Destination, set_control_reg, OpMode, set_mode_reg
<1>2. Operated(o, internal_col, target, m)
        = [a \in CamAddr |-> IF a - b \in Row THEN RowResult(d, m, a - b) ELSE m[a]]
  BY <1>1 DEF Operated, Computed, OpMode
<1>3. [a \in CamAddr |-> IF a - b \in Row THEN RowResult(d, m, a - b) ELSE m[a]]
        = [a \in CamAddr |-> IF a - b \in Row THEN f[a - b] ELSE m[a]]
  <2> HIDE DEF d, b
  <2>1. \A r \in Row : RowResult(d, m, r) = f[r]
    BY DEF d
  <2>2. QED
    BY <2>1
<1>4. Row \in SUBSET Row
  OBVIOUS
<1>5. Writes([a \in CamAddr |-> IF a - b \in Row THEN f[a - b] ELSE m[a]], m, cam, half, Row, f)
  BY <1>4, WritesColumn
<1>6. QED
  BY <1>2, <1>3, <1>5

\* The commands of the kernels.
Product(m) == [r \in Row |-> Alu(MULT, m[CamBase(CAM_A, 0) + r], m[CamBase(CAM_B, 0) + r])]
SumRight(m) == [r \in Row |-> (m[CamBase(CAM_A, 1) + r] + m[CamBase(CAM_C, 1) + r]) % ByteMod]
SumWindow(m) == [r \in Row |-> (m[CamBase(CAM_A, 1) + r] + m[CamBase(CAM_C, 0) + r]) % ByteMod]

\* What the three commands of the kernels write.
LEMMA CommandEffects ==
  ASSUME NEW m \in Memory
  PROVE  /\ Writes(Effect(Compute(MULT, LEFT), m), m, CAM_C, 0, Row, Product(m))
         /\ Writes(Effect(Compute(ADD_D, RIGHT), m), m, CAM_C, 1, Row, SumRight(m))
         /\ Writes(Effect(ComputeA(ADD_D, 3), m), m, CAM_A, 1, Row, SumWindow(m))
<1>1. /\ Effect(Compute(MULT, LEFT), m) = Operated(MULT, LEFT, TARGET_C, m)
      /\ Effect(Compute(ADD_D, RIGHT), m) = Operated(ADD_D, RIGHT, TARGET_C, m)
      /\ Effect(ComputeA(ADD_D, 3), m) = Operated(ADD_D, 3, TARGET_A, m)
  BY DEF Effect, Compute, ComputeA
<1>2. CAM_A \in APCollunm /\ CAM_B \in APCollunm /\ CAM_C \in APCollunm
  BY DEF APCollunm, CAM_A, CAM_B, CAM_C
<1>3. \A c \in APCollunm, h \in {0, 1}, r \in Row : m[CamBase(c, h) + r] \in Byte
  BY AddressInColumns DEF Memory
<1>4. Writes(Operated(MULT, LEFT, TARGET_C, m), m, CAM_C, 0, Row, Product(m))
  <2>1. ASSUME NEW r \in Row
        PROVE  Product(m)[r] \in Byte /\ RowResult(OpMode(MULT, LEFT), m, r) = Product(m)[r]
    <3> DEFINE x == m[CamBase(CAM_A, 0) + r]
               y == m[CamBase(CAM_B, 0) + r]
    <3>1. x \in Byte /\ y \in Byte /\ Product(m)[r] = Alu(MULT, x, y)
      BY <1>2, <1>3 DEF Product
    <3>2. RowResult(OpMode(MULT, LEFT), m, r) = Alu(MULT, x, y)
      <4> DEFINE d == OpMode(MULT, LEFT)
      <4>1. /\ d.cmd = MULT /\ d.internal_col = LEFT /\ MULT \in OR .. MULT
            /\ d.cmd # SET /\ d.cmd # SEARCH /\ d.cmd # ADD_D
        BY DEF OpMode, set_mode_reg, MULT, OR, SET, SEARCH, ADD_D
      <4>2. RowResult(d, m, r) = Alu(MULT, m[Selected(LEFT, CAM_A) + r], m[Selected(LEFT, CAM_B) + r])
        <5> HIDE DEF d
        <5> QED BY <4>1, Zenon DEF RowResult
      <4>3. QED
        BY <1>2, <4>2, Sides
    <3>3. Alu(MULT, x, y) \in Byte
      <4> HIDE DEF x, y
      <4> QED BY <3>1, AluAssumption DEF MULT
    <3>4. QED
      BY <3>1, <3>2, <3>3
  <2>2. QED
    BY <1>2, <2>1, Sides, OperatedWrites
       DEF MULT, SET, APOperations, OR, ADD_D, LEFT, InternalCol, TARGET_C, TARGET_A
<1>5. Writes(Operated(ADD_D, RIGHT, TARGET_C, m), m, CAM_C, 1, Row, SumRight(m))
  <2>1. ASSUME NEW r \in Row
        PROVE  SumRight(m)[r] \in Byte /\ RowResult(OpMode(ADD_D, RIGHT), m, r) = SumRight(m)[r]
    BY <1>2, <1>3, Sides, ByteModAssumption
       DEF SumRight, RowResult, OpMode, set_mode_reg, MULT, OR, ADD_D, SET, SEARCH, Byte
  <2>2. QED
    BY <1>2, <2>1, Sides, OperatedWrites
       DEF SET, APOperations, OR, ADD_D, RIGHT, InternalCol, TARGET_C, TARGET_A
<1>6. Writes(Operated(ADD_D, 3, TARGET_A, m), m, CAM_A, 1, Row, SumWindow(m))
  <2>1. ASSUME NEW r \in Row
        PROVE  SumWindow(m)[r] \in Byte /\ RowResult(OpMode(ADD_D, 3), m, r) = SumWindow(m)[r]
    BY <1>2, <1>3, Sides, ByteModAssumption
       DEF SumWindow, RowResult, OpMode, set_mode_reg, MULT, OR, ADD_D, SET, SEARCH, Byte
  <2>2. QED
    BY <1>2, <2>1, Sides, OperatedWrites
       DEF SET, APOperations, OR, ADD_D, InternalCol, TARGET_C, TARGET_A
<1>7. QED
  BY <1>1, <1>4, <1>5, <1>6

All(v) == [r \in Row |-> v]

\* Filling a column writes every row of it.
LEMMA FilledWrites ==
  ASSUME NEW m \in Memory, NEW cam \in APCollunm, NEW half \in {0, 1}, NEW v \in Byte
  PROVE  Writes(Filled(cam, half, v, m), m, cam, half, Row, All(v))
<1> DEFINE b == CamBase(cam, half)
<1>1. b \in Nat /\ Row \subseteq Nat /\ CamAddr \subseteq Nat
  BY AddressInColumns, ColSizeAssumption DEF Row, CamAddr
<1>2. \A a \in CamAddr : a \in Column(cam, half) <=> a - b \in Row
  <2> HIDE DEF b
  <2>1. Column(cam, half) = {b + r : r \in Row}
    BY DEF Column, b
  <2>2. ASSUME NEW a \in CamAddr, a - b \in Row
        PROVE  a \in Column(cam, half)
    <3>1. a = b + (a - b)
      BY <1>1
    <3>2. QED
      BY <2>1, <2>2, <3>1
  <2>3. ASSUME NEW a \in CamAddr, NEW r \in Row, a = b + r
        PROVE  a - b \in Row
    <3>1. a - b = r
      BY <1>1, <2>3
    <3>2. QED
      BY <3>1
  <2>4. QED
    BY <2>1, <2>2, <2>3
<1>3. Filled(cam, half, v, m) = [a \in CamAddr |-> IF a - b \in Row THEN All(v)[a - b] ELSE m[a]]
  BY <1>2 DEF Filled, All
<1>4. Row \in SUBSET Row /\ \A r \in Row : All(v)[r] \in Byte
  BY DEF All
<1>5. QED
  BY <1>3, <1>4, WritesColumn

Given(V) == [r \in Rows(Len(V)) |-> V[r + 1]]
Copied(m, n) == [r \in Rows(n) |-> m[CamBase(CAM_C, 0) + r]]
MoveUp(n) == [fn |-> "ap_memcpy", to |-> CamBase(CAM_A, 1), from |-> CamBase(CAM_C, 0), bytes |-> n]

LEMMA RowsInColumn ==
  ASSUME NEW n \in Nat, n <= AP_COL_SIZE
  PROVE  Rows(n) \in SUBSET Row
  BY ColSizeAssumption DEF Rows, Row

\* Copies into a column, and between two columns.
LEMMA CopyEffects ==
  ASSUME NEW m \in Memory
  PROVE  /\ \A cam \in APCollunm, half \in {0, 1}, V \in Seq(Byte) :
              Len(V) <= AP_COL_SIZE =>
                Writes(Effect(In(CamBase(cam, half), V), m), m, cam, half, Rows(Len(V)), Given(V))
         /\ \A n \in Nat :
              n <= AP_COL_SIZE => Writes(Effect(MoveUp(n), m), m, CAM_A, 1, Rows(n), Copied(m, n))
<1>1. ASSUME NEW cam \in APCollunm, NEW half \in {0, 1}, NEW V \in Seq(Byte), Len(V) <= AP_COL_SIZE
      PROVE  Writes(Effect(In(CamBase(cam, half), V), m), m, cam, half, Rows(Len(V)), Given(V))
  <2> DEFINE b == CamBase(cam, half)
  <2>1. Effect(In(b, V), m) = Written(b, V, m)
    BY DEF Effect, In
  <2>2. Written(b, V, m) = [a \in CamAddr |-> IF a - b \in Rows(Len(V)) THEN Given(V)[a - b] ELSE m[a]]
    BY DEF Written, Given, Rows
  <2>3. Rows(Len(V)) \in SUBSET Row /\ \A r \in Rows(Len(V)) : Given(V)[r] \in Byte
    BY <1>1, RowsInColumn DEF Given, Rows
  <2>4. QED
    BY <2>1, <2>2, <2>3, WritesColumn
<1>2. ASSUME NEW n \in Nat, n <= AP_COL_SIZE
      PROVE  Writes(Effect(MoveUp(n), m), m, CAM_A, 1, Rows(n), Copied(m, n))
  <2> DEFINE b == CamBase(CAM_A, 1)
             d == CamBase(CAM_C, 0)
  <2>1. Effect(MoveUp(n), m) = Moved(b, d, n, m)
    BY DEF Effect, MoveUp
  <2>2. b \in Nat /\ d \in Nat /\ CAM_A \in APCollunm /\ CAM_C \in APCollunm
    BY ColSizeAssumption DEF CamBase, CAM_A, CAM_C, APCollunm
  <2>3. Moved(b, d, n, m) = [a \in CamAddr |-> IF a - b \in Rows(n) THEN Copied(m, n)[a - b] ELSE m[a]]
    <3> HIDE DEF b, d
    <3>1. \A a \in CamAddr : a \in Nat /\ d + a - b = d + (a - b)
      BY <2>2, ColSizeAssumption DEF CamAddr
    <3>2. QED
      BY <3>1 DEF Moved, Copied, Rows, d
  <2>4. Rows(n) \in SUBSET Row /\ \A r \in Rows(n) : Copied(m, n)[r] \in Byte
    BY <1>2, <2>2, RowsInColumn, AddressInColumns DEF Copied, Memory
  <2>5. QED
    BY <2>1, <2>2, <2>3, <2>4, WritesColumn
<1>3. QED
  BY <1>1, <1>2

\* Setting CAM A left, and the flushes.
LEMMA FillEffects ==
  ASSUME NEW m \in Memory
  PROVE  /\ \A v \in Byte : Writes(Effect(SetLeft(v), m), m, CAM_A, 0, Row, All(v))
         /\ Writes(Effect(Call("ap_flush_c_0"), m), m, CAM_C, 0, Row, All(0))
         /\ Writes(Effect(Call("ap_flush_c_1"), m), m, CAM_C, 1, Row, All(0))
         /\ Writes(Effect(Call("ap_flush_a_1"), m), m, CAM_A, 1, Row, All(0))
<1>1. 0 \in Byte /\ CAM_A \in APCollunm /\ CAM_C \in APCollunm
  BY ByteModAssumption DEF Byte, APCollunm, CAM_A, CAM_C
<1>2. \A v : Effect(SetLeft(v), m) = Filled(CAM_A, 0, v, m)
  BY DEF Effect, SetLeft
<1>3. /\ Effect(Call("ap_flush_c_0"), m) = Filled(CAM_C, 0, 0, m)
      /\ Effect(Call("ap_flush_c_1"), m) = Filled(CAM_C, 1, 0, m)
      /\ Effect(Call("ap_flush_a_1"), m) = Filled(CAM_A, 1, 0, m)
  BY DEF Effect, Call
<1>4. QED
  BY <1>1, <1>2, <1>3, FilledWrites

-----------------------------------------------------------------------------
(* Calls one after the other. *)

\* C after a call.
Kept(c, m, V) ==
  IF c.fn # "ap_memcpy_out" THEN V
  ELSE [x \in Index |-> IF x - c.at \in 0 .. c.bytes - 1 THEN Output(c, m)[x - c.at + 1] ELSE V[x]]

\* The calls t take columns m and vector V to m2 and V2.
Runs(t, m, V, m2, V2) ==
  \E S : /\ t \in Seq(S)
         /\ \E M, D :
              /\ M[0] = m /\ D[0] = V /\ M[Len(t)] = m2 /\ D[Len(t)] = V2
              /\ \A x \in 1 .. Len(t) : /\ M[x] = Effect(t[x], M[x - 1])
                                        /\ D[x] = Kept(t[x], M[x - 1], D[x - 1])

\* How a list of calls runs: none of them, and the first.
LEMMA RunsNone ==
  ASSUME NEW m, NEW V
  PROVE  /\ Runs(<< >>, m, V, m, V)
         /\ \A m2, V2 : Runs(<< >>, m, V, m2, V2) => m2 = m /\ V2 = V
<1>1. Len(<< >>) = 0
  OBVIOUS
<1>2. Runs(<< >>, m, V, m, V)
  <2> DEFINE M == [x \in {0} |-> m]
             D == [x \in {0} |-> V]
  <2>1. M[0] = m /\ D[0] = V
    OBVIOUS
  <2>2. << >> \in Seq({})
    OBVIOUS
  <2> HIDE DEF M, D
  <2>3. QED
    BY <1>1, <2>1, <2>2 DEF Runs
<1>3. QED
  BY <1>1, <1>2 DEF Runs

LEMMA RunsHead ==
  ASSUME NEW t, NEW m, NEW V, NEW m2, NEW V2, t # << >>, Runs(t, m, V, m2, V2)
  PROVE  Runs(Tail(t), Effect(Head(t), m), Kept(Head(t), m, V), m2, V2)
<1>1. PICK S : t \in Seq(S) /\ \E M, D :
              /\ M[0] = m /\ D[0] = V /\ M[Len(t)] = m2 /\ D[Len(t)] = V2
              /\ \A x \in 1 .. Len(t) : /\ M[x] = Effect(t[x], M[x - 1])
                                        /\ D[x] = Kept(t[x], M[x - 1], D[x - 1])
  BY DEF Runs
<1>2. PICK M, D :
              /\ M[0] = m /\ D[0] = V /\ M[Len(t)] = m2 /\ D[Len(t)] = V2
              /\ \A x \in 1 .. Len(t) : /\ M[x] = Effect(t[x], M[x - 1])
                                        /\ D[x] = Kept(t[x], M[x - 1], D[x - 1])
  BY <1>1
<1> DEFINE u == Tail(t)
           F == [x \in 0 .. Len(u) |-> M[x + 1]]
           G == [x \in 0 .. Len(u) |-> D[x + 1]]
<1>3. /\ u \in Seq(S) /\ Len(u) \in Nat /\ Len(t) = Len(u) + 1 /\ Head(t) = t[1]
      /\ \A x \in 1 .. Len(u) : u[x] = t[x + 1]
  BY <1>1
<1>4. M[1] = Effect(t[1], m) /\ D[1] = Kept(t[1], m, V)
  BY <1>2, <1>3
<1>5. \A x \in 1 .. Len(u) : /\ M[x + 1] = Effect(t[x + 1], M[x])
                             /\ D[x + 1] = Kept(t[x + 1], M[x], D[x])
  <2> HIDE DEF u
  <2>1. \A x \in 1 .. Len(u) : x + 1 \in 1 .. Len(t) /\ (x + 1) - 1 = x
    BY <1>3
  <2>2. QED
    BY <1>2, <2>1
<1>6. /\ F[0] = M[1] /\ G[0] = D[1] /\ F[Len(u)] = m2 /\ G[Len(u)] = V2
      /\ \A x \in 1 .. Len(u) : F[x] = M[x + 1] /\ F[x - 1] = M[x] /\ G[x] = D[x + 1] /\ G[x - 1] = D[x]
  <2> HIDE DEF u
  <2> QED BY <1>2, <1>3
<1> HIDE DEF u, F, G
<1>7. \A x \in 1 .. Len(u) : F[x] = Effect(u[x], F[x - 1]) /\ G[x] = Kept(u[x], F[x - 1], G[x - 1])
  BY <1>3, <1>5, <1>6
<1>8. Runs(u, M[1], D[1], m2, V2)
  BY <1>3, <1>6, <1>7 DEF Runs
<1>9. QED
  BY <1>3, <1>4, <1>8 DEF u

\* Calls that copy nothing out leave C alone.
Silent(t) == \A x \in 1 .. Len(t) : t[x].fn # "ap_memcpy_out"

LEMMA RunsSilent ==
  ASSUME NEW S, NEW t \in Seq(S), Silent(t), NEW V, NEW M,
         \A x \in 1 .. Len(t) : M[x] = Effect(t[x], M[x - 1])
  PROVE  Runs(t, M[0], V, M[Len(t)], V)
<1> DEFINE D == [x \in 0 .. Len(t) |-> V]
<1>1. Len(t) \in Nat
  OBVIOUS
<1>2. /\ D[0] = V /\ D[Len(t)] = V
      /\ \A x \in 1 .. Len(t) : D[x] = V /\ D[x - 1] = V
  BY <1>1
<1> HIDE DEF D
<1>3. \A x \in 1 .. Len(t) : D[x] = Kept(t[x], M[x - 1], D[x - 1])
  BY <1>2 DEF Silent, Kept
<1>4. QED
  BY <1>2, <1>3 DEF Runs

\* Joining two lists of calls.
LEMMA Joined ==
  ASSUME NEW S, NEW s \in Seq(S), NEW t \in Seq(S), NEW u \in Seq(S), Len(u) = Len(s) + Len(t),
         \A x \in 1 .. Len(s) : u[x] = s[x], \A x \in 1 .. Len(t) : u[Len(s) + x] = t[x]
  PROVE  s \o t = u
<1> DEFINE st == s \o t
<1>1. /\ st \in Seq(S) /\ Len(st) = Len(s) + Len(t)
      /\ \A x \in 1 .. Len(s) + Len(t) : st[x] = IF x <= Len(s) THEN s[x] ELSE t[x - Len(s)]
  BY ConcatProperties, Zenon
<1> HIDE DEF st
<1>2. ASSUME NEW x \in 1 .. Len(u)
      PROVE  st[x] = u[x]
  <2>1. Len(s) \in Nat /\ Len(t) \in Nat
    OBVIOUS
  <2>2. CASE x <= Len(s)
    BY <1>1, <2>1, <2>2
  <2>3. CASE ~ (x <= Len(s))
    <3>1. x - Len(s) \in 1 .. Len(t) /\ Len(s) + (x - Len(s)) = x
      BY <2>1, <2>3
    <3>2. QED
      BY <1>1, <2>3, <3>1
  <2>4. QED
    BY <2>2, <2>3
<1>3. st = u
  BY <1>1, <1>2, SeqEqual
<1>4. QED
  BY <1>3 DEF st

\* The lists of the loop bodies, joined from their parts.
LEMMA Tuples ==
  /\ \A a, b, c, d, e, f : << a >> \o << b, c, d, e, f >> = << a, b, c, d, e, f >>
  /\ \A a, b, c, d, e : << a >> \o << b, c, d, e >> = << a, b, c, d, e >>
  /\ \A a, b, c, d, e : << a, b >> \o << c, d, e >> = << a, b, c, d, e >>
<1>1. ASSUME NEW a, NEW b, NEW c, NEW d, NEW e, NEW f
      PROVE  << a >> \o << b, c, d, e, f >> = << a, b, c, d, e, f >>
  <2> DEFINE S == {a, b, c, d, e, f}
             s == << a >>
             t == << b, c, d, e, f >>
             u == << a, b, c, d, e, f >>
  <2>1. s \in Seq(S) /\ t \in Seq(S) /\ u \in Seq(S) /\ Len(s) = 1 /\ Len(t) = 5 /\ Len(u) = 6
    OBVIOUS
  <2>2. u[1] = s[1] /\ u[2] = t[1] /\ u[3] = t[2] /\ u[4] = t[3] /\ u[5] = t[4] /\ u[6] = t[5]
    OBVIOUS
  <2> HIDE DEF s, t, u, S
  <2>3. (\A x \in 1 .. Len(s) : u[x] = s[x]) /\ (\A x \in 1 .. Len(t) : u[Len(s) + x] = t[x])
    BY <2>1, <2>2
  <2>6. Len(u) = Len(s) + Len(t)
    BY <2>1
  <2>4. s \o t = u
    BY <2>1, <2>3, <2>6, Joined, Zenon
  <2>5. QED
    BY <2>4 DEF s, t, u
<1>2. ASSUME NEW a, NEW b, NEW c, NEW d, NEW e
      PROVE  << a >> \o << b, c, d, e >> = << a, b, c, d, e >>
  <2> DEFINE S == {a, b, c, d, e}
             s == << a >>
             t == << b, c, d, e >>
             u == << a, b, c, d, e >>
  <2>1. s \in Seq(S) /\ t \in Seq(S) /\ u \in Seq(S) /\ Len(s) = 1 /\ Len(t) = 4 /\ Len(u) = 5
    OBVIOUS
  <2>2. u[1] = s[1] /\ u[2] = t[1] /\ u[3] = t[2] /\ u[4] = t[3] /\ u[5] = t[4]
    OBVIOUS
  <2> HIDE DEF s, t, u, S
  <2>3. (\A x \in 1 .. Len(s) : u[x] = s[x]) /\ (\A x \in 1 .. Len(t) : u[Len(s) + x] = t[x])
    BY <2>1, <2>2
  <2>6. Len(u) = Len(s) + Len(t)
    BY <2>1
  <2>4. s \o t = u
    BY <2>1, <2>3, <2>6, Joined, Zenon
  <2>5. QED
    BY <2>4 DEF s, t, u
<1>3. ASSUME NEW a, NEW b, NEW c, NEW d, NEW e
      PROVE  << a, b >> \o << c, d, e >> = << a, b, c, d, e >>
  <2> DEFINE S == {a, b, c, d, e}
             s == << a, b >>
             t == << c, d, e >>
             u == << a, b, c, d, e >>
  <2>1. s \in Seq(S) /\ t \in Seq(S) /\ u \in Seq(S) /\ Len(s) = 2 /\ Len(t) = 3 /\ Len(u) = 5
    OBVIOUS
  <2>2. u[1] = s[1] /\ u[2] = s[2] /\ u[3] = t[1] /\ u[4] = t[2] /\ u[5] = t[3]
    OBVIOUS
  <2> HIDE DEF s, t, u, S
  <2>3. (\A x \in 1 .. Len(s) : u[x] = s[x]) /\ (\A x \in 1 .. Len(t) : u[Len(s) + x] = t[x])
    BY <2>1, <2>2
  <2>6. Len(u) = Len(s) + Len(t)
    BY <2>1
  <2>4. s \o t = u
    BY <2>1, <2>3, <2>6, Joined, Zenon
  <2>5. QED
    BY <2>4 DEF s, t, u
<1>4. QED
  BY <1>1, <1>2, <1>3

-----------------------------------------------------------------------------
(* The loop bodies. *)

AluMultiplies == \A x, y \in Byte : Alu(MULT, x, y) = (x * y) % ByteMod

\* The calls of the loop bodies.
MmCalls(W, v) == << In(CamBase(CAM_B, 0), W) >> \o ap_matrix_col_mm(v, Len(W))
WindowCalls(W, v) == << In(CamBase(CAM_B, 0), W) >> \o ap_matrix_col_mm_window(v)
V4Calls(W, X) ==
  << In(CamBase(CAM_A, 0), W), In(CamBase(CAM_B, 0), X) >>
    \o << Compute(MULT, LEFT), ComputeA(ADD_D, 3), Call("ap_flush_c_0") >>

\* Calls that add v times W to a right column.
AddsRow(t, m, V, cam, W, v) ==
  \E q \in Memory :
    /\ Runs(t, m, V, q, V)
    /\ \A r \in Rows(Len(W)) :
         q[CamBase(cam, 1) + r] = (m[CamBase(cam, 1) + r] + v * W[r + 1]) % ByteMod

\* Calls that add the products of the rows of W and X to CAM A right, and leave the rows above.
AddsProducts(t, m, V, W, X) ==
  \E q \in Memory :
    /\ Runs(t, m, V, q, V)
    /\ \A r \in Rows(Len(W)) :
         q[CamBase(CAM_A, 1) + r] = (m[CamBase(CAM_A, 1) + r] + W[r + 1] * X[r + 1]) % ByteMod
    /\ \A r \in Row \ Rows(Len(W)) :
         q[CamBase(CAM_A, 0) + r] = 0 /\ q[CamBase(CAM_A, 1) + r] = m[CamBase(CAM_A, 1) + r]

LEMMA Cams == CAM_A \in APCollunm /\ CAM_B \in APCollunm /\ CAM_C \in APCollunm
                /\ CAM_A # CAM_B /\ CAM_A # CAM_C /\ CAM_B # CAM_C
  BY DEF APCollunm, CAM_A, CAM_B, CAM_C

LEMMA BytesInMemory ==
  ASSUME NEW m \in Memory, NEW c \in APCollunm, NEW h \in {0, 1}, NEW r \in Row
  PROVE  m[CamBase(c, h) + r] \in Byte /\ m[CamBase(c, h) + r] \in Nat
  BY AddressInColumns, ByteModAssumption DEF Memory, Byte

\* Two reductions to a byte are one.
LEMMA AddProduct ==
  ASSUME NEW x \in Byte, NEW y \in Byte, NEW z \in Byte, AluMultiplies
  PROVE  /\ (Alu(MULT, x, y) + z) % ByteMod = (z + x * y) % ByteMod
         /\ z % ByteMod = z
<1>1. x * y \in Nat /\ z \in Nat /\ z < ByteMod /\ ByteMod \in Nat /\ ByteMod > 0
  BY ByteModAssumption DEF Byte
<1>2. \A p \in Nat : ((p % ByteMod) + z) % ByteMod = (z + p) % ByteMod
  BY <1>1
<1>3. Alu(MULT, x, y) = (x * y) % ByteMod
  BY DEF AluMultiplies
<1>4. QED
  BY <1>1, <1>2, <1>3

\* ap_mm's inner loop adds v times the row W to CAM C right.
LEMMA InnerOfMm ==
  ASSUME NEW m \in Memory, NEW W \in Seq(Byte), NEW v \in Byte,
         NEW V, Len(W) <= AP_COL_SIZE, AluMultiplies
  PROVE  AddsRow(MmCalls(W, v), m, V, CAM_C, W, v)
<1> DEFINE n == Len(W)
           t == MmCalls(W, v)
           m1 == Effect(In(CamBase(CAM_B, 0), W), m)
           m2 == Effect(SetLeft(v), m1)
           m3 == Effect(Compute(MULT, LEFT), m2)
           m4 == Effect(MoveUp(n), m3)
           m5 == Effect(Compute(ADD_D, RIGHT), m4)
           m6 == Effect(Call("ap_flush_c_0"), m5)
<1>1. Writes(m1, m, CAM_B, 0, Rows(n), Given(W))
  BY CopyEffects, Cams
<1>2. Writes(m2, m1, CAM_A, 0, Row, All(v))
  BY <1>1, FillEffects DEF Writes
<1>3. Writes(m3, m2, CAM_C, 0, Row, Product(m2))
  BY <1>2, CommandEffects DEF Writes
<1>4. Writes(m4, m3, CAM_A, 1, Rows(n), Copied(m3, n))
  BY <1>3, CopyEffects DEF Writes
<1>5. Writes(m5, m4, CAM_C, 1, Row, SumRight(m4))
  BY <1>4, CommandEffects DEF Writes
<1>6. Writes(m6, m5, CAM_C, 0, Row, All(0))
  BY <1>5, FillEffects DEF Writes
<1>7. Runs(t, m, V, m6, V)
  <2> DEFINE T == << In(CamBase(CAM_B, 0), W), SetLeft(v), Compute(MULT, LEFT), MoveUp(n),
                     Compute(ADD_D, RIGHT), Call("ap_flush_c_0") >>
             M == [x \in 0 .. 6 |-> << m, m1, m2, m3, m4, m5, m6 >>[x + 1]]
             S == {T[x] : x \in 1 .. 6}
  <2>1. t = T
    <3>1. ap_matrix_col_mm(v, n) = << SetLeft(v), Compute(MULT, LEFT), MoveUp(n), Compute(ADD_D, RIGHT),
                                      Call("ap_flush_c_0") >>
      BY DEF ap_matrix_col_mm, MoveUp
    <3>2. \A a, b, c, d, e, f : << a >> \o << b, c, d, e, f >> = << a, b, c, d, e, f >>
      BY Tuples
    <3> DEFINE a == In(CamBase(CAM_B, 0), W)
               b == SetLeft(v)
               c == Compute(MULT, LEFT)
               d == MoveUp(n)
               e == Compute(ADD_D, RIGHT)
               f == Call("ap_flush_c_0")
    <3>3. t = << a >> \o << b, c, d, e, f >> /\ T = << a, b, c, d, e, f >>
      BY <3>1 DEF MmCalls
    <3> HIDE DEF a, b, c, d, e, f, t, T
    <3>4. QED
      BY <3>2, <3>3
  <2>2. T \in Seq(S) /\ Len(T) = 6
    OBVIOUS
  <2>3. Silent(T)
    BY DEF Silent, In, SetLeft, Compute, MoveUp, Call
  <2>4. M[0] = m /\ M[6] = m6 /\ \A x \in 1 .. 6 : M[x] = Effect(T[x], M[x - 1])
    <3> HIDE DEF m1, m2, m3, m4, m5, m6
    <3>1. /\ M[0] = m /\ M[1] = m1 /\ M[2] = m2 /\ M[3] = m3 /\ M[4] = m4 /\ M[5] = m5
          /\ M[6] = m6
      OBVIOUS
    <3>2. /\ T[1] = In(CamBase(CAM_B, 0), W) /\ T[2] = SetLeft(v) /\ T[3] = Compute(MULT, LEFT)
          /\ T[4] = MoveUp(n) /\ T[5] = Compute(ADD_D, RIGHT) /\ T[6] = Call("ap_flush_c_0")
      OBVIOUS
    <3> HIDE DEF M, T
    <3>3. QED
      BY <3>1, <3>2 DEF m1, m2, m3, m4, m5, m6
  <2> HIDE DEF T, M, S, m6, t
  <2>5. QED
    BY <2>1, <2>2, <2>3, <2>4, RunsSilent
<1>8. ASSUME NEW r \in Rows(n)
      PROVE  m6[CamBase(CAM_C, 1) + r] = (m[CamBase(CAM_C, 1) + r] + v * W[r + 1]) % ByteMod
  <2> HIDE DEF m1, m2, m3, m4, m5, m6
  <2>1. r \in Row /\ n \in Nat /\ r + 1 \in 1 .. n /\ W[r + 1] \in Byte
    BY RowsInColumn DEF Rows
  <2>2. m1[CamBase(CAM_B, 0) + r] = W[r + 1] /\ m1[CamBase(CAM_C, 1) + r] = m[CamBase(CAM_C, 1) + r]
    BY <1>1, <2>1, Cams DEF Writes, Given
  <2>3. /\ m2[CamBase(CAM_A, 0) + r] = v /\ m2[CamBase(CAM_B, 0) + r] = W[r + 1]
        /\ m2[CamBase(CAM_C, 1) + r] = m[CamBase(CAM_C, 1) + r]
    BY <1>2, <2>1, <2>2, Cams DEF Writes, All
  <2>4. /\ m3[CamBase(CAM_C, 0) + r] = Alu(MULT, v, W[r + 1])
        /\ m3[CamBase(CAM_C, 1) + r] = m[CamBase(CAM_C, 1) + r]
    BY <1>3, <2>1, <2>3, Cams DEF Writes, Product
  <2>5. /\ m4[CamBase(CAM_A, 1) + r] = Alu(MULT, v, W[r + 1])
        /\ m4[CamBase(CAM_C, 1) + r] = m[CamBase(CAM_C, 1) + r]
    BY <1>4, <2>1, <2>4, Cams DEF Writes, Copied
  <2>6. m5[CamBase(CAM_C, 1) + r] = (Alu(MULT, v, W[r + 1]) + m[CamBase(CAM_C, 1) + r]) % ByteMod
    BY <1>5, <2>1, <2>5, Cams DEF Writes, SumRight
  <2>7. m6[CamBase(CAM_C, 1) + r] = m5[CamBase(CAM_C, 1) + r]
    BY <1>6, <2>1, Cams DEF Writes
  <2>8. m[CamBase(CAM_C, 1) + r] \in Byte
    BY <2>1, BytesInMemory, Cams
  <2>9. QED
    BY <2>1, <2>6, <2>7, <2>8, AddProduct
<1>9. m6 \in Memory
  BY <1>6 DEF Writes
<1>10. QED
  BY <1>7, <1>8, <1>9 DEF AddsRow

\* ap_mm_v2's adds it to CAM A right.
LEMMA InnerOfWindow ==
  ASSUME NEW m \in Memory, NEW W \in Seq(Byte), NEW v \in Byte,
         NEW V, Len(W) <= AP_COL_SIZE, AluMultiplies
  PROVE  AddsRow(WindowCalls(W, v), m, V, CAM_A, W, v)
<1> DEFINE n == Len(W)
           t == WindowCalls(W, v)
           m1 == Effect(In(CamBase(CAM_B, 0), W), m)
           m2 == Effect(SetLeft(v), m1)
           m3 == Effect(Compute(MULT, LEFT), m2)
           m4 == Effect(ComputeA(ADD_D, 3), m3)
           m5 == Effect(Call("ap_flush_c_0"), m4)
<1>1. Writes(m1, m, CAM_B, 0, Rows(n), Given(W))
  BY CopyEffects, Cams
<1>2. Writes(m2, m1, CAM_A, 0, Row, All(v))
  BY <1>1, FillEffects DEF Writes
<1>3. Writes(m3, m2, CAM_C, 0, Row, Product(m2))
  BY <1>2, CommandEffects DEF Writes
<1>4. Writes(m4, m3, CAM_A, 1, Row, SumWindow(m3))
  BY <1>3, CommandEffects DEF Writes
<1>5. Writes(m5, m4, CAM_C, 0, Row, All(0))
  BY <1>4, FillEffects DEF Writes
<1>6. Runs(t, m, V, m5, V)
  <2> DEFINE T == << In(CamBase(CAM_B, 0), W), SetLeft(v), Compute(MULT, LEFT), ComputeA(ADD_D, 3),
                     Call("ap_flush_c_0") >>
             M == [x \in 0 .. 5 |-> << m, m1, m2, m3, m4, m5 >>[x + 1]]
             S == {T[x] : x \in 1 .. 5}
  <2>1. t = T
    <3>1. ap_matrix_col_mm_window(v) = << SetLeft(v), Compute(MULT, LEFT), ComputeA(ADD_D, 3),
                                          Call("ap_flush_c_0") >>
      BY DEF ap_matrix_col_mm_window
    <3>2. \A a, b, c, d, e : << a >> \o << b, c, d, e >> = << a, b, c, d, e >>
      BY Tuples
    <3> DEFINE a == In(CamBase(CAM_B, 0), W)
               b == SetLeft(v)
               c == Compute(MULT, LEFT)
               d == ComputeA(ADD_D, 3)
               e == Call("ap_flush_c_0")
    <3>3. t = << a >> \o << b, c, d, e >> /\ T = << a, b, c, d, e >>
      BY <3>1 DEF WindowCalls
    <3> HIDE DEF a, b, c, d, e, t, T
    <3>4. QED
      BY <3>2, <3>3, Zenon
  <2>2. T \in Seq(S) /\ Len(T) = 5
    OBVIOUS
  <2>3. Silent(T)
    BY DEF Silent, In, SetLeft, Compute, ComputeA, Call
  <2>4. M[0] = m /\ M[5] = m5 /\ \A x \in 1 .. 5 : M[x] = Effect(T[x], M[x - 1])
    <3> HIDE DEF m1, m2, m3, m4, m5
    <3>1. /\ M[0] = m /\ M[1] = m1 /\ M[2] = m2 /\ M[3] = m3 /\ M[4] = m4 /\ M[5] = m5
      OBVIOUS
    <3>2. /\ T[1] = In(CamBase(CAM_B, 0), W) /\ T[2] = SetLeft(v) /\ T[3] = Compute(MULT, LEFT)
          /\ T[4] = ComputeA(ADD_D, 3) /\ T[5] = Call("ap_flush_c_0")
      OBVIOUS
    <3> HIDE DEF M, T
    <3>3. QED
      BY <3>1, <3>2 DEF m1, m2, m3, m4, m5
  <2> HIDE DEF T, M, S, m5, t
  <2>5. QED
    BY <2>1, <2>2, <2>3, <2>4, RunsSilent
<1>7. ASSUME NEW r \in Rows(n)
      PROVE  m5[CamBase(CAM_A, 1) + r] = (m[CamBase(CAM_A, 1) + r] + v * W[r + 1]) % ByteMod
  <2> HIDE DEF m1, m2, m3, m4, m5
  <2>1. r \in Row /\ n \in Nat /\ r + 1 \in 1 .. n /\ W[r + 1] \in Byte
    BY RowsInColumn DEF Rows
  <2>2. m1[CamBase(CAM_B, 0) + r] = W[r + 1] /\ m1[CamBase(CAM_A, 1) + r] = m[CamBase(CAM_A, 1) + r]
    BY <1>1, <2>1, Cams DEF Writes, Given
  <2>3. /\ m2[CamBase(CAM_A, 0) + r] = v /\ m2[CamBase(CAM_B, 0) + r] = W[r + 1]
        /\ m2[CamBase(CAM_A, 1) + r] = m[CamBase(CAM_A, 1) + r]
    BY <1>2, <2>1, <2>2, Cams DEF Writes, All
  <2>4. /\ m3[CamBase(CAM_C, 0) + r] = Alu(MULT, v, W[r + 1])
        /\ m3[CamBase(CAM_A, 1) + r] = m[CamBase(CAM_A, 1) + r]
    BY <1>3, <2>1, <2>3, Cams DEF Writes, Product
  <2>5. m[CamBase(CAM_A, 1) + r] \in Byte /\ Alu(MULT, v, W[r + 1]) \in Byte
    BY <2>1, BytesInMemory, Cams, AluAssumption DEF MULT
  <2>6. m4[CamBase(CAM_A, 1) + r] = (Alu(MULT, v, W[r + 1]) + m[CamBase(CAM_A, 1) + r]) % ByteMod
    <3>1. m4[CamBase(CAM_A, 1) + r] = (m[CamBase(CAM_A, 1) + r] + Alu(MULT, v, W[r + 1])) % ByteMod
      BY <1>4, <2>1, <2>4, Cams DEF Writes, SumWindow
    <3>2. m[CamBase(CAM_A, 1) + r] \in Nat /\ Alu(MULT, v, W[r + 1]) \in Nat
      BY <2>5, ByteModAssumption DEF Byte
    <3>3. QED
      BY <3>1, <3>2
  <2>7. m5[CamBase(CAM_A, 1) + r] = m4[CamBase(CAM_A, 1) + r]
    BY <1>5, <2>1, Cams DEF Writes
  <2>8. QED
    BY <2>1, <2>5, <2>6, <2>7, AddProduct
<1>8. m5 \in Memory
  BY <1>5 DEF Writes
<1>9. QED
  BY <1>6, <1>7, <1>8 DEF AddsRow

\* ap_mm_v4's adds the products of two spread vectors to CAM A right.
LEMMA BodyOfV4 ==
  ASSUME AluMultiplies, NEW m \in Memory, NEW W \in Seq(Byte), NEW X \in Seq(Byte), Len(X) = Len(W),
         Len(W) <= AP_COL_SIZE, NEW V,
         \A r \in Row \ Rows(Len(W)) : m[CamBase(CAM_A, 0) + r] = 0
  PROVE  AddsProducts(V4Calls(W, X), m, V, W, X)
<1> DEFINE n == Len(W)
           t == V4Calls(W, X)
           m1 == Effect(In(CamBase(CAM_A, 0), W), m)
           m2 == Effect(In(CamBase(CAM_B, 0), X), m1)
           m3 == Effect(Compute(MULT, LEFT), m2)
           m4 == Effect(ComputeA(ADD_D, 3), m3)
           m5 == Effect(Call("ap_flush_c_0"), m4)
<1>1. Writes(m1, m, CAM_A, 0, Rows(n), Given(W))
  BY CopyEffects, Cams
<1>2. Writes(m2, m1, CAM_B, 0, Rows(n), Given(X))
  <2> HIDE DEF m1
  <2>1. m1 \in Memory
    BY <1>1 DEF Writes
  <2>2. Writes(m2, m1, CAM_B, 0, Rows(Len(X)), Given(X))
    BY <2>1, CopyEffects, Cams
  <2>3. QED
    BY <2>2
<1>3. Writes(m3, m2, CAM_C, 0, Row, Product(m2))
  BY <1>2, CommandEffects DEF Writes
<1>4. Writes(m4, m3, CAM_A, 1, Row, SumWindow(m3))
  BY <1>3, CommandEffects DEF Writes
<1>5. Writes(m5, m4, CAM_C, 0, Row, All(0))
  BY <1>4, FillEffects DEF Writes
<1>6. Runs(t, m, V, m5, V)
  <2> DEFINE a == In(CamBase(CAM_A, 0), W)
             b == In(CamBase(CAM_B, 0), X)
             c == Compute(MULT, LEFT)
             d == ComputeA(ADD_D, 3)
             e == Call("ap_flush_c_0")
             T == << a, b, c, d, e >>
             M == [x \in 0 .. 5 |-> << m, m1, m2, m3, m4, m5 >>[x + 1]]
             S == {T[x] : x \in 1 .. 5}
  <2>1. t = T
    <3>1. \A f, g, h, k0, l0 : << f, g >> \o << h, k0, l0 >> = << f, g, h, k0, l0 >>
      BY Tuples
    <3>2. t = << a, b >> \o << c, d, e >>
      BY DEF V4Calls
    <3> HIDE DEF a, b, c, d, e, t
    <3>3. QED
      BY <3>1, <3>2, Zenon
  <2>2. T \in Seq(S) /\ Len(T) = 5
    OBVIOUS
  <2>3. Silent(T)
    BY DEF Silent, In, Compute, ComputeA, Call
  <2>4. M[0] = m /\ M[5] = m5 /\ \A x \in 1 .. 5 : M[x] = Effect(T[x], M[x - 1])
    <3>1. /\ M[0] = m /\ M[1] = m1 /\ M[2] = m2 /\ M[3] = m3 /\ M[4] = m4 /\ M[5] = m5
      <4> HIDE DEF m1, m2, m3, m4, m5
      <4> QED OBVIOUS
    <3>2. T[1] = a /\ T[2] = b /\ T[3] = c /\ T[4] = d /\ T[5] = e
      <4> HIDE DEF a, b, c, d, e
      <4> QED OBVIOUS
    <3> HIDE DEF M, T
    <3>3. QED
      BY <3>1, <3>2
  <2> HIDE DEF T, M, S, m5, t
  <2>5. QED
    BY <2>1, <2>2, <2>3, <2>4, RunsSilent
<1>7. ASSUME NEW r \in Rows(n)
      PROVE  m5[CamBase(CAM_A, 1) + r] = (m[CamBase(CAM_A, 1) + r] + W[r + 1] * X[r + 1]) % ByteMod
  <2> HIDE DEF m1, m2, m3, m4, m5
  <2>1. r \in Row /\ n \in Nat /\ r + 1 \in 1 .. n /\ W[r + 1] \in Byte /\ X[r + 1] \in Byte
    BY RowsInColumn DEF Rows
  <2>2. m1[CamBase(CAM_A, 0) + r] = W[r + 1] /\ m1[CamBase(CAM_A, 1) + r] = m[CamBase(CAM_A, 1) + r]
    BY <1>1, <2>1, Cams DEF Writes, Given
  <2>3. /\ m2[CamBase(CAM_A, 0) + r] = W[r + 1] /\ m2[CamBase(CAM_B, 0) + r] = X[r + 1]
        /\ m2[CamBase(CAM_A, 1) + r] = m[CamBase(CAM_A, 1) + r]
    BY <1>2, <2>1, <2>2, Cams DEF Writes, Given
  <2>4. /\ m3[CamBase(CAM_C, 0) + r] = Alu(MULT, W[r + 1], X[r + 1])
        /\ m3[CamBase(CAM_A, 1) + r] = m[CamBase(CAM_A, 1) + r]
    BY <1>3, <2>1, <2>3, Cams DEF Writes, Product
  <2>5. m[CamBase(CAM_A, 1) + r] \in Byte /\ Alu(MULT, W[r + 1], X[r + 1]) \in Byte
    BY <2>1, BytesInMemory, Cams, AluAssumption DEF MULT
  <2>6. m4[CamBase(CAM_A, 1) + r] = (Alu(MULT, W[r + 1], X[r + 1]) + m[CamBase(CAM_A, 1) + r]) % ByteMod
    <3>1. m4[CamBase(CAM_A, 1) + r] = (m[CamBase(CAM_A, 1) + r] + Alu(MULT, W[r + 1], X[r + 1])) % ByteMod
      BY <1>4, <2>1, <2>4, Cams DEF Writes, SumWindow
    <3>2. m[CamBase(CAM_A, 1) + r] \in Nat /\ Alu(MULT, W[r + 1], X[r + 1]) \in Nat
      BY <2>5, ByteModAssumption DEF Byte
    <3>3. QED
      BY <3>1, <3>2
  <2>7. m5[CamBase(CAM_A, 1) + r] = m4[CamBase(CAM_A, 1) + r]
    BY <1>5, <2>1, Cams DEF Writes
  <2>8. QED
    BY <2>1, <2>5, <2>6, <2>7, AddProduct
<1>8. ASSUME NEW r \in Row \ Rows(n)
      PROVE  m5[CamBase(CAM_A, 0) + r] = 0 /\ m5[CamBase(CAM_A, 1) + r] = m[CamBase(CAM_A, 1) + r]
  <2> HIDE DEF m1, m2, m3, m4, m5
  <2>1. m1[CamBase(CAM_A, 0) + r] = 0 /\ m1[CamBase(CAM_A, 1) + r] = m[CamBase(CAM_A, 1) + r]
    BY <1>1, Cams DEF Writes
  <2>2. m2[CamBase(CAM_A, 0) + r] = 0 /\ m2[CamBase(CAM_A, 1) + r] = m[CamBase(CAM_A, 1) + r]
    BY <1>2, <2>1, Cams DEF Writes
  <2>3. m2[CamBase(CAM_B, 0) + r] \in Byte /\ 0 \in Byte /\ m[CamBase(CAM_A, 1) + r] \in Byte
    BY <1>2, BytesInMemory, Cams, ByteModAssumption DEF Writes, Byte
  <2>4. Product(m2)[r] = (0 * m2[CamBase(CAM_B, 0) + r]) % ByteMod
    BY <2>2, <2>3 DEF Product, AluMultiplies
  <2>5. Product(m2)[r] = 0
    BY <2>3, <2>4, ByteModAssumption DEF Byte
  <2>6. /\ m3[CamBase(CAM_C, 0) + r] = 0 /\ m3[CamBase(CAM_A, 0) + r] = 0
        /\ m3[CamBase(CAM_A, 1) + r] = m[CamBase(CAM_A, 1) + r]
    BY <1>3, <2>2, <2>5, Cams DEF Writes
  <2>7. /\ m4[CamBase(CAM_A, 0) + r] = 0
        /\ m4[CamBase(CAM_A, 1) + r] = (m[CamBase(CAM_A, 1) + r] + 0) % ByteMod
    BY <1>4, <2>6, Cams DEF Writes, SumWindow
  <2>8. m4[CamBase(CAM_A, 1) + r] = m[CamBase(CAM_A, 1) + r]
    <3>1. \A x \in Byte : (x + 0) % ByteMod = x
      BY ByteModAssumption DEF Byte
    <3>2. QED
      BY <2>3, <2>7, <3>1
  <2>9. QED
    BY <1>5, <2>7, <2>8, Cams DEF Writes
<1>9. m5 \in Memory
  BY <1>5 DEF Writes
<1>10. QED
  <2> HIDE DEF m1, m2, m3, m4, m5, t
  <2>1. /\ Runs(t, m, V, m5, V)
        /\ \A r \in Rows(n) : m5[CamBase(CAM_A, 1) + r] = (m[CamBase(CAM_A, 1) + r] + W[r + 1] * X[r + 1]) % ByteMod
        /\ \A r \in Row \ Rows(n) : m5[CamBase(CAM_A, 0) + r] = 0 /\ m5[CamBase(CAM_A, 1) + r] = m[CamBase(CAM_A, 1) + r]
    BY <1>6, <1>7, <1>8
  <2>2. QED
    BY <1>9, <2>1 DEF t, AddsProducts

\* C after n bytes of a column's right half are copied to it from `at' on.
OutOf(V, at, n, m, cam) ==
  [x \in Index |-> IF x - at \in Rows(n) THEN m[CamBase(cam, 1) + (x - at)] ELSE V[x]]

\* A copy out of a right column puts its rows into C.
LEMMA CopiesOut ==
  ASSUME NEW m, NEW V, NEW at \in Nat, NEW n \in Nat, NEW cam \in APCollunm
  PROVE  /\ Effect(Out(at, CamBase(cam, 1), n), m) = m
         /\ Kept(Out(at, CamBase(cam, 1), n), m, V) = OutOf(V, at, n, m, cam)
<1> DEFINE b == CamBase(cam, 1)
           c == Out(at, b, n)
<1>1. c.fn = "ap_memcpy_out" /\ c.from = b /\ c.bytes = n /\ c.at = at
  BY DEF Out
<1>2. b \in Nat
  BY ColSizeAssumption DEF CamBase, APCollunm, CAM_A, CAM_C
<1> HIDE DEF b, c
<1>3. Effect(c, m) = m
  BY <1>1 DEF Effect
<1>4. Output(c, m) = Bytes(b, n, m)
  BY <1>1 DEF Output
<1>5. ASSUME NEW x \in Index, x - at \in 0 .. n - 1
      PROVE  Output(c, m)[x - at + 1] = m[b + (x - at)]
  <2>1. x - at + 1 \in 1 .. n /\ b + (x - at + 1) - 1 = b + (x - at)
    BY <1>2, <1>5
  <2>2. QED
    BY <1>4, <2>1 DEF Bytes
<1>6. Kept(c, m, V) = OutOf(V, at, n, m, cam)
  BY <1>1, <1>5 DEF Kept, OutOf, Rows, b
<1>7. QED
  BY <1>3, <1>6 DEF c, b

LEMMA RunsOne ==
  ASSUME NEW c, NEW m, NEW V
  PROVE  Runs(<< c >>, m, V, Effect(c, m), Kept(c, m, V))
<1> DEFINE t == << c >>
           M == [x \in 0 .. 1 |-> IF x = 0 THEN m ELSE Effect(c, m)]
           D == [x \in 0 .. 1 |-> IF x = 0 THEN V ELSE Kept(c, m, V)]
<1>1. t \in Seq({c}) /\ Len(t) = 1 /\ t[1] = c
  OBVIOUS
<1>2. M[0] = m /\ M[1] = Effect(c, m) /\ D[0] = V /\ D[1] = Kept(c, m, V)
  OBVIOUS
<1> HIDE DEF t, M, D
<1>3. \A x \in 1 .. Len(t) : M[x] = Effect(t[x], M[x - 1]) /\ D[x] = Kept(t[x], M[x - 1], D[x - 1])
  BY <1>1, <1>2
<1>4. Runs(t, M[0], D[0], M[1], D[1])
  BY <1>1, <1>3 DEF Runs
<1>5. QED
  BY <1>2, <1>4 DEF t

LEMMA RunsTwo ==
  ASSUME NEW c, NEW d, NEW m, NEW V
  PROVE  Runs(<< c, d >>, m, V, Effect(d, Effect(c, m)), Kept(d, Effect(c, m), Kept(c, m, V)))
<1> DEFINE t == << c, d >>
           m1 == Effect(c, m)
           V1 == Kept(c, m, V)
           M == [x \in 0 .. 2 |-> << m, m1, Effect(d, m1) >>[x + 1]]
           D == [x \in 0 .. 2 |-> << V, V1, Kept(d, m1, V1) >>[x + 1]]
<1>1. t \in Seq({c, d}) /\ Len(t) = 2 /\ t[1] = c /\ t[2] = d
  OBVIOUS
<1>2. /\ M[0] = m /\ M[1] = m1 /\ M[2] = Effect(d, m1)
      /\ D[0] = V /\ D[1] = V1 /\ D[2] = Kept(d, m1, V1)
  <2> HIDE DEF m1, V1
  <2> QED OBVIOUS
<1> HIDE DEF t, M, D
<1>3. \A x \in 1 .. Len(t) : M[x] = Effect(t[x], M[x - 1]) /\ D[x] = Kept(t[x], M[x - 1], D[x - 1])
  BY <1>1, <1>2
<1>4. Runs(t, M[0], D[0], M[2], D[2])
  BY <1>1, <1>3 DEF Runs
<1>5. QED
  BY <1>2, <1>4 DEF t

\* The end of a row: copied out, and the accumulator flushed.
LEMMA RowOut ==
  ASSUME NEW m \in Memory, NEW V, NEW at \in Nat, NEW n \in Nat
  PROVE  /\ \E q : /\ Runs(<< Out(at, CamBase(CAM_C, 1), n), Call("ap_flush_c_1") >>, m, V, q,
                            OutOf(V, at, n, m, CAM_C))
                    /\ Writes(q, m, CAM_C, 1, Row, All(0))
         /\ \E q : /\ Runs(<< Out(at, CamBase(CAM_A, 1), n), Call("ap_flush_a_1") >>, m, V, q,
                            OutOf(V, at, n, m, CAM_A))
                    /\ Writes(q, m, CAM_A, 1, Row, All(0))
         /\ Runs(<< Out(at, CamBase(CAM_A, 1), n) >>, m, V, m, OutOf(V, at, n, m, CAM_A))
<1>1. \A X : Kept(Call("ap_flush_c_1"), m, X) = X /\ Kept(Call("ap_flush_a_1"), m, X) = X
  BY DEF Kept, Call
<1>2. ASSUME NEW cam \in APCollunm, NEW f, \A X : Kept(f, m, X) = X
      PROVE  Runs(<< Out(at, CamBase(cam, 1), n), f >>, m, V, Effect(f, m), OutOf(V, at, n, m, cam))
  BY <1>2, CopiesOut, RunsTwo
<1>3. Runs(<< Out(at, CamBase(CAM_A, 1), n) >>, m, V, m, OutOf(V, at, n, m, CAM_A))
  BY Cams, CopiesOut, RunsOne
<1>4. QED
  BY <1>1, <1>2, <1>3, Cams, FillEffects

Blank == [a \in CamAddr |-> 0]

\* warmup_ap leaves zeros.
LEMMA WarmedUp ==
  ASSUME NEW m, NEW V
  PROVE  /\ Runs(<< Call("warmup_ap") >>, m, V, Blank, V)
         /\ Blank \in Memory
         /\ \A c \in APCollunm, h \in {0, 1}, r \in Row : Blank[CamBase(c, h) + r] = 0
<1>1. Effect(Call("warmup_ap"), m) = Blank /\ Kept(Call("warmup_ap"), m, V) = V
  BY DEF Effect, Call, Kept, Blank
<1>2. QED
  BY <1>1, RunsOne, AddressInColumns, ByteModAssumption DEF Blank, Memory, Byte

-----------------------------------------------------------------------------
(* The invariant: the calls still to be made lead to columns in which the   *)
(* accumulator holds the partial sums.                                      *)

Vector == [Index -> Byte]

Shape ==
  /\ kernel \in {"ap_mm", "ap_mm_v2", "ap_mm_v4"} /\ dim \in Dims /\ Accepts(kernel, dim)
  /\ A \in Vector /\ B \in Vector
  /\ i \in 0 .. m_len /\ j \in 0 .. k_len
  /\ (i = m_len \/ kernel = "ap_mm_v4") => j = 0
  /\ phase \in {"kernel", "done"} /\ (phase = "done" => i = m_len)

\* The right half of a CAM holds row x of the product, summed up to its t-th term.
Accumulated(m, cam, x, t) == \A r \in Rows(n_len) : m[CamBase(cam, 1) + r] = Dot(x, r, t)

\* CAM A right holds the product, summed up to its t-th term, and zeros above, where its left
\* half holds zeros.
Updated(m, t) ==
  /\ \A x \in Rows(m_len * n_len) : m[CamBase(CAM_A, 1) + x] = Dot(x \div n_len, x % n_len, t)
  /\ \A x \in Row \ Rows(m_len * n_len) : m[CamBase(CAM_A, 0) + x] = 0 /\ m[CamBase(CAM_A, 1) + x] = 0

\* The first x rows of the product.
RowsDone(x) == [y \in Index |-> IF y < x * n_len THEN matmul_cpu[y] ELSE 0]

Good(m, V) ==
  /\ m \in Memory
  /\ kernel = "ap_mm" => Accumulated(m, CAM_C, i, j) /\ V = RowsDone(i)
  /\ kernel = "ap_mm_v2" => Accumulated(m, CAM_A, i, j) /\ V = RowsDone(i)
  /\ kernel = "ap_mm_v4" =>
       IF phase = "kernel" THEN Updated(m, i) /\ V = Zero ELSE V = matmul_cpu

IInv == Shape /\ \E m, V : Runs(todo, mem, C, m, V) /\ Good(m, V)

\* What the dimensions bound.
LEMMA DimsPositive ==
  ASSUME DimsAssumption, Shape
  PROVE  /\ m_len \in Nat /\ k_len \in Nat /\ n_len \in Nat /\ m_len > 0 /\ k_len > 0 /\ n_len > 0
         /\ AP_COL_SIZE \in Nat /\ m_len * k_len <= AP_COL_SIZE /\ k_len * n_len <= AP_COL_SIZE
         /\ m_len * n_len <= AP_COL_SIZE /\ n_len <= AP_COL_SIZE /\ Index = Row
         /\ m_len * k_len \in Nat /\ k_len * n_len \in Nat /\ m_len * n_len \in Nat
<1>1. /\ m_len \in Nat /\ k_len \in Nat /\ n_len \in Nat /\ m_len > 0 /\ k_len > 0 /\ n_len > 0
      /\ m_len * k_len <= AP_COL_SIZE /\ k_len * n_len <= AP_COL_SIZE /\ m_len * n_len <= AP_COL_SIZE
  BY DEF Shape, DimsAssumption, m_len, k_len, n_len
<1>2. \A x, y \in Nat : x * y \in Nat /\ (x > 0 => y <= x * y)
  OBVIOUS
<1>3. AP_COL_SIZE \in Nat /\ Index = Row
  BY ColSizeAssumption DEF Index, Row
<1> HIDE DEF m_len, k_len, n_len
<1>4. k_len * n_len \in Nat /\ n_len <= k_len * n_len /\ m_len * n_len \in Nat /\ m_len * k_len \in Nat
  BY <1>1, <1>2
<1>5. n_len <= AP_COL_SIZE
  BY <1>1, <1>3, <1>4
<1>6. QED
  BY <1>1, <1>3, <1>4, <1>5

\* An element of a matrix is inside it.
LEMMA InsideMatrix ==
  ASSUME NEW x \in Nat, NEW w \in Nat, NEW y \in Nat, NEW h \in Nat, x < h, y < w
  PROVE  x * w \in Nat /\ x * w + y \in Nat /\ x * w + y < h * w /\ x * w + w <= h * w
<1>1. x * w + w <= h * w /\ x * w \in Nat
  OBVIOUS
<1>2. QED
  BY <1>1

\* Its row and its column.
LEMMA RowAndColumn ==
  ASSUME NEW x \in Nat, NEW w \in Nat, NEW y \in Nat, y < w
  PROVE  (x * w + y) \div w = x /\ (x * w + y) % w = y
  OBVIOUS

\* A sum of no products, and of one more.
LEMMA DotNone ==
  ASSUME DimsAssumption, Shape, NEW x \in Nat, NEW y
  PROVE  Dot(x, y, 0) = 0
<1>1. x * k_len \in Int
  BY DimsPositive
<1>2. QED
  BY <1>1, DotStep

LEMMA DotNext ==
  ASSUME DimsAssumption, Shape, NEW x \in Nat, NEW y, NEW t \in Nat
  PROVE  Dot(x, y, t + 1) = (Dot(x, y, t) + A[x * k_len + t] * B[t * n_len + y]) % ByteMod
<1>1. x * k_len \in Int
  BY DimsPositive
<1>2. QED
  BY <1>1, DotStep

\* A row of B, its bytes and its length.
LEMMA RowOfB ==
  ASSUME DimsAssumption, Shape, j < k_len
  PROVE  /\ From(B, j * n_len, n_len) \in Seq(Byte) /\ Len(From(B, j * n_len, n_len)) = n_len
         /\ \A r \in Rows(n_len) : From(B, j * n_len, n_len)[r + 1] = B[j * n_len + r]
<1> DEFINE W == From(B, j * n_len, n_len)
           b == j * n_len
<1>1. j \in Nat /\ n_len \in Nat /\ k_len \in Nat /\ n_len > 0
  BY DimsPositive DEF Shape
<1>2. \A r \in 0 .. n_len - 1 : b \in Nat /\ b + r \in Nat /\ b + r < k_len * n_len
  BY <1>1, InsideMatrix
<1>3. \A r \in 0 .. n_len - 1 : b + r \in Index
  <2>1. k_len * n_len <= AP_COL_SIZE /\ AP_COL_SIZE \in Nat /\ k_len * n_len \in Nat
    BY DimsPositive
  <2> HIDE DEF b
  <2>2. QED
    BY <1>2, <2>1 DEF Index
<1>4. b \in Nat
  BY <1>1, <1>2
<1> HIDE DEF b
<1>5. \A x \in 1 .. n_len : x - 1 \in 0 .. n_len - 1 /\ b + x - 1 = b + (x - 1)
  BY <1>1, <1>4
<1>6. \A x \in 1 .. n_len : B[b + x - 1] \in Byte
  <2>1. \A x \in 1 .. n_len : b + x - 1 \in Index
    BY <1>3, <1>5
  <2>2. QED
    BY <2>1 DEF Shape, Vector
<1>7. W = [x \in 1 .. n_len |-> B[b + x - 1]]
  BY DEF From, b
<1> HIDE DEF W
<1>8. W \in Seq(Byte) /\ Len(W) = n_len
  BY <1>1, <1>6, <1>7
<1>9. \A r \in Rows(n_len) : W[r + 1] = B[b + r]
  <2>1. \A r \in Rows(n_len) : r + 1 \in 1 .. n_len /\ b + (r + 1) - 1 = b + r
    BY <1>1, <1>4 DEF Rows
  <2>2. QED
    BY <1>7, <2>1
<1>10. QED
  BY <1>8, <1>9 DEF W, b

\* The factor is a byte.
LEMMA Factor ==
  ASSUME DimsAssumption, Shape, i < m_len, j < k_len
  PROVE  i \in Nat /\ j \in Nat /\ A[i * k_len + j] \in Byte
<1>1. i \in Nat /\ j \in Nat /\ m_len \in Nat /\ k_len \in Nat
  BY DimsPositive DEF Shape
<1>2. i * k_len + j \in Nat /\ i * k_len + j < m_len * k_len
  BY <1>1, InsideMatrix
<1>3. i * k_len + j \in Index
  BY <1>2, DimsPositive DEF Index
<1>4. QED
  BY <1>1, <1>3 DEF Shape, Vector

\* A turn of the inner loop, of ap_mm or ap_mm_v2, adds the next product to every sum of the row.
LEMMA MmInner ==
  ASSUME AluMultiplies, DimsAssumption, Shape, NEW m \in Memory, NEW V, i < m_len, j < k_len
  PROVE  /\ Accumulated(m, CAM_C, i, j) =>
              \E q \in Memory :
                /\ Runs(MmCalls(From(B, j * n_len, n_len), A[i * k_len + j]), m, V, q, V)
                /\ Accumulated(q, CAM_C, i, j + 1)
         /\ Accumulated(m, CAM_A, i, j) =>
              \E q \in Memory :
                /\ Runs(WindowCalls(From(B, j * n_len, n_len), A[i * k_len + j]), m, V, q, V)
                /\ Accumulated(q, CAM_A, i, j + 1)
<1>0. PICK W, v : W = From(B, j * n_len, n_len) /\ v = A[i * k_len + j]
  OBVIOUS
<1>1. W \in Seq(Byte) /\ Len(W) = n_len /\ \A r \in Rows(n_len) : W[r + 1] = B[j * n_len + r]
  BY <1>0, RowOfB
<1>2. v \in Byte /\ i \in Nat /\ j \in Nat /\ n_len <= AP_COL_SIZE
  BY <1>0, Factor, DimsPositive
<1>3. \A r : Dot(i, r, j + 1) = (Dot(i, r, j) + v * B[j * n_len + r]) % ByteMod
  BY <1>0, <1>2, DotNext
<1>7. Len(W) <= AP_COL_SIZE
  BY <1>1, <1>2
<1>8. AddsRow(MmCalls(W, v), m, V, CAM_C, W, v) /\ AddsRow(WindowCalls(W, v), m, V, CAM_A, W, v)
  BY <1>1, <1>2, <1>7, InnerOfMm, InnerOfWindow
<1>4. ASSUME Accumulated(m, CAM_C, i, j)
      PROVE  \E q \in Memory :
               /\ Runs(MmCalls(W, v), m, V, q, V)
               /\ Accumulated(q, CAM_C, i, j + 1)
  <2>1. PICK q \in Memory :
           /\ Runs(MmCalls(W, v), m, V, q, V)
           /\ \A r \in Rows(Len(W)) :
                q[CamBase(CAM_C, 1) + r] = (m[CamBase(CAM_C, 1) + r] + v * W[r + 1]) % ByteMod
    BY <1>8 DEF AddsRow
  <2>2. Accumulated(q, CAM_C, i, j + 1)
    BY <1>1, <1>3, <1>4, <2>1 DEF Accumulated
  <2>3. QED
    BY <1>1, <2>1, <2>2
<1>5. ASSUME Accumulated(m, CAM_A, i, j)
      PROVE  \E q \in Memory :
               /\ Runs(WindowCalls(W, v), m, V, q, V)
               /\ Accumulated(q, CAM_A, i, j + 1)
  <2>1. PICK q \in Memory :
           /\ Runs(WindowCalls(W, v), m, V, q, V)
           /\ \A r \in Rows(Len(W)) :
                q[CamBase(CAM_A, 1) + r] = (m[CamBase(CAM_A, 1) + r] + v * W[r + 1]) % ByteMod
    BY <1>8 DEF AddsRow
  <2>2. Accumulated(q, CAM_A, i, j + 1)
    BY <1>1, <1>3, <1>5, <2>1 DEF Accumulated
  <2>3. QED
    BY <2>1, <2>2
<1>6. QED
  BY <1>0, <1>4, <1>5

\* The vectors that ap_mm_v4 spreads over the rows.
Spread(x) == [r \in 1 .. m_len * n_len |-> A[((r - 1) \div n_len) * m_len + x]]
Repeated(x) == [r \in 1 .. m_len * n_len |-> B[(x * n_len) + ((r - 1) % n_len)]]

\* Where a row of the product is in C.
LEMMA RowOfProduct ==
  ASSUME DimsAssumption, Shape, NEW r \in Rows(m_len * n_len)
  PROVE  /\ r \in Row /\ r \div n_len \in Nat /\ r % n_len \in Nat /\ r % n_len < n_len /\ r \div n_len < m_len
         /\ r = (r \div n_len) * n_len + (r % n_len)
<1>1. /\ m_len * n_len \in Nat /\ m_len * n_len <= AP_COL_SIZE /\ n_len \in Nat /\ n_len > 0 /\ m_len \in Nat
      /\ AP_COL_SIZE \in Nat
  BY DimsPositive
<1>2. r \in Nat /\ r < m_len * n_len
  BY <1>1 DEF Rows
<1>3. \A n, h \in Nat : (n > 0 /\ r < h * n) =>
         /\ r \div n \in Nat /\ r % n \in Nat /\ r % n < n /\ r = (r \div n) * n + (r % n)
         /\ r \div n < h
  BY <1>2
<1>4. r \in Row
  <2> DEFINE z == m_len * n_len
  <2>1. r < z /\ z <= AP_COL_SIZE /\ z \in Nat
    BY <1>1, <1>2
  <2> HIDE DEF z
  <2>2. QED
    BY <1>1, <1>2, <2>1 DEF Row
<1>5. QED
  BY <1>1, <1>2, <1>3, <1>4

\* The vectors of mm_cols_setup: their bytes and their length.
LEMMA SpreadRows ==
  ASSUME DimsAssumption, Shape, NEW x \in Nat, x < k_len, m_len = k_len
  PROVE  /\ Spread(x) \in Seq(Byte) /\ Repeated(x) \in Seq(Byte)
         /\ Len(Spread(x)) = m_len * n_len /\ Len(Repeated(x)) = m_len * n_len
         /\ \A r \in Rows(m_len * n_len) : /\ Spread(x)[r + 1] = A[(r \div n_len) * k_len + x]
                                           /\ Repeated(x)[r + 1] = B[x * n_len + (r % n_len)]
<1> DEFINE z == m_len * n_len
<1>1. /\ z \in Nat /\ n_len \in Nat /\ n_len > 0 /\ m_len \in Nat /\ k_len \in Nat
      /\ m_len * k_len <= AP_COL_SIZE /\ k_len * n_len <= AP_COL_SIZE /\ AP_COL_SIZE \in Nat
      /\ m_len * k_len \in Nat /\ k_len * n_len \in Nat
  BY DimsPositive
<1>2. ASSUME NEW r \in Rows(z)
      PROVE  A[(r \div n_len) * k_len + x] \in Byte /\ B[x * n_len + (r % n_len)] \in Byte
  <2>1. r \div n_len \in Nat /\ r % n_len \in Nat /\ r % n_len < n_len /\ r \div n_len < m_len
    BY RowOfProduct
  <2>2. /\ (r \div n_len) * k_len + x \in Nat /\ (r \div n_len) * k_len + x < m_len * k_len
        /\ x * n_len + (r % n_len) \in Nat /\ x * n_len + (r % n_len) < k_len * n_len
    <3>1. \A q, u \in Nat : (q < m_len /\ u < n_len) =>
            /\ q * k_len + x \in Nat /\ q * k_len + x < m_len * k_len
            /\ x * n_len + u \in Nat /\ x * n_len + u < k_len * n_len
      BY <1>1, InsideMatrix
    <3>2. QED
      BY <2>1, <3>1
  <2>3. (r \div n_len) * k_len + x \in Index /\ x * n_len + (r % n_len) \in Index
    <3>1. \A p, q \in Nat : (p < q /\ q <= AP_COL_SIZE) => p \in Index
      BY <1>1 DEF Index
    <3>2. QED
      BY <1>1, <2>2, <3>1
  <2>4. QED
    BY <2>3 DEF Shape, Vector
<1> HIDE DEF z
<1>3. \A r \in 1 .. z : r - 1 \in Rows(z)
  BY <1>1 DEF Rows
<1>4. /\ Spread(x) = [r \in 1 .. z |-> A[((r - 1) \div n_len) * k_len + x]]
      /\ Repeated(x) = [r \in 1 .. z |-> B[x * n_len + ((r - 1) % n_len)]]
  BY DEF Spread, Repeated, z
<1>5. \A r \in 1 .. z : A[((r - 1) \div n_len) * k_len + x] \in Byte /\ B[x * n_len + ((r - 1) % n_len)] \in Byte
  BY <1>2, <1>3
<1>6. Spread(x) \in Seq(Byte) /\ Repeated(x) \in Seq(Byte) /\ Len(Spread(x)) = z /\ Len(Repeated(x)) = z
  BY <1>1, <1>4, <1>5
<1>7. \A r \in Rows(z) : r + 1 \in 1 .. z /\ (r + 1) - 1 = r
  BY <1>1 DEF Rows
<1>8. \A r \in Rows(z) : /\ Spread(x)[r + 1] = A[(r \div n_len) * k_len + x]
                         /\ Repeated(x)[r + 1] = B[x * n_len + (r % n_len)]
  BY <1>4, <1>7
<1>9. QED
  BY <1>6, <1>8 DEF z

\* A turn of ap_mm_v4's loop adds the next product to every sum of the matrix.
LEMMA V4Body ==
  ASSUME AluMultiplies, DimsAssumption, Shape, NEW m \in Memory,
         NEW V, i < m_len, m_len = k_len, Updated(m, i)
  PROVE  \E q \in Memory : /\ Runs(mm_cols_setup(i) \o << Compute(MULT, LEFT), ComputeA(ADD_D, 3), Call("ap_flush_c_0") >>,
                                   m, V, q, V)
                           /\ Updated(q, i + 1)
<1>1. PICK W, X, z : W = Spread(i) /\ X = Repeated(i) /\ z = m_len * n_len
  OBVIOUS
<1>2. i \in Nat /\ z \in Nat /\ z <= AP_COL_SIZE
  BY <1>1, DimsPositive DEF Shape
<1>3. /\ W \in Seq(Byte) /\ X \in Seq(Byte) /\ Len(W) = z /\ Len(X) = z
      /\ \A r \in Rows(z) : W[r + 1] = A[(r \div n_len) * k_len + i] /\ X[r + 1] = B[i * n_len + (r % n_len)]
  BY <1>1, <1>2, SpreadRows
<1>4. \A r \in Row \ Rows(Len(W)) : m[CamBase(CAM_A, 0) + r] = 0
  BY <1>1, <1>3 DEF Updated
<1>5. AddsProducts(V4Calls(W, X), m, V, W, X)
  BY <1>2, <1>3, <1>4, BodyOfV4
<1>6. PICK q \in Memory :
        /\ Runs(V4Calls(W, X), m, V, q, V)
        /\ \A r \in Rows(z) :
             q[CamBase(CAM_A, 1) + r] = (m[CamBase(CAM_A, 1) + r] + W[r + 1] * X[r + 1]) % ByteMod
        /\ \A r \in Row \ Rows(z) :
             q[CamBase(CAM_A, 0) + r] = 0 /\ q[CamBase(CAM_A, 1) + r] = m[CamBase(CAM_A, 1) + r]
  BY <1>3, <1>5 DEF AddsProducts
<1>7. ASSUME NEW r \in Rows(z)
      PROVE  q[CamBase(CAM_A, 1) + r] = Dot(r \div n_len, r % n_len, i + 1)
  <2>1. r \div n_len \in Nat
    BY <1>1, RowOfProduct
  <2>2. Dot(r \div n_len, r % n_len, i + 1)
          = (Dot(r \div n_len, r % n_len, i) + A[(r \div n_len) * k_len + i] * B[i * n_len + (r % n_len)]) % ByteMod
    BY <1>2, <2>1, DotNext
  <2>3. m[CamBase(CAM_A, 1) + r] = Dot(r \div n_len, r % n_len, i)
    BY <1>1 DEF Updated
  <2>4. QED
    BY <1>3, <1>6, <2>2, <2>3
<1>8. Updated(q, i + 1)
  BY <1>1, <1>6, <1>7 DEF Updated
<1>9. mm_cols_setup(i) \o << Compute(MULT, LEFT), ComputeA(ADD_D, 3), Call("ap_flush_c_0") >> = V4Calls(W, X)
  BY <1>1 DEF mm_cols_setup, V4Calls, Spread, Repeated
<1>10. QED
  BY <1>6, <1>8, <1>9

\* A finished row that is copied out makes one more row of C final.
LEMMA RowEnded ==
  ASSUME DimsAssumption, Shape, NEW m, NEW cam, i < m_len, Accumulated(m, cam, i, k_len)
  PROVE  OutOf(RowsDone(i), i * n_len, n_len, m, cam) = RowsDone(i + 1)
<1>0. PICK b, n : b = i * n_len /\ n = n_len
  OBVIOUS
<1>1. /\ i \in Nat /\ n \in Nat /\ n > 0 /\ b \in Nat /\ (i + 1) * n_len = b + n /\ b + n <= m_len * n_len
      /\ m_len * n_len \in Nat /\ m_len * n_len <= AP_COL_SIZE /\ AP_COL_SIZE \in Nat
  <2>1. i \in Nat /\ n \in Nat /\ n > 0 /\ m_len \in Nat
    BY <1>0, DimsPositive DEF Shape
  <2>2. i * n \in Nat /\ (i + 1) * n = i * n + n /\ i * n + n <= m_len * n
    BY <2>1, InsideMatrix
  <2>3. QED
    BY <1>0, <2>1, <2>2, DimsPositive
<1>2. \A y \in Index : y \in Nat
  BY <1>1 DEF Index
<1>3. ASSUME NEW y \in Index
      PROVE  (IF y - b \in Rows(n) THEN m[CamBase(cam, 1) + (y - b)] ELSE RowsDone(i)[y])
               = IF y < b + n THEN matmul_cpu[y] ELSE 0
  <2>1. CASE y < b
    <3>1. y - b \notin Rows(n) /\ y < b + n
      BY <1>1, <1>2, <2>1 DEF Rows
    <3>2. QED
      BY <1>0, <2>1, <3>1 DEF RowsDone
  <2>2. CASE b <= y /\ y < b + n
    <3>1. PICK r : r = y - b
      OBVIOUS
    <3>2. r \in Nat /\ r < n /\ y = b + r /\ r \in Rows(n) /\ y < m_len * n_len
      BY <1>1, <1>2, <2>2, <3>1 DEF Rows
    <3>3. y \div n_len = i /\ y % n_len = r
      BY <1>0, <1>1, <3>2, RowAndColumn
    <3>4. matmul_cpu[y] = Dot(i, r, k_len)
      BY <3>2, <3>3 DEF matmul_cpu
    <3>5. m[CamBase(cam, 1) + r] = Dot(i, r, k_len)
      BY <1>0, <3>2 DEF Accumulated
    <3>6. QED
      BY <2>2, <3>1, <3>2, <3>4, <3>5
  <2>3. CASE b + n <= y
    <3>1. y - b \notin Rows(n) /\ ~ (y < b) /\ ~ (y < b + n)
      BY <1>1, <1>2, <2>3 DEF Rows
    <3>2. QED
      BY <1>0, <3>1 DEF RowsDone
  <2>4. QED
    BY <1>1, <1>2, <2>1, <2>2, <2>3
<1>4. OutOf(RowsDone(i), b, n, m, cam)
        = [y \in Index |-> IF y - b \in Rows(n) THEN m[CamBase(cam, 1) + (y - b)] ELSE RowsDone(i)[y]]
  BY DEF OutOf
<1>5. RowsDone(i + 1) = [y \in Index |-> IF y < b + n THEN matmul_cpu[y] ELSE 0]
  BY <1>1 DEF RowsDone
<1>6. QED
  BY <1>0, <1>3, <1>4, <1>5

\* The loops begin on flushed columns, and end with the whole product.
LEMMA Beginning ==
  ASSUME DimsAssumption, Shape, NEW m,
         \A c \in APCollunm, h \in {0, 1}, r \in Row : m[CamBase(c, h) + r] = 0
  PROVE  /\ \A cam \in APCollunm, x \in Nat : Accumulated(m, cam, x, 0)
         /\ Updated(m, 0)
<1>1. \A r \in Rows(n_len) : r \in Row
  BY DimsPositive, RowsInColumn
<1>2. \A cam \in APCollunm, x \in Nat : Accumulated(m, cam, x, 0)
  BY <1>1, DotNone DEF Accumulated
<1>3. Updated(m, 0)
  BY RowOfProduct, DotNone, Cams DEF Updated
<1>4. QED
  BY <1>2, <1>3

LEMMA NoneDone ==
  ASSUME DimsAssumption, Shape
  PROVE  RowsDone(0) = Zero /\ RowsDone(m_len) = matmul_cpu
<1>1. n_len \in Nat /\ AP_COL_SIZE \in Nat /\ 0 * n_len = 0
  BY DimsPositive
<1>2. \A y \in Index : y \in Nat /\ ~ (y < 0)
  BY <1>1 DEF Index
<1>3. RowsDone(0) = Zero
  BY <1>1, <1>2 DEF RowsDone, Zero
<1>4. RowsDone(m_len) = matmul_cpu
  BY DEF RowsDone, matmul_cpu
<1>5. QED
  BY <1>3, <1>4

\* ap_mm_v4's last copy is the whole product.
LEMMA AllUpdated ==
  ASSUME DimsAssumption, Shape, NEW m, NEW V, m_len = k_len, Updated(m, m_len)
  PROVE  OutOf(V, 0, AP_COL_SIZE, m, CAM_A) = matmul_cpu
<1>1. /\ m_len * n_len \in Nat /\ m_len * n_len <= AP_COL_SIZE /\ AP_COL_SIZE \in Nat /\ Index = Row
      /\ \A y \in Row : y \in Nat /\ y - 0 = y /\ y \in Rows(AP_COL_SIZE)
  BY DimsPositive DEF Row, Rows
<1>2. ASSUME NEW y \in Row
      PROVE  m[CamBase(CAM_A, 1) + y] = IF y < m_len * n_len THEN Dot(y \div n_len, y % n_len, k_len) ELSE 0
  <2>1. y \in Rows(m_len * n_len) <=> y < m_len * n_len
    <3> DEFINE z == m_len * n_len
    <3>1. z \in Nat /\ y \in Nat
      BY <1>1
    <3> HIDE DEF z
    <3>2. QED
      BY <3>1 DEF Rows, z
  <2>2. QED
    BY <2>1 DEF Updated
<1>3. OutOf(V, 0, AP_COL_SIZE, m, CAM_A) = [y \in Row |-> m[CamBase(CAM_A, 1) + y]]
  BY <1>1 DEF OutOf
<1>4. QED
  BY <1>1, <1>2, <1>3 DEF matmul_cpu

\* Sums are the same while the data are.
LEMMA SameData ==
  ASSUME UNCHANGED <<A, B, dim>>
  PROVE  /\ m_len' = m_len /\ k_len' = k_len /\ n_len' = n_len
         /\ \A x, y, t : Dot(x, y, t)' = Dot(x, y, t)
         /\ \A m, cam, x, t : Accumulated(m, cam, x, t)' = Accumulated(m, cam, x, t)
         /\ \A m, t : Updated(m, t)' = Updated(m, t)
         /\ matmul_cpu' = matmul_cpu
         /\ \A x : RowsDone(x)' = RowsDone(x)
<1>1. m_len' = m_len /\ k_len' = k_len /\ n_len' = n_len
  BY DEF m_len, k_len, n_len
<1>2. \A x, y, t : Dot(x, y, t)' = Dot(x, y, t)
  BY <1>1 DEF Dot
<1>3. \A m, cam, x, t : Accumulated(m, cam, x, t)' = Accumulated(m, cam, x, t)
  BY <1>1, <1>2 DEF Accumulated
<1>4. \A m, t : Updated(m, t)' = Updated(m, t)
  BY <1>1, <1>2 DEF Updated
<1>5. matmul_cpu' = matmul_cpu
  BY <1>1, <1>2 DEF matmul_cpu
<1>6. \A x : RowsDone(x)' = RowsDone(x)
  BY <1>1, <1>5 DEF RowsDone
<1>7. QED
  BY <1>1, <1>2, <1>3, <1>4, <1>5, <1>6

-----------------------------------------------------------------------------
(* The steps. *)

Hypotheses == AluMultiplies /\ KernelsAssumption /\ DimsAssumption /\ EntriesAssumption

LEMMA Assumed == Hypotheses
  BY MultAssumption, KernelsAssumption, DimsAssumption, EntriesAssumption
     DEF Hypotheses, AluMultiplies, KernelsAssumption, DimsAssumption, EntriesAssumption

LEMMA MatricesAreVectors ==
  ASSUME EntriesAssumption, NEW n \in Int, NEW M \in Matrices(n)
  PROVE  M \in Vector
<1>1. PICK V \in [0 .. n - 1 -> Entries] : M = [x \in Index |-> IF x < n THEN V[x] ELSE 1]
  BY DEF Matrices
<1>2. \A x \in Index : x < n => x \in 0 .. n - 1
  BY ColSizeAssumption DEF Index
<1>3. \A x \in Index : x < n => V[x] \in Byte
  <2>1. \A x \in Index : x < n => V[x] \in Entries
    BY <1>2
  <2>2. QED
    BY <2>1 DEF EntriesAssumption
<1>4. 1 \in Byte
  BY ByteModAssumption DEF Byte
<1>5. QED
  BY <1>1, <1>3, <1>4 DEF Vector

LEMMA ZeroIsVector == Zero \in Vector
  BY ByteModAssumption DEF Zero, Vector, Byte

\* warmup_ap leads to a good beginning of any kernel.
LEMMA WarmedGood ==
  ASSUME DimsAssumption, Shape, i = 0, j = 0, phase = "kernel", NEW m
  PROVE  Runs(<< Call("warmup_ap") >>, m, Zero, Blank, Zero) /\ Good(Blank, Zero)
<1>1. \A cam \in APCollunm, x \in Nat : Accumulated(Blank, cam, x, 0)
  BY WarmedUp, Beginning
<1>2. Updated(Blank, 0) /\ Blank \in Memory
  BY WarmedUp, Beginning
<1>3. RowsDone(0) = Zero
  BY NoneDone
<1>4. Good(Blank, Zero)
  BY <1>1, <1>2, <1>3, Cams DEF Good
<1>5. QED
  BY <1>4, WarmedUp

\* The invariant holds at first, and every step keeps it.
LEMMA InitIInv == Hypotheses /\ InitMatmul => IInv
<1> SUFFICES ASSUME Hypotheses, InitMatmul PROVE IInv
  OBVIOUS
<1>1. Shape
  <2>1. dim \in Dims /\ Accepts(kernel, dim) /\ kernel \in Kernels /\ i = 0 /\ j = 0 /\ phase = "kernel"
    BY DEF InitMatmul
  <2>2. /\ m_len \in Nat \ {0} /\ k_len \in Nat \ {0} /\ n_len \in Nat
    BY <2>1 DEF Hypotheses, DimsAssumption, m_len, k_len, n_len
  <2>3. A \in Vector /\ B \in Vector
    <3>1. m_len * k_len \in Int /\ k_len * n_len \in Int
      BY <2>2
    <3>2. A \in Matrices(m_len * k_len) /\ B \in Matrices(k_len * n_len)
      BY DEF InitMatmul
    <3>3. QED
      BY <3>1, <3>2, MatricesAreVectors DEF Hypotheses
  <2>4. QED
    BY <2>1, <2>2, <2>3 DEF Shape, Hypotheses, KernelsAssumption
<1>2. i = 0 /\ j = 0 /\ phase = "kernel" /\ C = Zero /\ todo = << Call("warmup_ap") >>
  BY DEF InitMatmul
<1>3. PICK m : m = mem
  OBVIOUS
<1>4. Runs(todo, mem, C, Blank, Zero) /\ Good(Blank, Zero)
  BY <1>1, <1>2, <1>3, WarmedGood DEF Hypotheses
<1>5. QED
  BY <1>1, <1>4 DEF IInv

\* With nothing left to call, the columns are good as they are.
LEMMA GoodNow ==
  ASSUME IInv, todo = << >>
  PROVE  mem \in Memory /\ Good(mem, C)
<1>1. PICK m, V : Runs(<< >>, mem, C, m, V) /\ Good(m, V)
  BY DEF IInv
<1>2. PICK n, W : n = mem /\ W = C
  OBVIOUS
<1>3. m = n /\ V = W
  BY <1>1, <1>2, RunsNone
<1>4. QED
  BY <1>1, <1>2, <1>3 DEF Good

LEMMA InnerIInv ==
  ASSUME Hypotheses, IInv, ap_mm_inner \/ ap_mm_v2_inner
  PROVE  IInv'
<1>1. /\ kernel # "ap_mm_v4"
      /\ phase = "kernel" /\ todo = << >> /\ i < m_len /\ j < k_len /\ j' = j + 1
      /\ UNCHANGED <<device, i, phase, kernel, dim, A, B, C, runs>>
  BY DEF ap_mm_inner, ap_mm_v2_inner, Inner
<1>2. Shape /\ Good(mem, C) /\ mem \in Memory
  BY <1>1, GoodNow DEF IInv
<1>3. PICK m, V : m = mem /\ V = C
  OBVIOUS
<1>4. Shape'
  <2>1. m_len' = m_len /\ k_len' = k_len
    BY <1>1, SameData
  <2>2. i \in 0 .. m_len /\ j \in 0 .. k_len /\ m_len \in Nat /\ k_len \in Nat
    BY <1>2, DimsPositive DEF Shape, Hypotheses
  <2>3. i' # m_len /\ j' \in 0 .. k_len
    BY <1>1, <2>2
  <2>4. QED
    BY <1>1, <1>2, <2>1, <2>3 DEF Shape, Accepts
<1>6. CASE ap_mm_inner
  <2>1. kernel = "ap_mm" /\ todo' = MmCalls(From(B, j * n_len, n_len), A[i * k_len + j])
    <3>1. Len(From(B, j * n_len, n_len)) = n_len
      BY <1>1, <1>2, RowOfB DEF Hypotheses
    <3>2. QED
      BY <1>6, <3>1 DEF ap_mm_inner, Inner, MmCalls
  <2>2. Accumulated(m, CAM_C, i, j) /\ V = RowsDone(i)
    BY <1>2, <1>3, <2>1 DEF Good
  <2>3. PICK q \in Memory : /\ Runs(MmCalls(From(B, j * n_len, n_len), A[i * k_len + j]), m, V, q, V)
                            /\ Accumulated(q, CAM_C, i, j + 1)
    BY <1>1, <1>2, <1>3, <2>2, MmInner DEF Hypotheses
  <2>4. Good(q, V)'
    BY <1>1, <2>1, <2>2, <2>3, SameData DEF Good
  <2>5. Runs(todo', mem', C', q, V)
    BY <1>1, <1>3, <2>1, <2>3 DEF device
  <2>6. QED
    BY <1>4, <2>4, <2>5 DEF IInv
<1>7. CASE ap_mm_v2_inner
  <2>1. kernel = "ap_mm_v2" /\ todo' = WindowCalls(From(B, j * n_len, n_len), A[i * k_len + j])
    BY <1>7 DEF ap_mm_v2_inner, Inner, WindowCalls
  <2>2. Accumulated(m, CAM_A, i, j) /\ V = RowsDone(i)
    BY <1>2, <1>3, <2>1 DEF Good
  <2>3. PICK q \in Memory : /\ Runs(WindowCalls(From(B, j * n_len, n_len), A[i * k_len + j]), m, V, q, V)
                            /\ Accumulated(q, CAM_A, i, j + 1)
    BY <1>1, <1>2, <1>3, <2>2, MmInner DEF Hypotheses
  <2>4. Good(q, V)'
    BY <1>1, <2>1, <2>2, <2>3, SameData DEF Good
  <2>5. Runs(todo', mem', C', q, V)
    BY <1>1, <1>3, <2>1, <2>3 DEF device
  <2>6. QED
    BY <1>4, <2>4, <2>5 DEF IInv
<1>8. QED
  BY <1>6, <1>7

LEMMA RowIInv ==
  ASSUME Hypotheses, IInv, ap_mm_row \/ ap_mm_v2_row
  PROVE  IInv'
<1>1. /\ phase = "kernel" /\ todo = << >> /\ i < m_len /\ j = k_len /\ i' = i + 1 /\ j' = 0
      /\ UNCHANGED <<device, phase, kernel, dim, A, B, C, runs>>
  BY DEF ap_mm_row, ap_mm_v2_row, RowEnd
<1>2. Shape /\ Good(mem, C) /\ mem \in Memory
  BY <1>1, GoodNow DEF IInv
<1>3. PICK m, V, at, n : m = mem /\ V = C /\ at = i * n_len /\ n = n_len
  OBVIOUS
<1>4. i \in Nat /\ m_len \in Nat /\ k_len \in Nat /\ at \in Nat /\ n \in Nat /\ n <= AP_COL_SIZE
  BY <1>1, <1>2, <1>3, DimsPositive DEF Shape, Hypotheses
<1>5. Shape'
  <2>1. m_len' = m_len /\ k_len' = k_len
    BY <1>1, SameData
  <2>2. i' \in 0 .. m_len /\ j' \in 0 .. k_len
    BY <1>1, <1>4
  <2>3. QED
    BY <1>1, <1>2, <2>1, <2>2 DEF Shape, Accepts
<1>6. ASSUME NEW q, NEW cam \in APCollunm, Writes(q, m, cam, 1, Row, All(0))
      PROVE  q \in Memory /\ \A x \in Nat : Accumulated(q, cam, x, 0)
  <2>1. q \in Memory /\ \A r \in Row : q[CamBase(cam, 1) + r] = 0
    BY <1>6 DEF Writes, All
  <2>2. \A r \in Rows(n_len) : r \in Row
    BY <1>3, <1>4, RowsInColumn
  <2>3. QED
    BY <1>2, <2>1, <2>2, DotNone DEF Accumulated, Hypotheses
<1>7. PICK x \in Nat : x = i + 1
  BY <1>4
<1>8. CASE ap_mm_row
  <2>1. /\ kernel = "ap_mm"
        /\ todo' = << Out(at, CamBase(CAM_C, 1), n), Call("ap_flush_c_1") >>
    BY <1>3, <1>8 DEF ap_mm_row, RowEnd
  <2>2. Accumulated(m, CAM_C, i, k_len) /\ V = RowsDone(i)
    BY <1>1, <1>2, <1>3, <2>1 DEF Good
  <2>3. PICK q : /\ Runs(<< Out(at, CamBase(CAM_C, 1), n), Call("ap_flush_c_1") >>, m, V, q,
                         OutOf(V, at, n, m, CAM_C))
                 /\ Writes(q, m, CAM_C, 1, Row, All(0))
    BY <1>2, <1>3, <1>4, RowOut
  <2>4. OutOf(V, at, n, m, CAM_C) = RowsDone(i + 1)
    BY <1>1, <1>2, <1>3, <2>2, RowEnded DEF Hypotheses
  <2>5. PICK W : W = RowsDone(i + 1)
    OBVIOUS
  <2>6. Good(q, W)'
    <3>1. q \in Memory /\ Accumulated(q, CAM_C, x, 0)
      BY <1>6, <2>3, Cams
    <3>2. Accumulated(q, CAM_C, x, 0)' /\ RowsDone(x)' = W
      BY <1>1, <1>7, <2>5, <3>1, SameData
    <3>3. QED
      BY <1>1, <1>7, <2>1, <3>1, <3>2 DEF Good
  <2>7. Runs(todo', mem', C', q, W)
    BY <1>1, <1>3, <2>1, <2>3, <2>4, <2>5 DEF device
  <2>8. QED
    BY <1>5, <2>6, <2>7 DEF IInv
<1>9. CASE ap_mm_v2_row
  <2>1. /\ kernel = "ap_mm_v2"
        /\ todo' = << Out(at, CamBase(CAM_A, 1), n), Call("ap_flush_a_1") >>
    BY <1>3, <1>9 DEF ap_mm_v2_row, RowEnd
  <2>2. Accumulated(m, CAM_A, i, k_len) /\ V = RowsDone(i)
    BY <1>1, <1>2, <1>3, <2>1 DEF Good
  <2>3. PICK q : /\ Runs(<< Out(at, CamBase(CAM_A, 1), n), Call("ap_flush_a_1") >>, m, V, q,
                         OutOf(V, at, n, m, CAM_A))
                 /\ Writes(q, m, CAM_A, 1, Row, All(0))
    BY <1>2, <1>3, <1>4, RowOut
  <2>4. OutOf(V, at, n, m, CAM_A) = RowsDone(i + 1)
    BY <1>1, <1>2, <1>3, <2>2, RowEnded DEF Hypotheses
  <2>5. PICK W : W = RowsDone(i + 1)
    OBVIOUS
  <2>6. Good(q, W)'
    <3>1. q \in Memory /\ Accumulated(q, CAM_A, x, 0)
      BY <1>6, <2>3, Cams
    <3>2. Accumulated(q, CAM_A, x, 0)' /\ RowsDone(x)' = W
      BY <1>1, <1>7, <2>5, <3>1, SameData
    <3>3. QED
      BY <1>1, <1>7, <2>1, <3>1, <3>2 DEF Good
  <2>7. Runs(todo', mem', C', q, W)
    BY <1>1, <1>3, <2>1, <2>3, <2>4, <2>5 DEF device
  <2>8. QED
    BY <1>5, <2>6, <2>7 DEF IInv
<1>10. QED
  BY <1>8, <1>9

LEMMA UpdateIInv ==
  ASSUME Hypotheses, IInv, ap_mm_v4
  PROVE  IInv'
<1>1. /\ kernel = "ap_mm_v4" /\ phase = "kernel" /\ todo = << >> /\ i < m_len /\ i' = i + 1
      /\ todo' = mm_cols_setup(i) \o << Compute(MULT, LEFT), ComputeA(ADD_D, 3), Call("ap_flush_c_0") >>
      /\ UNCHANGED <<device, j, phase, kernel, dim, A, B, C, runs>>
  BY DEF ap_mm_v4
<1>2. Shape /\ Good(mem, C) /\ mem \in Memory
  BY <1>1, GoodNow DEF IInv
<1>3. PICK m, V : m = mem /\ V = C
  OBVIOUS
<1>4. m_len = k_len
  BY <1>1, <1>2 DEF Shape, Accepts, m_len, k_len
<1>5. Updated(m, i) /\ V = Zero
  BY <1>1, <1>2, <1>3 DEF Good
<1>6. PICK q, x : q \in Memory /\ Runs(todo', m, V, q, V) /\ Updated(q, x) /\ x = i + 1
  BY <1>1, <1>2, <1>3, <1>4, <1>5, V4Body DEF Hypotheses
<1>7. Good(q, V)'
  <2>1. Updated(q, x)'
    BY <1>1, <1>6, SameData
  <2>2. Zero' = Zero
    BY DEF Zero
  <2>3. QED
    BY <1>1, <1>5, <1>6, <2>1, <2>2 DEF Good
<1>8. Shape'
  <2>1. m_len' = m_len /\ k_len' = k_len
    BY <1>1, SameData
  <2>2. i' \in 0 .. m_len /\ (i' = m_len => j' = 0)
    <3>1. j = 0
      BY <1>1, <1>2 DEF Shape
    <3>2. QED
      BY <1>1, <1>2, <3>1, DimsPositive DEF Shape, Hypotheses
  <2>3. QED
    BY <1>1, <1>2, <2>1, <2>2 DEF Shape, Accepts
<1>9. Runs(todo', mem', C', q, V)
  BY <1>1, <1>3, <1>6 DEF device
<1>10. QED
  BY <1>7, <1>8, <1>9 DEF IInv

LEMMA FinishIInv ==
  ASSUME Hypotheses, IInv, Finish
  PROVE  IInv'
<1>1. /\ phase = "kernel" /\ todo = << >> /\ i = m_len /\ phase' = "done"
      /\ todo' = (IF kernel = "ap_mm_v4" THEN << Out(0, CamBase(CAM_A, 1), AP_COL_SIZE) >> ELSE << >>)
      /\ UNCHANGED <<device, i, j, kernel, dim, A, B, C, runs>>
  BY DEF Finish
<1>2. Shape /\ Good(mem, C) /\ mem \in Memory
  BY <1>1, GoodNow DEF IInv
<1>3. PICK m, V : m = mem /\ V = C
  OBVIOUS
<1>4. Shape'
  <2>1. m_len' = m_len /\ k_len' = k_len
    BY <1>1, SameData
  <2>2. QED
    BY <1>1, <1>2, <2>1 DEF Shape, Accepts
<1>5. CASE kernel = "ap_mm_v4"
  <2>1. m_len = k_len
    BY <1>2, <1>5 DEF Shape, Accepts, m_len, k_len
  <2>2. Updated(m, m_len)
    BY <1>1, <1>2, <1>3, <1>5 DEF Good
  <2>3. PICK W : W = matmul_cpu
    OBVIOUS
  <2>4. OutOf(V, 0, AP_COL_SIZE, m, CAM_A) = W
    BY <1>2, <1>3, <2>1, <2>2, <2>3, AllUpdated DEF Hypotheses
  <2>5. Runs(<< Out(0, CamBase(CAM_A, 1), AP_COL_SIZE) >>, m, V, m, W)
    BY <1>2, <1>3, <2>4, RowOut, ColSizeAssumption
  <2>6. Runs(todo', mem', C', m, W)
    BY <1>1, <1>3, <1>5, <2>5 DEF device
  <2>7. Good(m, W)'
    BY <1>1, <1>2, <1>3, <1>5, <2>3, SameData DEF Good
  <2>8. QED
    BY <1>4, <2>6, <2>7 DEF IInv
<1>6. CASE kernel # "ap_mm_v4"
  <2>1. Runs(todo', mem', C', m, V)
    BY <1>1, <1>3, <1>6, RunsNone DEF device
  <2>2. Good(m, V)'
    BY <1>1, <1>2, <1>3, <1>6, SameData DEF Good
  <2>3. QED
    BY <1>4, <2>1, <2>2 DEF IInv
<1>7. QED
  BY <1>5, <1>6

LEMMA CallIInv ==
  ASSUME Hypotheses, IInv, HalCall
  PROVE  IInv'
<1>1. /\ todo # << >> /\ todo' = Tail(todo) /\ mem' = Effect(Head(todo), mem) /\ C' = Kept(Head(todo), mem, C)
      /\ UNCHANGED <<i, j, phase, kernel, dim, A, B, runs>>
  BY DEF HalCall, Kept
<1>2. PICK m, V : Runs(todo, mem, C, m, V) /\ Good(m, V)
  BY DEF IInv
<1>3. PICK t, n, W : t = todo /\ n = mem /\ W = C
  OBVIOUS
<1>4. Runs(Tail(t), Effect(Head(t), n), Kept(Head(t), n, W), m, V)
  BY <1>1, <1>2, <1>3, RunsHead
<1>5. Runs(todo', mem', C', m, V)
  BY <1>1, <1>3, <1>4
<1>6. Shape'
  <2>1. m_len' = m_len /\ k_len' = k_len
    BY <1>1, SameData
  <2>2. QED
    BY <1>1, <2>1 DEF Shape, Accepts, IInv
<1>7. Good(m, V)'
  <2>1. Zero' = Zero
    BY DEF Zero
  <2>2. QED
    BY <1>1, <1>2, <2>1, SameData DEF Good
<1>8. QED
  BY <1>5, <1>6, <1>7 DEF IInv

LEMMA AgainIInv ==
  ASSUME Hypotheses, IInv, Again
  PROVE  IInv'
<1>1. /\ phase = "done" /\ todo = << >> /\ C' = Zero /\ i' = 0 /\ j' = 0 /\ phase' = "kernel"
      /\ UNCHANGED <<device, dim, A, B>>
  BY DEF Again, Done
<1>2. PICK kn \in Kernels :
        /\ Accepts(kn, dim) /\ kernel' = kn
        /\ \/ todo' = << Call("warmup_ap") >>
           \/ kn = kernel /\ kn # "ap_mm_v4" /\ todo' = << >>
  BY DEF Again
<1>3. Shape /\ Good(mem, C) /\ mem \in Memory
  BY <1>1, GoodNow DEF IInv
<1>4. Shape'
  <2>1. m_len' = m_len /\ k_len' = k_len
    BY <1>1, SameData
  <2>2. 0 \in 0 .. m_len /\ 0 \in 0 .. k_len
    BY <1>3, DimsPositive DEF Hypotheses
  <2>3. QED
    BY <1>1, <1>2, <1>3, <2>1, <2>2 DEF Shape, Accepts, Hypotheses, KernelsAssumption
<1>5. RowsDone(0) = Zero /\ RowsDone(0)' = Zero /\ Zero' = Zero
  <2>1. RowsDone(0) = Zero /\ Zero' = Zero
    BY <1>3, NoneDone DEF Hypotheses, Zero
  <2>2. QED
    BY <1>1, <2>1, SameData
<1>6. ASSUME NEW m \in Memory, NEW cam, Accumulated(m, cam, 0, 0)
      PROVE  Accumulated(m, cam, 0, 0)'
  BY <1>1, <1>6, SameData
<1>7. CASE todo' = << Call("warmup_ap") >>
  <2>1. /\ Blank \in Memory /\ Updated(Blank, 0)
        /\ \A cam \in APCollunm : Accumulated(Blank, cam, 0, 0)
    BY <1>3, WarmedUp, Beginning DEF Hypotheses
  <2>2. Updated(Blank, 0)' /\ \A cam \in APCollunm : Accumulated(Blank, cam, 0, 0)'
    BY <1>1, <1>6, <2>1, SameData
  <2>3. Good(Blank, Zero)'
    BY <1>1, <1>2, <1>5, <2>1, <2>2, Cams DEF Good
  <2>4. PICK m : m = mem
    OBVIOUS
  <2>5. Runs(todo', mem', C', Blank, Zero)
    BY <1>1, <1>7, <2>4, WarmedUp DEF device
  <2>6. QED
    BY <1>4, <2>3, <2>5 DEF IInv
<1>8. CASE kernel' = kernel /\ kernel # "ap_mm_v4" /\ todo' = << >>
  <2>1. PICK m, x, V : m = mem /\ x = m_len /\ V = Zero
    OBVIOUS
  <2>2. x \in Nat /\ j = 0 /\ i = x
    BY <1>1, <1>3, <2>1, DimsPositive DEF Shape, Hypotheses
  <2>3. ASSUME NEW cam, Accumulated(m, cam, x, 0)
        PROVE  Accumulated(m, cam, 0, 0)
    BY <1>3, <2>2, <2>3, DotNone DEF Accumulated, Hypotheses
  <2>4. /\ kernel = "ap_mm" => Accumulated(m, CAM_C, 0, 0)'
        /\ kernel = "ap_mm_v2" => Accumulated(m, CAM_A, 0, 0)'
    BY <1>3, <1>6, <2>1, <2>2, <2>3 DEF Good
  <2>5. Good(m, V)'
    BY <1>1, <1>3, <1>5, <1>8, <2>1, <2>4 DEF Good
  <2>6. Runs(todo', mem', C', m, V)
    BY <1>1, <1>5, <1>8, <2>1, RunsNone DEF device
  <2>7. QED
    BY <1>4, <2>5, <2>6 DEF IInv
<1>9. QED
  BY <1>2, <1>7, <1>8

LEMMA StutterIInv ==
  ASSUME IInv, UNCHANGED vars_mm
  PROVE  IInv'
<1>1. UNCHANGED <<mem, last, out, i, j, todo, phase, kernel, dim, A, B, C, runs>>
  BY DEF vars_mm, device, loop
<1>2. PICK m, V : Runs(todo, mem, C, m, V) /\ Good(m, V)
  BY DEF IInv
<1>3. Shape'
  <2>1. m_len' = m_len /\ k_len' = k_len
    BY <1>1, SameData
  <2>2. QED
    BY <1>1, <2>1 DEF Shape, Accepts, IInv
<1>4. Good(m, V)'
  <2>1. Zero' = Zero
    BY DEF Zero
  <2>2. QED
    BY <1>1, <1>2, <2>1, SameData DEF Good
<1>5. QED
  BY <1>1, <1>2, <1>3, <1>4 DEF IInv

LEMMA NextIInv == Hypotheses /\ IInv /\ [NextMatmul]_vars_mm => IInv'
  BY InnerIInv, RowIInv, UpdateIInv, FinishIInv, CallIInv, AgainIInv, StutterIInv
     DEF NextMatmul, Step, Return

\* It implies both properties.
LEMMA IInvPartial == Hypotheses /\ IInv => PartialSums
<1> SUFFICES ASSUME Hypotheses, IInv, phase = "kernel", todo = << >>
             PROVE  PartialSums
  BY DEF PartialSums
<1>1. Shape /\ Good(mem, C)
  BY GoodNow DEF IInv
<1>2. \A x \in 0 .. i * n_len - 1 : x \in Index /\ x < i * n_len
  <2>1. /\ i \in Nat /\ m_len \in Nat /\ n_len \in Nat /\ i <= m_len
        /\ m_len * n_len \in Nat /\ m_len * n_len <= AP_COL_SIZE /\ AP_COL_SIZE \in Nat
    BY <1>1, DimsPositive DEF Shape, Hypotheses
  <2>2. \A x, y, n \in Nat : x <= y => x * n \in Nat /\ x * n <= y * n
    OBVIOUS
  <2>3. i * n_len \in Nat /\ i * n_len <= m_len * n_len
    BY <2>1, <2>2
  <2>4. \A z, w \in Nat : (z <= w /\ w <= AP_COL_SIZE) => \A x \in 0 .. z - 1 : x \in Index /\ x < z
    BY <2>1 DEF Index
  <2>5. QED
    BY <2>1, <2>3, <2>4
<1>3. kernel # "ap_mm_v4" => \A x \in 0 .. i * n_len - 1 : C[x] = matmul_cpu[x]
  BY <1>1, <1>2 DEF Good, RowsDone, Shape
<1>4. QED
  BY <1>1, <1>3 DEF PartialSums, Good, Accumulated, Updated, Rows

LEMMA IInvGolden == Hypotheses /\ IInv => ProductIsGolden
<1> SUFFICES ASSUME Hypotheses, IInv, phase = "done", todo = << >>
             PROVE  C = matmul_cpu
  BY DEF ProductIsGolden, Done
<1>1. Shape /\ Good(mem, C)
  BY GoodNow DEF IInv
<1>2. i = m_len /\ RowsDone(m_len) = matmul_cpu
  BY <1>1, NoneDone DEF Shape, Hypotheses
<1>3. QED
  BY <1>1, <1>2 DEF Good, Shape

\* The invariant holds for every program of matrix products.
THEOREM Invariance == SpecMatmul => []IInv
<1>1. InitMatmul => IInv
  BY InitIInv, Assumed
<1>2. IInv /\ [NextMatmul]_vars_mm => IInv'
  BY NextIInv, Assumed
<1>3. QED
  BY <1>1, <1>2, PTL DEF SpecMatmul

\* For products of every shape and all entries, and however the kernels follow each other:
\* between two loop bodies the accumulating column holds the partial sums so far, and the rows
\* of C that are copied out are final (ap_tests.h:616-630, 689-700, 860-867).
THEOREM SumsArePartial == SpecMatmul => []PartialSums
<1>1. IInv => PartialSums
  BY IInvPartial, Assumed
<1>2. QED
  BY <1>1, Invariance, PTL

\* Each kernel computes what matmul_cpu does, byte for byte, rows above the product included
\* (evaluation.h:28-41).
THEOREM ProductsAreGolden == SpecMatmul => []ProductIsGolden
<1>1. IInv => ProductIsGolden
  BY IInvGolden, Assumed
<1>2. QED
  BY <1>1, Invariance, PTL

-----------------------------------------------------------------------------
(* Lists of calls, and what is left of them. *)

\* What is left of a list after p of its members.
Rest(L, p) == [x \in 1 .. Len(L) - p |-> L[x + p]]

LEMMA RestOfList ==
  ASSUME NEW S, NEW L \in Seq(S), NEW p \in 0 .. Len(L)
  PROVE  /\ Rest(L, 0) = L /\ Rest(L, p) \in Seq(S)
         /\ Rest(L, p) = << >> <=> p = Len(L)
         /\ p # Len(L) => Head(Rest(L, p)) = L[p + 1] /\ Tail(Rest(L, p)) = Rest(L, p + 1)
<1>1. Len(L) \in Nat /\ p \in Nat /\ Len(L) - p \in Nat /\ p <= Len(L)
  OBVIOUS
<1>2. L = [x \in 1 .. Len(L) |-> L[x]] /\ \A x \in 1 .. Len(L) : L[x] \in S
  OBVIOUS
<1>3. Rest(L, 0) = L
  <2>1. \A x \in 1 .. Len(L) : x + 0 = x
    BY <1>1
  <2>2. QED
    BY <1>1, <1>2, <2>1 DEF Rest
<1>4. ASSUME NEW y \in 0 .. Len(L)
      PROVE  Rest(L, y) \in Seq(S) /\ Len(Rest(L, y)) = Len(L) - y /\ \A x \in 1 .. Len(L) - y : Rest(L, y)[x] = L[x + y]
  <2>1. Len(L) - y \in Nat /\ \A x \in 1 .. Len(L) - y : x + y \in 1 .. Len(L)
    BY <1>1
  <2>2. \A x \in 1 .. Len(L) - y : L[x + y] \in S
    BY <1>2, <2>1
  <2>3. QED
    BY <2>1, <2>2 DEF Rest
<1>5. Rest(L, p) = << >> <=> p = Len(L)
  BY <1>1, <1>4
<1>6. ASSUME p # Len(L)
      PROVE  Head(Rest(L, p)) = L[p + 1] /\ Tail(Rest(L, p)) = Rest(L, p + 1)
  <2> DEFINE r == Rest(L, p)
             t == Rest(L, p + 1)
  <2>1. p + 1 \in 0 .. Len(L) /\ Len(L) - p > 0
    BY <1>1, <1>6
  <2>2. r \in Seq(S) /\ t \in Seq(S) /\ Len(r) = Len(L) - p /\ Len(t) = Len(L) - (p + 1)
    BY <1>4, <2>1
  <2>3. \A x \in 1 .. Len(t) : r[x + 1] = t[x]
    <3>1. \A x \in 1 .. Len(t) : x + 1 \in 1 .. Len(L) - p /\ x \in 1 .. Len(L) - (p + 1) /\ (x + 1) + p = x + (p + 1)
      BY <1>1, <2>1, <2>2
    <3>2. QED
      BY <1>4, <2>1, <3>1
  <2>4. r[1] = L[p + 1]
    <3>1. 1 \in 1 .. Len(L) - p /\ 1 + p = p + 1
      BY <1>1, <2>1
    <3>2. QED
      BY <1>4, <3>1
  <2> HIDE DEF r, t
  <2>5. r # << >> /\ Head(r) = r[1] /\ Tail(r) \in Seq(S) /\ Len(Tail(r)) = Len(r) - 1
        /\ \A x \in 1 .. Len(r) - 1 : Tail(r)[x] = r[x + 1]
    BY <2>1, <2>2, HeadTailProperties
  <2>6. Len(Tail(r)) = Len(t) /\ \A x \in 1 .. Len(t) : Tail(r)[x] = t[x]
    <3>1. Len(r) - 1 = Len(t)
      BY <1>1, <2>2
    <3>2. QED
      BY <2>3, <2>5, <3>1
  <2>7. Tail(r) = t
    BY <2>2, <2>5, <2>6, SeqEqual
  <2>8. QED
    BY <2>4, <2>5, <2>7 DEF r, t
<1>7. QED
  BY <1>3, <1>4, <1>5, <1>6

-----------------------------------------------------------------------------
(* A CAM's two columns as one. *)

Whole == 0 .. 2 * AP_COL_SIZE - 1
Cell(c, x) == CamBase(c, 0) + x

LEMMA Cells ==
  /\ \A c \in APCollunm, x \in Whole : Cell(c, x) \in CamAddr /\ CamBase(c, 0) \in Nat /\ Cell(c, x) - CamBase(c, 0) = x
  /\ \A c, d \in APCollunm, x, y \in Whole : Cell(c, x) = Cell(d, y) => c = d /\ x = y
  /\ \A c \in APCollunm : \A r \in Row : /\ r \in Whole /\ r + AP_COL_SIZE \in Whole
                                         /\ CamBase(c, 0) + r = Cell(c, r)
                                         /\ CamBase(c, 1) + r = Cell(c, r + AP_COL_SIZE)
  /\ \A x \in Whole : x \in Row \/ (x - AP_COL_SIZE \in Row /\ (x - AP_COL_SIZE) + AP_COL_SIZE = x)
<1>1. AP_COL_SIZE \in Nat /\ AP_COL_SIZE > 0 /\ APCollunm = {0, 1, 2}
  BY ColSizeAssumption DEF APCollunm, CAM_A, CAM_C
<1>2. /\ CamBase(0, 0) = 0 /\ CamBase(0, 1) = AP_COL_SIZE
      /\ CamBase(1, 0) = 2 * AP_COL_SIZE /\ CamBase(1, 1) = 3 * AP_COL_SIZE
      /\ CamBase(2, 0) = 4 * AP_COL_SIZE /\ CamBase(2, 1) = 5 * AP_COL_SIZE
  BY <1>1 DEF CamBase
<1>3. \A x \in Whole : x \in Nat /\ x < 2 * AP_COL_SIZE
  BY <1>1 DEF Whole
<1>4. ASSUME NEW c \in APCollunm, NEW x \in Whole
      PROVE  Cell(c, x) \in CamAddr /\ CamBase(c, 0) \in Nat /\ Cell(c, x) - CamBase(c, 0) = x
  BY <1>1, <1>2, <1>3 DEF Cell, CamAddr
<1>5. ASSUME NEW c \in APCollunm, NEW d \in APCollunm, NEW x \in Whole, NEW y \in Whole, Cell(c, x) = Cell(d, y)
      PROVE  c = d /\ x = y
  BY <1>1, <1>2, <1>3, <1>5 DEF Cell
<1>6. ASSUME NEW c \in APCollunm, NEW r \in Row
      PROVE  r \in Whole /\ r + AP_COL_SIZE \in Whole /\ CamBase(c, 0) + r = Cell(c, r)
             /\ CamBase(c, 1) + r = Cell(c, r + AP_COL_SIZE)
  BY <1>1, <1>2 DEF Cell, Row, Whole
<1>7. \A x \in Whole : x \in Row \/ (x - AP_COL_SIZE \in Row /\ (x - AP_COL_SIZE) + AP_COL_SIZE = x)
  BY <1>1 DEF Row, Whole
<1>8. QED
  BY <1>4, <1>5, <1>6, <1>7

\* A store to the beginning of a CAM, and a command on its left or its right half.
LEMMA WrittenCells ==
  ASSUME NEW m \in Memory, NEW cam \in APCollunm, NEW V \in Seq(Byte), Len(V) <= 2 * AP_COL_SIZE
  PROVE  /\ Written(CamBase(cam, 0), V, m) \in Memory
         /\ \A x \in Whole : Written(CamBase(cam, 0), V, m)[Cell(cam, x)]
              = IF x < Len(V) THEN V[x + 1] ELSE m[Cell(cam, x)]
         /\ \A c \in APCollunm, x \in Whole :
              c # cam => Written(CamBase(cam, 0), V, m)[Cell(c, x)] = m[Cell(c, x)]
<1> DEFINE b == CamBase(cam, 0)
           q == Written(b, V, m)
<1>1. Len(V) \in Nat /\ \A x \in 1 .. Len(V) : V[x] \in Byte
  OBVIOUS
<1>2. b \in Nat /\ \A a \in CamAddr : a \in Nat /\ (a - b \in 0 .. Len(V) - 1 => a - b + 1 \in 1 .. Len(V))
  BY <1>1, ColSizeAssumption DEF CamBase, CamAddr, APCollunm, CAM_A, CAM_C
<1>3. q \in Memory
  <2>1. \A a \in CamAddr : (IF a - b \in 0 .. Len(V) - 1 THEN V[a - b + 1] ELSE m[a]) \in Byte
    BY <1>1, <1>2 DEF Memory
  <2>2. QED
    BY <2>1 DEF Written, Memory
<1>4. \A a \in CamAddr : q[a] = IF a - b \in 0 .. Len(V) - 1 THEN V[a - b + 1] ELSE m[a]
  BY DEF Written
<1> HIDE DEF q
<1>5. ASSUME NEW x \in Whole
      PROVE  q[Cell(cam, x)] = IF x < Len(V) THEN V[x + 1] ELSE m[Cell(cam, x)]
  <2>1. Cell(cam, x) \in CamAddr /\ Cell(cam, x) - b = x /\ x \in Nat
    BY Cells DEF Whole
  <2>2. x \in 0 .. Len(V) - 1 <=> x < Len(V)
    BY <1>1, <2>1
  <2>3. QED
    BY <1>4, <2>1, <2>2
<1>6. ASSUME NEW c \in APCollunm, NEW x \in Whole, c # cam
      PROVE  q[Cell(c, x)] = m[Cell(c, x)]
  <2>1. Cell(c, x) \in CamAddr
    BY Cells
  <2>2. Cell(c, x) - b \notin 0 .. Len(V) - 1
    <3>1. SUFFICES ASSUME NEW y \in 0 .. Len(V) - 1, y = Cell(c, x) - b
                   PROVE  FALSE
      OBVIOUS
    <3>2. y \in Whole /\ Cell(c, x) = Cell(cam, y)
      <4>1. y \in Whole
        BY <1>1, ColSizeAssumption DEF Whole
      <4>2. Cell(c, x) \in Nat
        BY <1>2, <2>1
      <4>3. Cell(cam, y) = b + y
        BY DEF Cell
      <4>4. QED
        BY <1>2, <3>1, <4>1, <4>2, <4>3
    <3>3. QED
      BY <1>6, <3>2, Cells
  <2>3. QED
    BY <1>4, <2>1, <2>2
<1>7. QED
  BY <1>3, <1>5, <1>6 DEF q


LEMMA OperatedCells ==
  ASSUME NEW m \in Memory, NEW command \in OR .. MULT
  PROVE  /\ Operated(command, LEFT, TARGET_C, m) \in Memory
         /\ Operated(command, RIGHT, TARGET_C, m) \in Memory
         /\ \A c \in APCollunm \ {CAM_C}, x \in Whole :
              /\ Operated(command, LEFT, TARGET_C, m)[Cell(c, x)] = m[Cell(c, x)]
              /\ Operated(command, RIGHT, TARGET_C, m)[Cell(c, x)] = m[Cell(c, x)]
         /\ \A x \in Whole :
              /\ Operated(command, LEFT, TARGET_C, m)[Cell(CAM_C, x)]
                   = IF x \in Row THEN Alu(command, m[Cell(CAM_A, x)], m[Cell(CAM_B, x)]) ELSE m[Cell(CAM_C, x)]
              /\ Operated(command, RIGHT, TARGET_C, m)[Cell(CAM_C, x)]
                   = IF x \in Row THEN m[Cell(CAM_C, x)] ELSE Alu(command, m[Cell(CAM_A, x)], m[Cell(CAM_B, x)])
<1>1. command \in APOperations \ {SET} /\ command # SET /\ command # SEARCH /\ command # ADD_D /\ command \in 0 .. 6
  BY DEF APOperations, OR, MULT, SET, SEARCH, ADD_D
<1>2. LEFT \in InternalCol /\ RIGHT \in InternalCol /\ LEFT # RIGHT /\ TARGET_C # TARGET_A
  BY DEF LEFT, RIGHT, InternalCol, TARGET_C, TARGET_A
<1>3. ASSUME NEW half \in {0, 1}, NEW s \in InternalCol, \A c \in APCollunm : Selected(s, c) = CamBase(c, half),
             NEW r \in Row, NEW x \in Whole, \A c \in APCollunm : CamBase(c, half) + r = Cell(c, x)
      PROVE  /\ Alu(command, m[Cell(CAM_A, x)], m[Cell(CAM_B, x)]) \in Byte
             /\ RowResult(OpMode(command, s), m, r) = Alu(command, m[Cell(CAM_A, x)], m[Cell(CAM_B, x)])
  <2> DEFINE d == OpMode(command, s)
  <2>1. d.cmd = command /\ d.internal_col = s
    BY DEF OpMode, set_mode_reg
  <2>2. RowResult(d, m, r) = Alu(command, m[Selected(s, CAM_A) + r], m[Selected(s, CAM_B) + r])
    <3> HIDE DEF d
    <3> QED BY <1>1, <2>1, Zenon DEF RowResult
  <2>3. m[Selected(s, CAM_A) + r] = m[Cell(CAM_A, x)] /\ m[Selected(s, CAM_B) + r] = m[Cell(CAM_B, x)]
    BY <1>3, Cams
  <2>4. m[Cell(CAM_A, x)] \in Byte /\ m[Cell(CAM_B, x)] \in Byte
    BY Cams, Cells DEF Memory
  <2>5. Alu(command, m[Cell(CAM_A, x)], m[Cell(CAM_B, x)]) \in Byte
    BY <1>1, <2>4, AluAssumption
  <2>6. QED
    BY <2>2, <2>3, <2>5
<1> DEFINE g(half, r) == IF half = 0 THEN r ELSE r + AP_COL_SIZE
           F(half) == [r \in Row |-> Alu(command, m[Cell(CAM_A, g(half, r))], m[Cell(CAM_B, g(half, r))])]
<1>4. ASSUME NEW half \in {0, 1}, NEW s \in InternalCol, \A c \in APCollunm : Selected(s, c) = CamBase(c, half)
      PROVE  Writes(Operated(command, s, TARGET_C, m), m, CAM_C, half, Row, F(half))
  <2>1. ASSUME NEW r \in Row
        PROVE  F(half)[r] \in Byte /\ RowResult(OpMode(command, s), m, r) = F(half)[r]
    <3>1. PICK x : x = g(half, r)
      OBVIOUS
    <3>2. x \in Whole /\ \A c \in APCollunm : CamBase(c, half) + r = Cell(c, x)
      <4>1. CASE half = 0
        BY <3>1, <4>1, Cells, Cams
      <4>2. CASE half = 1
        BY <3>1, <4>2, Cells, Cams
      <4>3. QED
        BY <4>1, <4>2
    <3>3. F(half)[r] = Alu(command, m[Cell(CAM_A, x)], m[Cell(CAM_B, x)])
      BY <3>1
    <3> HIDE DEF F, g
    <3>4. QED
      BY <1>3, <1>4, <3>2, <3>3
  <2> HIDE DEF F
  <2>2. TARGET_C \in {TARGET_C, TARGET_A} /\ Selected(s, IF TARGET_C = TARGET_A THEN CAM_A ELSE CAM_C) = CamBase(CAM_C, half)
    BY <1>2, <1>4, Cams
  <2>3. QED
    BY <1>1, <2>1, <2>2, Cams, OperatedWrites
<1>5. ASSUME NEW half \in {0, 1}, NEW q, Writes(q, m, CAM_C, half, Row, F(half))
      PROVE  /\ q \in Memory
             /\ \A c \in APCollunm \ {CAM_C}, x \in Whole : q[Cell(c, x)] = m[Cell(c, x)]
             /\ \A x \in Whole : q[Cell(CAM_C, x)] =
                  IF (x \in Row) = (half = 0) THEN Alu(command, m[Cell(CAM_A, x)], m[Cell(CAM_B, x)]) ELSE m[Cell(CAM_C, x)]
  <2>1. q \in Memory
    BY <1>5 DEF Writes
  <2>2. ASSUME NEW c \in APCollunm, NEW h \in {0, 1}, NEW r \in Row
        PROVE  q[CamBase(c, h) + r] = IF c = CAM_C /\ h = half THEN F(half)[r] ELSE m[CamBase(c, h) + r]
    BY <1>5 DEF Writes
  <2>3. ASSUME NEW c \in APCollunm, NEW x \in Whole
        PROVE  \E h \in {0, 1}, r \in Row : x = g(h, r) /\ CamBase(c, h) + r = Cell(c, x) /\ (x \in Row <=> h = 0)
    <3>1. CASE x \in Row
      BY <3>1, Cells
    <3>2. CASE x \notin Row
      BY <3>2, Cells
    <3>3. QED
      BY <3>1, <3>2
  <2>4. ASSUME NEW c \in APCollunm, NEW x \in Whole
        PROVE  q[Cell(c, x)] = IF c = CAM_C /\ (x \in Row <=> half = 0) THEN Alu(command, m[Cell(CAM_A, x)], m[Cell(CAM_B, x)]) ELSE m[Cell(c, x)]
    <3>1. PICK h \in {0, 1}, r \in Row : x = g(h, r) /\ CamBase(c, h) + r = Cell(c, x) /\ (x \in Row <=> h = 0)
      BY <2>3
    <3>2. (x \in Row <=> half = 0) <=> h = half
      BY <3>1
    <3>3. F(h)[r] = Alu(command, m[Cell(CAM_A, x)], m[Cell(CAM_B, x)])
      BY <3>1
    <3> HIDE DEF F, g
    <3>4. QED
      BY <2>2, <3>1, <3>2, <3>3
  <2>5. QED
    BY <2>1, <2>4, Cams
<1> HIDE DEF F
<1>6. /\ Writes(Operated(command, LEFT, TARGET_C, m), m, CAM_C, 0, Row, F(0))
      /\ Writes(Operated(command, RIGHT, TARGET_C, m), m, CAM_C, 1, Row, F(1))
  BY <1>2, <1>4, Sides
<1>7. QED
  BY <1>5, <1>6


-----------------------------------------------------------------------------
(* Vectors longer than a column: slices, and both columns of a CAM.            *)


\* The device of the vector functions is that of the kernels.
LEMMA VecDevice ==
  /\ Vec!Row = Row /\ Vec!Byte = Byte /\ Vec!CamAddr = CamAddr /\ Vec!OR = OR /\ Vec!MULT = MULT
  /\ Vec!CAM_A = CAM_A /\ Vec!CAM_B = CAM_B /\ Vec!CAM_C = CAM_C /\ Vec!LEFT = LEFT /\ Vec!RIGHT = RIGHT
  /\ Vec!TARGET_C = TARGET_C
  /\ \A c, h : Vec!CamBase(c, h) = CamBase(c, h)
  /\ \A b, V, m : Vec!Written(b, V, m) = Written(b, V, m)
  /\ \A o \in OR .. MULT : \A s, t, m : Vec!Operated(o, s, t, m) = Operated(o, s, t, m)
<1>1. /\ Vec!Row = Row /\ Vec!Byte = Byte /\ Vec!CamAddr = CamAddr /\ Vec!OR = OR /\ Vec!MULT = MULT
      /\ Vec!CAM_A = CAM_A /\ Vec!CAM_B = CAM_B /\ Vec!CAM_C = CAM_C /\ Vec!LEFT = LEFT /\ Vec!RIGHT = RIGHT
      /\ Vec!TARGET_C = TARGET_C
  BY DEF Vec!Row, Row, Vec!Byte, Byte, Vec!CamAddr, CamAddr, Vec!OR, OR, Vec!MULT, MULT, Vec!CAM_A, CAM_A,
         Vec!CAM_B, CAM_B, Vec!CAM_C, CAM_C, Vec!LEFT, LEFT, Vec!RIGHT, RIGHT, Vec!TARGET_C, TARGET_C
<1>2. \A c, h : Vec!CamBase(c, h) = CamBase(c, h)
  BY DEF Vec!CamBase, CamBase
<1>3. \A b, V, m : Vec!Written(b, V, m) = Written(b, V, m)
  BY <1>1 DEF Vec!Written, Written
<1>4. \A s, c : Vec!Selected(s, c) = Selected(s, c)
  BY <1>1, <1>2 DEF Vec!Selected, Selected, Vec!Half, Half
<1>5. ASSUME NEW d, d.cmd \in OR .. MULT, NEW m, NEW r
      PROVE  Vec!RowResult(d, m, r) = RowResult(d, m, r)
  <2>1. d.cmd # SET /\ d.cmd # SEARCH /\ d.cmd # ADD_D
    BY <1>5 DEF OR, MULT, SET, SEARCH, ADD_D
  <2>2. Vec!SET = SET /\ Vec!SEARCH = SEARCH /\ Vec!ADD_D = ADD_D
    BY DEF Vec!SET, SET, Vec!SEARCH, SEARCH, Vec!ADD_D, ADD_D
  <2>3. RowResult(d, m, r) = Alu(d.cmd, m[Selected(d.internal_col, CAM_A) + r], m[Selected(d.internal_col, CAM_B) + r])
    BY <1>5, <2>1, Zenon DEF RowResult
  <2>4. Vec!RowResult(d, m, r)
          = Alu(d.cmd, m[Vec!Selected(d.internal_col, Vec!CAM_A) + r], m[Vec!Selected(d.internal_col, Vec!CAM_B) + r])
    <3>1. d.cmd \in Vec!OR .. Vec!MULT /\ d.cmd # Vec!SET /\ d.cmd # Vec!SEARCH /\ d.cmd # Vec!ADD_D
      BY <1>1, <1>5, <2>1, <2>2
    <3>2. QED
      BY <3>1, Zenon DEF Vec!RowResult
  <2>5. QED
    BY <1>1, <1>4, <2>3, <2>4
<1>6. \A c, d : Vec!Destination(c, d) = Destination(c, d)
  BY <1>1, <1>4 DEF Vec!Destination, Destination, Vec!SET, SET, Vec!TARGET_A, TARGET_A
<1>7. ASSUME NEW o \in OR .. MULT, NEW s, NEW t, NEW m
      PROVE  Vec!Operated(o, s, t, m) = Operated(o, s, t, m)
  <2>1. PICK c, d : c = set_control_reg(STATIC, t, TRUE, {}) /\ d = set_mode_reg(s, CAM_A, HORIZONTAL, o)
    OBVIOUS
  <2>2. c = Vec!set_control_reg(Vec!STATIC, t, TRUE, {})
    BY <2>1 DEF Vec!set_control_reg, set_control_reg, Vec!STATIC, STATIC
  <2>3. d = Vec!set_mode_reg(s, Vec!CAM_A, Vec!HORIZONTAL, o) /\ d.cmd = o
    BY <1>1, <2>1 DEF Vec!set_mode_reg, set_mode_reg, Vec!HORIZONTAL, HORIZONTAL
  <2>4. Vec!Computed(c, d, m, Row) = Computed(c, d, m, Row)
    BY <1>1, <1>5, <1>6, <2>3 DEF Vec!Computed, Computed
  <2>5. QED
    BY <1>1, <2>1, <2>2, <2>3, <2>4 DEF Vec!Operated, Operated
<1>8. QED
  BY <1>1, <1>2, <1>3, <1>7

\* Its calls.
LEMMA VecEffects ==
  ASSUME NEW m
  PROVE  /\ Vec!Effect(Vec!warmup[1], m) = Blank /\ Vec!warmup[1].fn = "warmup_ap"
         /\ \A cam, V : /\ Vec!Write(cam, V).fn = "ap_write_vector"
                        /\ Len(V) \in Nat /\ Len(V) <= AP_COL_SIZE =>
                             Vec!Effect(Vec!Write(cam, V), m) = Written(CamBase(cam, 0), V, m)
         /\ \A to, V : Vec!Effect([fn |-> "ap_memcpy_in", to |-> to, V |-> V], m) = Written(to, V, m)
         /\ \A cam, n : /\ Vec!Effect(Vec!Read(cam, n), m) = m /\ Vec!Read(cam, n).fn = "ap_read_vector"
                        /\ n \in Nat /\ n <= AP_COL_SIZE =>
                             Vec!Output(Vec!Read(cam, n), m) = [x \in 1 .. n |-> m[CamBase(cam, 0) + x - 1]]
         /\ \A n : /\ Vec!offload(n)[1].fn = "ap_memcpy_out" /\ Vec!Effect(Vec!offload(n)[1], m) = m
                  /\ Vec!Output(Vec!offload(n)[1], m) = [x \in 1 .. n |-> m[CamBase(CAM_C, 0) + x - 1]]
         /\ \A s : /\ op \in OR .. MULT => Vec!Effect(Vec!Compute(s), m) = Operated(op, s, TARGET_C, m)
                  /\ Vec!Compute(s).fn = "ap_trigger_computing_w_wait"
<1>1. Vec!Side(Vec!LEFT) = 0
  BY DEF Vec!Side
<1>2. Vec!Effect(Vec!warmup[1], m) = Blank /\ Vec!warmup[1].fn = "warmup_ap"
  BY VecDevice DEF Vec!Effect, Vec!warmup, Blank
<1>3. ASSUME NEW cam, NEW V
      PROVE  /\ Vec!Write(cam, V).fn = "ap_write_vector"
             /\ Len(V) \in Nat /\ Len(V) <= AP_COL_SIZE =>
                  Vec!Effect(Vec!Write(cam, V), m) = Written(CamBase(cam, 0), V, m)
  <2> DEFINE c == Vec!Write(cam, V)
  <2>1. c.fn = "ap_write_vector" /\ c.col = cam /\ c.internal_col = Vec!LEFT /\ c.V = V
    BY DEF Vec!Write
  <2> HIDE DEF c
  <2>2. Vec!Effect(c, m) = IF Len(c.V) > AP_COL_SIZE THEN m ELSE Vec!Written(Vec!CamBase(c.col, Vec!Side(c.internal_col)), c.V, m)
    BY <2>1 DEF Vec!Effect
  <2>3. (Len(V) \in Nat /\ Len(V) <= AP_COL_SIZE) => ~ (Len(V) > AP_COL_SIZE)
    BY ColSizeAssumption
  <2>4. QED
    BY <1>1, <2>1, <2>2, <2>3, VecDevice DEF c
<1>4. ASSUME NEW to, NEW V
      PROVE  Vec!Effect([fn |-> "ap_memcpy_in", to |-> to, V |-> V], m) = Written(to, V, m)
  BY VecDevice DEF Vec!Effect
<1>5. ASSUME NEW cam, NEW n
      PROVE  /\ Vec!Effect(Vec!Read(cam, n), m) = m /\ Vec!Read(cam, n).fn = "ap_read_vector"
             /\ n \in Nat /\ n <= AP_COL_SIZE =>
                  Vec!Output(Vec!Read(cam, n), m) = [x \in 1 .. n |-> m[CamBase(cam, 0) + x - 1]]
  <2> DEFINE c == Vec!Read(cam, n)
  <2>1. c.fn = "ap_read_vector" /\ c.col = cam /\ c.internal_col = Vec!LEFT /\ c.size = n
    BY DEF Vec!Read
  <2> HIDE DEF c
  <2>2. Vec!Effect(c, m) = m
    BY <2>1 DEF Vec!Effect
  <2>3. Vec!Output(c, m) = IF n > AP_COL_SIZE THEN << >> ELSE Vec!Bytes(CamBase(cam, 0), n, m)
    BY <1>1, <2>1, VecDevice DEF Vec!Output
  <2>4. (n \in Nat /\ n <= AP_COL_SIZE) => ~ (n > AP_COL_SIZE)
    BY ColSizeAssumption
  <2>5. QED
    BY <2>1, <2>2, <2>3, <2>4 DEF c, Vec!Bytes
<1>6. ASSUME NEW n
      PROVE  /\ Vec!offload(n)[1].fn = "ap_memcpy_out" /\ Vec!Effect(Vec!offload(n)[1], m) = m
             /\ Vec!Output(Vec!offload(n)[1], m) = [x \in 1 .. n |-> m[CamBase(CAM_C, 0) + x - 1]]
  <2> DEFINE c == Vec!offload(n)[1]
  <2>1. c.fn = "ap_memcpy_out" /\ c.from = CamBase(CAM_C, 0) /\ c.bytes = n
    BY VecDevice DEF Vec!offload
  <2> HIDE DEF c
  <2>2. Vec!Effect(c, m) = m /\ Vec!Output(c, m) = Vec!Bytes(CamBase(CAM_C, 0), n, m)
    BY <2>1 DEF Vec!Effect, Vec!Output
  <2>3. QED
    BY <2>1, <2>2 DEF c, Vec!Bytes
<1>7. ASSUME NEW s
      PROVE  /\ op \in OR .. MULT => Vec!Effect(Vec!Compute(s), m) = Operated(op, s, TARGET_C, m)
             /\ Vec!Compute(s).fn = "ap_trigger_computing_w_wait"
  <2> DEFINE c == Vec!Compute(s)
  <2>1. c.fn = "ap_trigger_computing_w_wait" /\ c.op = op /\ c.internal_col = s
    BY DEF Vec!Compute
  <2> HIDE DEF c
  <2>2. Vec!Effect(c, m) = Vec!Operated(op, s, Vec!TARGET_C, m)
    BY <2>1 DEF Vec!Effect
  <2>3. QED
    BY <2>1, <2>2, VecDevice DEF c
<1>8. QED
  BY <1>2, <1>3, <1>4, <1>5, <1>6, <1>7

\* Slices: all but the last are a column long, and none passes the end.
LEMMA SliceSizes ==
  ASSUME size \in Nat, NEW s \in 0 .. Vec!slices - 1
  PROVE  /\ Vec!slices = size \div AP_COL_SIZE + 1 /\ size \div AP_COL_SIZE \in Nat
         /\ s \in Nat /\ s <= size \div AP_COL_SIZE
         /\ Vec!start_index(s) \in Nat /\ Vec!start_index(s) = s * AP_COL_SIZE
         /\ Vec!chunk_size(s) \in Nat /\ Vec!chunk_size(s) <= AP_COL_SIZE
         /\ Vec!start_index(s) + Vec!chunk_size(s) <= size
         /\ Vec!chunk_size(s) = IF s = size \div AP_COL_SIZE THEN size % AP_COL_SIZE ELSE AP_COL_SIZE
<1> DEFINE q == size \div AP_COL_SIZE
           w == size % AP_COL_SIZE
<1>1. AP_COL_SIZE \in Nat /\ AP_COL_SIZE > 0
  BY ColSizeAssumption
<1>2. q \in Nat /\ w \in Nat /\ w < AP_COL_SIZE /\ size = AP_COL_SIZE * q + w
  BY <1>1
<1>3. Vec!slices = q + 1
  BY DEF Vec!slices
<1> HIDE DEF q, w
<1>4. s \in Nat /\ s <= q
  BY <1>2, <1>3
<1>5. s = q \/ s + 1 <= q
  BY <1>2, <1>4
<1>6. AP_COL_SIZE * s \in Nat /\ AP_COL_SIZE * (s + 1) = AP_COL_SIZE * s + AP_COL_SIZE /\ AP_COL_SIZE * s = s * AP_COL_SIZE
  BY <1>1, <1>4
<1>7. s + 1 <= q => AP_COL_SIZE * (s + 1) <= AP_COL_SIZE * q
  <2>1. \A x, y, n \in Nat : x <= y => n * x <= n * y
    OBVIOUS
  <2>2. QED
    BY <1>1, <1>2, <1>4, <2>1
<1>8. Vec!start_index(s) = AP_COL_SIZE * s
  BY DEF Vec!start_index
<1>9. Vec!chunk_size(s) = IF size < AP_COL_SIZE * s + AP_COL_SIZE THEN w ELSE AP_COL_SIZE
  BY <1>8 DEF Vec!chunk_size, w
<1>10. CASE s = q
  BY <1>1, <1>2, <1>3, <1>4, <1>6, <1>8, <1>9, <1>10 DEF q, w
<1>11. CASE s + 1 <= q
  <2>1. Vec!chunk_size(s) = AP_COL_SIZE /\ AP_COL_SIZE * s + AP_COL_SIZE <= size /\ s # q
    <3>1. AP_COL_SIZE * q \in Nat
      BY <1>1, <1>2
    <3>2. QED
      BY <1>1, <1>2, <1>4, <1>6, <1>7, <1>9, <1>11, <3>1
  <2>2. QED
    BY <1>1, <1>2, <1>3, <1>4, <1>6, <1>8, <2>1 DEF q
<1>12. QED
  BY <1>5, <1>10, <1>11

\* The newest of the first n slices that reaches a row; none is -1.
NewestOf(n, r) ==
  IF n > size \div AP_COL_SIZE
  THEN IF r < size % AP_COL_SIZE THEN size \div AP_COL_SIZE ELSE (size \div AP_COL_SIZE) - 1
  ELSE n - 1
Newest(n) ==
  [r \in Row |-> IF NewestOf(n, r) < 0 THEN 0 ELSE Vec!Golden(NewestOf(n, r) * AP_COL_SIZE + r)]

LEMMA NextSlice ==
  ASSUME size \in Nat, NEW s \in 0 .. Vec!slices - 1
  PROVE  [r \in Row |-> IF r < Vec!chunk_size(s) THEN Vec!Golden(Vec!start_index(s) + r) ELSE Newest(s)[r]]
           = Newest(s + 1)
<1> DEFINE q == size \div AP_COL_SIZE
<1>1. /\ q \in Nat /\ s \in Nat /\ s <= q /\ Vec!start_index(s) = s * AP_COL_SIZE
      /\ Vec!chunk_size(s) = IF s = q THEN size % AP_COL_SIZE ELSE AP_COL_SIZE
  BY SliceSizes
<1>2. \A r \in Row : r < AP_COL_SIZE
  BY ColSizeAssumption DEF Row
<1>3. ASSUME NEW r \in Row
      PROVE  Newest(s + 1)[r] = IF r < Vec!chunk_size(s) THEN Vec!Golden(Vec!start_index(s) + r) ELSE Newest(s)[r]
  <2>1. CASE s = q
    <3>1. s + 1 > q /\ ~ (s > q) /\ ~ (s < 0)
      BY <1>1, <2>1
    <3>2. NewestOf(s + 1, r) = (IF r < size % AP_COL_SIZE THEN s ELSE s - 1) /\ NewestOf(s, r) = s - 1
      BY <2>1, <3>1 DEF NewestOf
    <3>3. QED
      BY <1>1, <2>1, <3>1, <3>2 DEF Newest
  <2>2. CASE s # q
    <3>1. ~ (s + 1 > q) /\ (s + 1) - 1 = s /\ ~ (s < 0)
      BY <1>1, <2>2
    <3>2. NewestOf(s + 1, r) = s
      BY <3>1 DEF NewestOf
    <3>3. QED
      BY <1>1, <1>2, <2>2, <3>1, <3>2 DEF Newest
  <2>3. QED
    BY <2>1, <2>2
<1>4. Newest(s + 1) = [r \in Row |-> Newest(s + 1)[r]]
  BY DEF Newest
<1>5. QED
  BY <1>3, <1>4

\* At first there is none, and after the last it is NewestSlice's.
LEMMA NewestEnds ==
  ASSUME size \in Nat
  PROVE  /\ Newest(0) = Vec!Zero /\ Vec!slices \in Nat /\ Vec!slices > 0
         /\ \A r \in Row :
              LET s == IF r < size % AP_COL_SIZE THEN size \div AP_COL_SIZE ELSE (size \div AP_COL_SIZE) - 1
              IN  Newest(Vec!slices)[r] = IF s < 0 THEN 0 ELSE Vec!Golden(s * AP_COL_SIZE + r)
<1>1. size \div AP_COL_SIZE \in Nat /\ Vec!slices = size \div AP_COL_SIZE + 1
  BY ColSizeAssumption DEF Vec!slices
<1>2. \A r : NewestOf(0, r) < 0
  BY <1>1 DEF NewestOf
<1>3. Newest(0) = Vec!Zero
  BY <1>2, VecDevice DEF Newest, Vec!Zero
<1>4. Vec!slices > size \div AP_COL_SIZE
  BY <1>1
<1>5. \A r : NewestOf(Vec!slices, r) = IF r < size % AP_COL_SIZE THEN size \div AP_COL_SIZE ELSE (size \div AP_COL_SIZE) - 1
  BY <1>4 DEF NewestOf
<1>6. QED
  BY <1>1, <1>3, <1>5 DEF Newest


\* A call as a whole: what is left, and what it does.
LEMMA CallMade ==
  ASSUME NEW S, NEW L \in Seq(S), NEW p \in 0 .. Len(L), todo = Rest(L, p), Vec!HalCall
  PROVE  /\ p # Len(L) /\ p + 1 \in 0 .. Len(L) /\ p + 1 \in 1 .. Len(L) /\ todo' = Rest(L, p + 1)
         /\ last' = L[p + 1] /\ mem' = Vec!Effect(L[p + 1], mem) /\ out' = Vec!Output(L[p + 1], mem)
         /\ C' = (IF L[p + 1].fn # "ap_read_vector" THEN C
                  ELSE [x \in Row |-> IF x < Len(out') THEN out'[x + 1] ELSE C[x]])
         /\ data' = (IF L[p + 1].fn # "ap_memcpy_out" THEN data
                     ELSE [x \in 0 .. Vec!Both - 1 |-> IF x < Len(out') THEN out'[x + 1] ELSE data[x]])
         /\ UNCHANGED <<fn, op, size, A, B, i, phase, calls>>
<1>1. todo # << >> /\ last' = Head(todo) /\ todo' = Tail(todo)
  BY DEF Vec!HalCall
<1>2. p # Len(L) /\ Head(todo) = L[p + 1] /\ todo' = Rest(L, p + 1)
  BY <1>1, RestOfList
<1>3. p + 1 \in 0 .. Len(L) /\ p + 1 \in 1 .. Len(L)
  BY <1>2
<1>4. last' = L[p + 1]
  BY <1>1, <1>2
<1>5. QED
  BY <1>2, <1>3, <1>4, VecDevice DEF Vec!HalCall, Vec!args

\* What the client has handed over.
Arguments ==
  /\ fn \in {Vec!KernelFn, Vec!HorizontalFn} /\ op \in OR .. MULT /\ size \in Nat
  /\ fn = Vec!KernelFn => \A x \in 0 .. size - 1 : A[x] \in Byte /\ B[x] \in Byte
  /\ fn = Vec!HorizontalFn => \A x \in Whole : A[x] \in Byte /\ B[x] \in Byte

Starting ==
  todo = Vec!warmup /\ phase = "run" /\ i = 0 /\ C = Vec!Zero /\ last.fn # "ap_memcpy_out"

\* The first p calls of slice s have been made.
SliceMade(s, p) ==
  \A x \in 0 .. Vec!chunk_size(s) - 1 :
    /\ p >= 1 => mem[Cell(CAM_A, x)] = A[Vec!start_index(s) + x]
    /\ p >= 2 => mem[Cell(CAM_B, x)] = B[Vec!start_index(s) + x]
    /\ p >= 3 => mem[Cell(CAM_C, x)] = Vec!Golden(Vec!start_index(s) + x)

BetweenSlices ==
  /\ todo = << >> /\ phase \in {"run", "done"} /\ i \in 0 .. Vec!slices /\ (phase = "done" => i = Vec!slices)
  /\ C = Newest(i)
InSlice(s, p) ==
  /\ todo = Rest(Vec!SliceCalls(s), p) /\ phase = "run" /\ i = s + 1
  /\ C = Newest(s) /\ SliceMade(s, p)
Slicing ==
  /\ fn = Vec!KernelFn /\ mem \in Memory /\ last.fn # "ap_memcpy_out"
  /\ BetweenSlices \/ \E s \in 0 .. Vec!slices - 1, p \in 0 .. 3 : InSlice(s, p)

\* The elements that fit, and the calls that compute them.
Filled2 == IF size <= Vec!Both THEN size ELSE Vec!Both
Handled == size <= Vec!Both \/ size \in {2 * Vec!Both, 4 * Vec!Both}
Length ==
  IF size <= AP_COL_SIZE THEN 3 ELSE IF size <= Vec!Both THEN 4 ELSE IF size = 2 * Vec!Both THEN 7 ELSE 13
CallNo(y) ==
  IF y <= 2 THEN Vec!fill_a_b_cols(Filled2)[y]
  ELSE IF y % 3 = 0 THEN Vec!Compute(LEFT) ELSE IF y % 3 = 1 THEN Vec!Compute(RIGHT) ELSE Vec!offload(Vec!Both)[1]
HorizontalCalls == [y \in 1 .. Length |-> CallNo(y)]

ColumnsMade(p) ==
  \A x \in 0 .. Filled2 - 1 :
    /\ p >= 1 => mem[Cell(CAM_A, x)] = A[x]
    /\ p >= 2 => mem[Cell(CAM_B, x)] = B[x]
    /\ p >= 3 /\ (x \in Row \/ p >= 4) => mem[Cell(CAM_C, x)] = Vec!Golden(x)

InColumns(p) ==
  /\ todo = Rest(HorizontalCalls, p) /\ ColumnsMade(p)
  /\ last.fn = "ap_memcpy_out" => \A x \in 0 .. Vec!Both - 1 : data[x] = Vec!Golden(x)
Ended == Vec!offload(MONITOR) \o Vec!warmup
Spanning ==
  /\ fn = Vec!HorizontalFn /\ mem \in Memory
  /\ \/ todo = << >> /\ phase = "run" /\ last.fn # "ap_memcpy_out"
     \/ phase = "computed" /\ Handled /\ \E p \in 0 .. Length : InColumns(p)
     \/ phase = "computed" /\ ~Handled /\ todo = << >> /\ last.fn # "ap_memcpy_out"
     \/ phase = "done" /\ \E p \in 0 .. 1 : todo = Rest(Ended, p)
     \/ phase = "done" /\ todo = << >> /\ last.fn # "ap_memcpy_out" /\ mem = Blank

VectorsInv == Arguments /\ (Starting \/ Slicing \/ Spanning)

\* The invariant holds at first, and implies the properties.
LEMMA VectorArguments ==
  ASSUME Vec!VectorsAssumption, NEW f \in Functions, NEW command \in Ops, NEW n \in Sizes, NEW V \in Fills, NEW W \in Fills
  PROVE  /\ f \in {Vec!KernelFn, Vec!HorizontalFn} /\ command \in OR .. MULT /\ n \in Nat
         /\ f = Vec!KernelFn => \A x \in 0 .. n - 1 : Vec!VectorA(f, V, W)[x] \in Byte /\ Vec!VectorB(f, W)[x] \in Byte
         /\ f = Vec!HorizontalFn => \A x \in Whole : Vec!VectorA(f, V, W)[x] \in Byte /\ Vec!VectorB(f, W)[x] \in Byte
<1>1. f \in {Vec!KernelFn, Vec!HorizontalFn} /\ command \in OR .. MULT /\ n \in Nat
  BY VecDevice DEF Vec!VectorsAssumption, Vec!KernelFn, Vec!HorizontalFn
<1>2. \A x \in (0 .. n - 1) \cup Row : V[x] \in Byte /\ W[x] \in Byte
  BY VecDevice DEF Vec!VectorsAssumption
<1>3. ASSUME f = Vec!KernelFn, NEW x \in 0 .. n - 1
      PROVE  Vec!VectorA(f, V, W)[x] \in Byte /\ Vec!VectorB(f, W)[x] \in Byte
  BY <1>2, <1>3 DEF Vec!VectorA, Vec!VectorB
<1>4. ASSUME f = Vec!HorizontalFn, NEW x \in Whole
      PROVE  Vec!VectorA(f, V, W)[x] \in Byte /\ Vec!VectorB(f, W)[x] \in Byte
  <2>1. f # Vec!KernelFn /\ 0 \in Byte /\ Whole = 0 .. Vec!Both - 1
    BY <1>4, ByteModAssumption DEF Vec!KernelFn, Vec!HorizontalFn, Byte, Whole, Vec!Both
  <2>2. /\ Vec!VectorA(f, V, W)[x] = (IF x < AP_COL_SIZE THEN V[x] ELSE W[x - AP_COL_SIZE])
        /\ Vec!VectorB(f, W)[x] = (IF x < AP_COL_SIZE THEN W[x] ELSE 0)
    BY <1>4, <2>1 DEF Vec!VectorA, Vec!VectorB
  <2>3. (x < AP_COL_SIZE => x \in Row) /\ (~ (x < AP_COL_SIZE) => x - AP_COL_SIZE \in Row)
    BY ColSizeAssumption DEF Row, Whole
  <2>4. QED
    BY <1>2, <2>1, <2>2, <2>3
<1>5. QED
  BY <1>1, <1>3, <1>4

LEMMA VectorsInitInv == Vec!VectorsAssumption /\ Vec!InitVectors => VectorsInv
<1> SUFFICES ASSUME Vec!VectorsAssumption, Vec!InitVectors PROVE VectorsInv
  OBVIOUS
<1>1. PICK V \in Fills, W \in Fills : A = Vec!VectorA(fn, V, W) /\ B = Vec!VectorB(fn, W)
  BY DEF Vec!InitVectors
<1>2. fn \in Functions /\ op \in Ops /\ size \in Sizes
  BY DEF Vec!InitVectors
<1>3. Arguments
  BY <1>1, <1>2, VectorArguments DEF Arguments
<1>4. Starting
  BY DEF Vec!InitVectors, Starting
<1>5. QED
  BY <1>3, <1>4 DEF VectorsInv


LEMMA SameVectors ==
  ASSUME UNCHANGED <<fn, op, size, A, B>>
  PROVE  /\ Arguments' = Arguments /\ Vec!slices' = Vec!slices
         /\ \A s : /\ Vec!chunk_size(s)' = Vec!chunk_size(s) /\ Vec!start_index(s)' = Vec!start_index(s)
                   /\ Vec!SliceCalls(s)' = Vec!SliceCalls(s)
         /\ \A x : Vec!Golden(x)' = Vec!Golden(x)
         /\ \A n : Newest(n)' = Newest(n)
         /\ Filled2' = Filled2 /\ Handled' = Handled /\ Length' = Length /\ HorizontalCalls' = HorizontalCalls
<1>1. Arguments' = Arguments
  BY DEF Arguments
<1>2. Vec!slices' = Vec!slices
  BY DEF Vec!slices
<1>3. \A s : Vec!chunk_size(s)' = Vec!chunk_size(s) /\ Vec!start_index(s)' = Vec!start_index(s)
  BY DEF Vec!chunk_size, Vec!start_index
<1>4. \A s : Vec!Compute(s)' = Vec!Compute(s)
  BY DEF Vec!Compute
<1>5. \A s : Vec!SliceCalls(s)' = Vec!SliceCalls(s)
  BY <1>3, <1>4 DEF Vec!SliceCalls
<1>6. \A x : Vec!Golden(x)' = Vec!Golden(x)
  BY DEF Vec!Golden
<1>7. \A n : Newest(n)' = Newest(n)
  BY <1>6 DEF Newest, NewestOf
<1>8. Filled2' = Filled2 /\ Handled' = Handled /\ Length' = Length
  BY DEF Filled2, Handled, Length
<1>9. \A n : Vec!fill_a_b_cols(n)' = Vec!fill_a_b_cols(n)
  BY DEF Vec!fill_a_b_cols
<1>10. HorizontalCalls' = HorizontalCalls
  BY <1>4, <1>8, <1>9 DEF HorizontalCalls, CallNo
<1>11. QED
  BY <1>1, <1>2, <1>3, <1>5, <1>6, <1>7, <1>8, <1>10

\* The elements of a slice or of the columns are bytes.
LEMMA ElementsAreBytes ==
  ASSUME NEW V, NEW at \in Nat, NEW n \in Nat, \A x \in 0 .. n - 1 : V[at + x] \in Byte
  PROVE  /\ Vec!From(V, at, n) \in Seq(Byte) /\ Len(Vec!From(V, at, n)) = n
         /\ \A x \in 0 .. n - 1 : Vec!From(V, at, n)[x + 1] = V[at + x]
<1>1. ASSUME NEW r \in 1 .. n
      PROVE  V[at + r - 1] \in Byte
  <2>1. r - 1 \in 0 .. n - 1 /\ at + (r - 1) = at + r - 1
    OBVIOUS
  <2>2. QED
    BY <2>1
<1>2. ASSUME NEW x \in 0 .. n - 1
      PROVE  x + 1 \in 1 .. n /\ at + (x + 1) - 1 = at + x
  OBVIOUS
<1>3. QED
  BY <1>1, <1>2 DEF Vec!From

\* The four calls of a slice.
LEMMA SliceList ==
  ASSUME NEW s
  PROVE  /\ \E S : Vec!SliceCalls(s) \in Seq(S)
         /\ Len(Vec!SliceCalls(s)) = 4
         /\ Vec!SliceCalls(s)[1] = Vec!Write(CAM_A, Vec!From(A, Vec!start_index(s), Vec!chunk_size(s)))
         /\ Vec!SliceCalls(s)[2] = Vec!Write(CAM_B, Vec!From(B, Vec!start_index(s), Vec!chunk_size(s)))
         /\ Vec!SliceCalls(s)[3] = Vec!Compute(LEFT)
         /\ Vec!SliceCalls(s)[4] = Vec!Read(CAM_C, Vec!chunk_size(s))
<1>1. PICK a, b, c, d : /\ a = Vec!Write(CAM_A, Vec!From(A, Vec!start_index(s), Vec!chunk_size(s)))
                        /\ b = Vec!Write(CAM_B, Vec!From(B, Vec!start_index(s), Vec!chunk_size(s)))
                        /\ c = Vec!Compute(LEFT) /\ d = Vec!Read(CAM_C, Vec!chunk_size(s))
  OBVIOUS
<1>2. Vec!SliceCalls(s) = << a, b, c, d >>
  BY <1>1, VecDevice DEF Vec!SliceCalls
<1>3. /\ << a, b, c, d >> \in Seq({a, b, c, d}) /\ Len(<< a, b, c, d >>) = 4
      /\ << a, b, c, d >>[1] = a /\ << a, b, c, d >>[2] = b /\ << a, b, c, d >>[3] = c /\ << a, b, c, d >>[4] = d
  OBVIOUS
<1>4. PICK t : t = << a, b, c, d >>
  OBVIOUS
<1>5. Vec!SliceCalls(s) = t /\ t \in Seq({a, b, c, d}) /\ Len(t) = 4 /\ t[1] = a /\ t[2] = b /\ t[3] = c /\ t[4] = d
  BY <1>2, <1>3, <1>4, Zenon
<1>6. QED
  BY <1>1, <1>5


\* With nothing left to call, a kernel is between two slices.
LEMMA BetweenNow ==
  ASSUME VectorsInv, todo = << >>, fn = Vec!KernelFn
  PROVE  Arguments /\ BetweenSlices /\ mem \in Memory /\ last.fn # "ap_memcpy_out"
<1>1. fn # Vec!HorizontalFn /\ todo # Vec!warmup
  BY DEF Vec!KernelFn, Vec!HorizontalFn, Vec!warmup
<1>2. Arguments /\ Slicing
  BY <1>1 DEF VectorsInv, Starting, Spanning
<1>3. ASSUME NEW s \in 0 .. Vec!slices - 1, NEW p \in 0 .. 3, InSlice(s, p)
      PROVE  FALSE
  <2>1. PICK S : Vec!SliceCalls(s) \in Seq(S)
    BY SliceList
  <2>2. p \in 0 .. Len(Vec!SliceCalls(s)) /\ p # Len(Vec!SliceCalls(s))
    BY SliceList
  <2>3. QED
    BY <1>3, <2>1, <2>2, RestOfList DEF InSlice
<1>4. QED
  BY <1>2, <1>3 DEF Slicing

LEMMA SliceStep ==
  ASSUME VectorsInv, Vec!Slice
  PROVE  VectorsInv'
<1>1. /\ fn = Vec!KernelFn /\ phase = "run" /\ todo = << >> /\ i < Vec!slices
      /\ todo' = Vec!SliceCalls(i) /\ i' = i + 1
      /\ UNCHANGED <<mem, last, fn, op, size, A, B, C, phase>>
  BY DEF Vec!Slice, Vec!device, Vec!args
<1>2. Arguments /\ BetweenSlices /\ mem \in Memory /\ last.fn # "ap_memcpy_out"
  BY <1>1, BetweenNow
<1>3. PICK s : s = i
  OBVIOUS
<1>4. s \in 0 .. Vec!slices - 1 /\ C = Newest(s)
  BY <1>1, <1>2, <1>3, NewestEnds DEF BetweenSlices, Arguments
<1>5. Rest(Vec!SliceCalls(s), 0) = Vec!SliceCalls(s)
  BY SliceList, RestOfList
<1>6. InSlice(s, 0)'
  <2>1. todo' = Vec!SliceCalls(s)' /\ C' = Newest(s)' /\ Rest(Vec!SliceCalls(s), 0)' = Vec!SliceCalls(s)'
    BY <1>1, <1>3, <1>4, <1>5, SameVectors
  <2>2. QED
    BY <1>1, <1>3, <2>1 DEF InSlice, SliceMade
<1>7. Slicing' /\ Arguments'
  BY <1>1, <1>2, <1>4, <1>6, SameVectors DEF Slicing, Vec!KernelFn
<1>8. QED
  BY <1>7 DEF VectorsInv

LEMMA EndSlicesStep ==
  ASSUME VectorsInv, Vec!EndSlices
  PROVE  VectorsInv'
<1>1. /\ fn = Vec!KernelFn /\ phase = "run" /\ todo = << >> /\ i = Vec!slices /\ phase' = "done"
      /\ UNCHANGED <<mem, last, fn, op, size, A, B, C, i, todo>>
  BY DEF Vec!EndSlices, Vec!device, Vec!args
<1>2. Arguments /\ BetweenSlices /\ mem \in Memory /\ last.fn # "ap_memcpy_out"
  BY <1>1, BetweenNow
<1>3. BetweenSlices'
  <2>1. PICK n : n = i
    OBVIOUS
  <2>2. Newest(n)' = Newest(n) /\ Vec!slices' = Vec!slices
    BY <1>1, SameVectors
  <2>3. QED
    BY <1>1, <1>2, <2>1, <2>2 DEF BetweenSlices
<1>4. Slicing' /\ Arguments'
  BY <1>1, <1>2, <1>3, SameVectors DEF Slicing, Vec!KernelFn
<1>5. QED
  BY <1>4 DEF VectorsInv

\* A call of a slice.
LEMMA SliceCallStep ==
  ASSUME Arguments, Slicing, Vec!HalCall
  PROVE  Arguments' /\ Slicing'
<1>1. todo # << >>
  BY DEF Vec!HalCall
<1>2. PICK s \in 0 .. Vec!slices - 1, p \in 0 .. 3 : InSlice(s, p)
  BY <1>1 DEF Slicing, BetweenSlices
<1>3. PICK S, L : L = Vec!SliceCalls(s) /\ L \in Seq(S)
  BY SliceList
<1>4. PICK a, n : a = Vec!start_index(s) /\ n = Vec!chunk_size(s)
  OBVIOUS
<1>5. /\ fn = Vec!KernelFn /\ mem \in Memory /\ todo = Rest(L, p) /\ phase = "run" /\ i = s + 1 /\ C = Newest(s)
      /\ SliceMade(s, p) /\ size \in Nat /\ op \in OR .. MULT
  BY <1>2, <1>3 DEF Slicing, InSlice, Arguments
<1>6. /\ a \in Nat /\ n \in Nat /\ n <= AP_COL_SIZE /\ a + n <= size /\ s \in Nat /\ s + 1 \in 0 .. Vec!slices
  BY <1>4, <1>5, SliceSizes
<1>7. \A x \in 0 .. n - 1 : A[a + x] \in Byte /\ B[a + x] \in Byte
  <2>1. \A x \in 0 .. n - 1 : a + x \in 0 .. size - 1
    BY <1>5, <1>6
  <2>2. QED
    BY <1>5, <2>1 DEF Arguments
<1>8. \A x \in 0 .. n - 1 : x \in Row /\ x \in Whole
  BY <1>6, ColSizeAssumption DEF Row, Whole
<1>9. Len(L) = 4
  BY <1>3, SliceList
<1>10. /\ p + 1 \in 1 .. 4 /\ todo' = Rest(L, p + 1) /\ last' = L[p + 1] /\ mem' = Vec!Effect(L[p + 1], mem)
       /\ out' = Vec!Output(L[p + 1], mem)
       /\ C' = (IF L[p + 1].fn # "ap_read_vector" THEN C
                ELSE [x \in Row |-> IF x < Len(out') THEN out'[x + 1] ELSE C[x]])
       /\ UNCHANGED <<fn, op, size, A, B, i, phase>>
  <2>1. p \in 0 .. Len(L) /\ p + 1 \in 1 .. 4
    BY <1>9
  <2>2. QED
    BY <1>3, <1>5, <2>1, CallMade
<1>11. /\ Vec!From(A, a, n) \in Seq(Byte) /\ Len(Vec!From(A, a, n)) = n
       /\ Vec!From(B, a, n) \in Seq(Byte) /\ Len(Vec!From(B, a, n)) = n
       /\ \A x \in 0 .. n - 1 : Vec!From(A, a, n)[x + 1] = A[a + x] /\ Vec!From(B, a, n)[x + 1] = B[a + x]
  BY <1>6, <1>7, ElementsAreBytes
<1>12. Arguments'
  BY <1>10, SameVectors
<1>13. /\ L[1] = Vec!Write(CAM_A, Vec!From(A, a, n)) /\ L[2] = Vec!Write(CAM_B, Vec!From(B, a, n))
       /\ L[3] = Vec!Compute(LEFT) /\ L[4] = Vec!Read(CAM_C, n)
  BY <1>3, <1>4, SliceList
<1>14. \A x \in 0 .. n - 1 : /\ p >= 1 => mem[Cell(CAM_A, x)] = A[a + x]
                             /\ p >= 2 => mem[Cell(CAM_B, x)] = B[a + x]
                             /\ p >= 3 => mem[Cell(CAM_C, x)] = Vec!Golden(a + x)
  BY <1>4, <1>5 DEF SliceMade
<1>15. Vec!SliceCalls(s)' = L /\ Newest(s)' = Newest(s) /\ Newest(s + 1)' = Newest(s + 1)
       /\ Vec!slices' = Vec!slices /\ \A x : Vec!Golden(x)' = Vec!Golden(x)
       /\ Vec!start_index(s)' = a /\ Vec!chunk_size(s)' = n
  BY <1>3, <1>4, <1>10, SameVectors
<1>16. ASSUME p # 3, mem' \in Memory, last'.fn # "ap_memcpy_out", C' = C,
              \A x \in 0 .. n - 1 : /\ p + 1 >= 1 => mem'[Cell(CAM_A, x)] = A[a + x]
                                    /\ p + 1 >= 2 => mem'[Cell(CAM_B, x)] = B[a + x]
                                    /\ p + 1 >= 3 => mem'[Cell(CAM_C, x)] = Vec!Golden(a + x)
       PROVE  Slicing'
  <2>1. PICK z : z = p + 1
    OBVIOUS
  <2>2. z \in 0 .. 3
    BY <1>16, <2>1
  <2>3. SliceMade(s, z)'
    BY <1>10, <1>15, <1>16, <2>1 DEF SliceMade
  <2>4. InSlice(s, z)'
    BY <1>5, <1>10, <1>15, <1>16, <2>1, <2>3 DEF InSlice
  <2>5. QED
    BY <1>5, <1>10, <1>15, <1>16, <2>2, <2>4 DEF Slicing, Vec!KernelFn
<1>17. CASE p = 0
  <2>1. L[p + 1] = Vec!Write(CAM_A, Vec!From(A, a, n)) /\ p + 1 = 1
    BY <1>13, <1>17
  <2>2. mem' = Written(CamBase(CAM_A, 0), Vec!From(A, a, n), mem) /\ L[p + 1].fn = "ap_write_vector"
    BY <1>6, <1>10, <1>11, <2>1, VecEffects
  <2>3. mem' \in Memory /\ \A x \in 0 .. n - 1 : mem'[Cell(CAM_A, x)] = A[a + x]
    <3>1. PICK W, m : W = Vec!From(A, a, n) /\ m = Written(CamBase(CAM_A, 0), W, mem)
      OBVIOUS
    <3>2. W \in Seq(Byte) /\ Len(W) = n /\ Len(W) <= 2 * AP_COL_SIZE
      BY <1>6, <1>11, <3>1, ColSizeAssumption
    <3>3. /\ m \in Memory
          /\ \A x \in Whole : m[Cell(CAM_A, x)] = IF x < Len(W) THEN W[x + 1] ELSE mem[Cell(CAM_A, x)]
          /\ \A c \in APCollunm, x \in Whole : c # CAM_A => m[Cell(c, x)] = mem[Cell(c, x)]
      <4>1. mem \in Memory /\ CAM_A \in APCollunm
        BY <1>5, Cams
      <4>2. QED
        BY <3>1, <3>2, <4>1, WrittenCells
    <3>4. \A x \in 0 .. n - 1 : x < n
      BY <1>6
    <3>5. \A x \in 0 .. n - 1 : m[Cell(CAM_A, x)] = A[a + x]
      BY <1>8, <1>11, <3>1, <3>2, <3>3, <3>4, Cams
    <3>6. QED
      BY <2>2, <3>1, <3>3, <3>5
  <2>4. QED
    <3>1. ~ (p + 1 >= 2) /\ ~ (p + 1 >= 3) /\ p # 3 /\ last'.fn # "ap_memcpy_out" /\ C' = C
      BY <1>10, <1>17, <2>2
    <3>2. QED
      BY <1>12, <1>16, <2>3, <3>1
<1>18. CASE p = 1
  <2>1. L[p + 1] = Vec!Write(CAM_B, Vec!From(B, a, n)) /\ p + 1 = 2
    BY <1>13, <1>18
  <2>2. mem' = Written(CamBase(CAM_B, 0), Vec!From(B, a, n), mem) /\ L[p + 1].fn = "ap_write_vector"
    BY <1>6, <1>10, <1>11, <2>1, VecEffects
  <2>3. mem' \in Memory /\ \A x \in 0 .. n - 1 : mem'[Cell(CAM_B, x)] = B[a + x] /\ mem'[Cell(CAM_A, x)] = mem[Cell(CAM_A, x)]
    <3>1. PICK W, m : W = Vec!From(B, a, n) /\ m = Written(CamBase(CAM_B, 0), W, mem)
      OBVIOUS
    <3>2. W \in Seq(Byte) /\ Len(W) = n /\ Len(W) <= 2 * AP_COL_SIZE
      BY <1>6, <1>11, <3>1, ColSizeAssumption
    <3>3. /\ m \in Memory
          /\ \A x \in Whole : m[Cell(CAM_B, x)] = IF x < Len(W) THEN W[x + 1] ELSE mem[Cell(CAM_B, x)]
          /\ \A c \in APCollunm, x \in Whole : c # CAM_B => m[Cell(c, x)] = mem[Cell(c, x)]
      <4>1. mem \in Memory /\ CAM_B \in APCollunm
        BY <1>5, Cams
      <4>2. QED
        BY <3>1, <3>2, <4>1, WrittenCells
    <3>4. \A x \in 0 .. n - 1 : x < n
      BY <1>6
    <3>5. \A x \in 0 .. n - 1 : m[Cell(CAM_B, x)] = B[a + x] /\ m[Cell(CAM_A, x)] = mem[Cell(CAM_A, x)]
      BY <1>8, <1>11, <3>1, <3>2, <3>3, <3>4, Cams
    <3>6. QED
      BY <2>2, <3>1, <3>3, <3>5
  <2>4. QED
    <3>1. p >= 1 /\ ~ (p + 1 >= 3) /\ p # 3 /\ last'.fn # "ap_memcpy_out" /\ C' = C
      BY <1>10, <1>18, <2>2
    <3>2. \A x \in 0 .. n - 1 : mem'[Cell(CAM_A, x)] = A[a + x]
      BY <1>14, <2>3, <3>1
    <3>3. QED
      BY <1>12, <1>16, <2>3, <3>1, <3>2
<1>19. CASE p = 2
  <2>1. L[p + 1] = Vec!Compute(LEFT) /\ p + 1 = 3
    BY <1>13, <1>19
  <2>2. mem' = Operated(op, LEFT, TARGET_C, mem) /\ L[p + 1].fn = "ap_trigger_computing_w_wait"
    BY <1>5, <1>10, <2>1, VecEffects
  <2>3. mem' \in Memory
        /\ \A x \in 0 .. n - 1 : /\ mem'[Cell(CAM_A, x)] = mem[Cell(CAM_A, x)]
                                 /\ mem'[Cell(CAM_B, x)] = mem[Cell(CAM_B, x)]
                                 /\ mem'[Cell(CAM_C, x)] = Alu(op, mem[Cell(CAM_A, x)], mem[Cell(CAM_B, x)])
    BY <1>5, <1>8, <2>2, OperatedCells, Cams
  <2>4. \A x \in 0 .. n - 1 : mem'[Cell(CAM_C, x)] = Vec!Golden(a + x)
    BY <1>14, <1>19, <2>3 DEF Vec!Golden
  <2>5. QED
    <3>1. p >= 1 /\ p >= 2 /\ p # 3 /\ last'.fn # "ap_memcpy_out" /\ C' = C
      BY <1>10, <1>19, <2>2
    <3>2. \A x \in 0 .. n - 1 : mem'[Cell(CAM_A, x)] = A[a + x] /\ mem'[Cell(CAM_B, x)] = B[a + x]
      BY <1>14, <2>3, <3>1
    <3>3. QED
      BY <1>12, <1>16, <2>3, <2>4, <3>1, <3>2
<1>20. CASE p = 3
  <2>1. L[p + 1] = Vec!Read(CAM_C, n) /\ p + 1 = 4
    BY <1>13, <1>20
  <2>2. mem' = mem /\ L[p + 1].fn = "ap_read_vector" /\ out' = [x \in 1 .. n |-> mem[CamBase(CAM_C, 0) + x - 1]]
    BY <1>6, <1>10, <2>1, VecEffects
  <2>3. Len(out') = n /\ \A x \in 0 .. n - 1 : out'[x + 1] = mem[Cell(CAM_C, x)]
    <3>1. \A x \in 0 .. n - 1 : x + 1 \in 1 .. n /\ CamBase(CAM_C, 0) + (x + 1) - 1 = CamBase(CAM_C, 0) + x
      <4>1. CamBase(CAM_C, 0) \in Nat
        BY <1>8, ColSizeAssumption DEF CamBase, CAM_C
      <4>2. QED
        BY <1>6, <4>1
    <3>2. QED
      BY <1>6, <2>2, <3>1 DEF Cell
  <2>4. \A x \in Row : x < n => x \in 0 .. n - 1
    BY <1>6, ColSizeAssumption DEF Row
  <2>5. C' = [x \in Row |-> IF x < n THEN Vec!Golden(a + x) ELSE Newest(s)[x]]
    BY <1>5, <1>10, <1>14, <1>20, <2>2, <2>3, <2>4
  <2>6. C' = Newest(s + 1)
    BY <1>4, <1>5, <2>5, NextSlice
  <2>7. todo' = << >>
    <3>1. 4 \in 0 .. Len(L) /\ todo' = Rest(L, 4)
      BY <1>9, <1>10, <2>1
    <3>2. QED
      BY <1>3, <1>9, <3>1, RestOfList
  <2>8. PICK z : z = s + 1
    OBVIOUS
  <2>9. BetweenSlices'
    <3>1. z \in 0 .. Vec!slices /\ i' = z /\ phase' = "run" /\ C' = Newest(z)'
      BY <1>5, <1>6, <1>10, <1>15, <2>6, <2>8
    <3>2. QED
      BY <1>15, <2>7, <3>1 DEF BetweenSlices
  <2>10. QED
    <3>1. last'.fn # "ap_memcpy_out" /\ mem' \in Memory /\ fn' = Vec!KernelFn
      BY <1>5, <1>10, <2>2
    <3>2. QED
      BY <1>12, <2>9, <3>1 DEF Slicing, Vec!KernelFn
<1>21. QED
  BY <1>12, <1>17, <1>18, <1>19, <1>20


\* The first call, warmup_ap.
LEMMA WarmupStep ==
  ASSUME Arguments, Starting, Vec!HalCall
  PROVE  VectorsInv'
<1>1. PICK c, L : L = Vec!warmup /\ c = L[1] /\ L = << c >>
  BY DEF Vec!warmup
<1>2. L \in Seq({c}) /\ Len(L) = 1 /\ L[1] = c
  BY <1>1
<1>3. PICK p \in 0 .. Len(L) : p = 0 /\ p + 1 = 1
  BY <1>2
<1>4. todo = Rest(L, p)
  BY <1>1, <1>2, <1>3, RestOfList DEF Starting
<1>5. /\ todo' = << >> /\ last' = c /\ mem' = Vec!Effect(c, mem)
      /\ C' = (IF c.fn # "ap_read_vector" THEN C ELSE [x \in Row |-> IF x < Len(out') THEN out'[x + 1] ELSE C[x]])
      /\ UNCHANGED <<fn, op, size, A, B, i, phase>>
  <2>1. /\ todo' = Rest(L, p + 1) /\ last' = L[p + 1] /\ mem' = Vec!Effect(L[p + 1], mem)
        /\ C' = (IF L[p + 1].fn # "ap_read_vector" THEN C
                 ELSE [x \in Row |-> IF x < Len(out') THEN out'[x + 1] ELSE C[x]])
        /\ UNCHANGED <<fn, op, size, A, B, i, phase>>
    BY <1>2, <1>4, CallMade
  <2>2. Rest(L, 1) = << >>
    <3>1. 1 \in 0 .. Len(L)
      BY <1>2
    <3>2. QED
      BY <1>2, <3>1, RestOfList
  <2>3. QED
    BY <1>2, <1>3, <2>1, <2>2
<1>6. mem' = Blank /\ c.fn = "warmup_ap"
  BY <1>1, <1>5, VecEffects
<1>7. mem' \in Memory /\ last'.fn # "ap_memcpy_out" /\ C' = Vec!Zero /\ i' = 0 /\ phase' = "run"
  BY <1>5, <1>6, WarmedUp DEF Starting
<1>8. Arguments'
  BY <1>5, SameVectors
<1>9. CASE fn = Vec!KernelFn
  <2>1. Newest(0) = Vec!Zero /\ 0 \in 0 .. Vec!slices /\ Newest(0)' = Newest(0) /\ Vec!slices' = Vec!slices
        /\ 0 # Vec!slices
    BY <1>5, NewestEnds, SameVectors DEF Arguments
  <2>2. BetweenSlices'
    BY <1>5, <1>7, <2>1 DEF BetweenSlices
  <2>3. Slicing'
    BY <1>5, <1>7, <1>9, <2>2 DEF Slicing, Vec!KernelFn
  <2>4. QED
    BY <1>8, <2>3 DEF VectorsInv
<1>10. CASE fn = Vec!HorizontalFn
  <2>1. Spanning'
    BY <1>5, <1>7, <1>10 DEF Spanning, Vec!HorizontalFn
  <2>2. QED
    BY <1>8, <2>1 DEF VectorsInv
<1>11. QED
  BY <1>9, <1>10 DEF Arguments

-----------------------------------------------------------------------------
(* Both columns. *)

\* The calls that Horizontal makes, for every size that it handles.
LEMMA HorizontalList ==
  ASSUME size \in Nat, Handled
  PROVE  /\ \E S : HorizontalCalls \in Seq(S)
         /\ Len(HorizontalCalls) = Length /\ Length \in {3, 4, 7, 13}
         /\ \A y \in 1 .. Length : HorizontalCalls[y] = CallNo(y)
         /\ Filled2 \in Nat /\ Filled2 <= Vec!Both /\ Vec!Both = 2 * AP_COL_SIZE
         /\ Length = 3 => \A x \in 0 .. Filled2 - 1 : x \in Row
         /\ Length > 4 => Filled2 = Vec!Both
<1>1. AP_COL_SIZE \in Nat /\ AP_COL_SIZE > 0 /\ Vec!Both = 2 * AP_COL_SIZE
  BY ColSizeAssumption DEF Vec!Both
<1>2. Length \in {3, 4, 7, 13}
  BY DEF Length
<1>3. HorizontalCalls \in Seq({CallNo(y) : y \in 1 .. Length}) /\ Len(HorizontalCalls) = Length
  <2>1. Length \in Nat
    BY <1>2
  <2>2. QED
    BY <2>1 DEF HorizontalCalls
<1>4. \A y \in 1 .. Length : HorizontalCalls[y] = CallNo(y)
  BY DEF HorizontalCalls
<1>5. Filled2 \in Nat /\ Filled2 <= Vec!Both
  BY <1>1 DEF Filled2
<1>6. Length = 3 => \A x \in 0 .. Filled2 - 1 : x \in Row
  BY <1>1 DEF Length, Filled2, Row
<1>7. Length > 4 => Filled2 = Vec!Both
  BY <1>1 DEF Length, Filled2, Handled
<1>8. QED
  BY <1>1, <1>2, <1>3, <1>4, <1>5, <1>6, <1>7


LEMMA HorizontalStep ==
  ASSUME VectorsInv, Vec!Horizontal
  PROVE  VectorsInv'
<1>1. /\ fn = Vec!HorizontalFn /\ phase = "run" /\ todo = << >> /\ phase' = "computed"
      /\ UNCHANGED <<mem, last, fn, op, size, A, B>>
  BY DEF Vec!Horizontal, Vec!device, Vec!args
<1>2. fn # Vec!KernelFn /\ todo # Vec!warmup
  BY <1>1 DEF Vec!KernelFn, Vec!HorizontalFn, Vec!warmup
<1>3. Arguments /\ mem \in Memory /\ last.fn # "ap_memcpy_out" /\ size \in Nat
  BY <1>1, <1>2 DEF VectorsInv, Starting, Slicing, Spanning, Arguments
<1>4. Arguments' /\ mem' \in Memory /\ last'.fn # "ap_memcpy_out" /\ fn' = fn
  BY <1>1, <1>3, SameVectors
<1>5. AP_COL_SIZE \in Nat /\ AP_COL_SIZE > 0 /\ Vec!Both = 2 * AP_COL_SIZE
  BY ColSizeAssumption DEF Vec!Both
<1>6. CASE ~Handled
  <2>1. todo' = << >>
    BY <1>3, <1>5, <1>6 DEF Vec!Horizontal, Handled
  <2>2. Handled' = Handled
    BY <1>1, SameVectors
  <2>3. Spanning'
    BY <1>1, <1>4, <1>6, <2>1, <2>2 DEF Spanning, Vec!HorizontalFn
  <2>4. QED
    BY <1>4, <2>3 DEF VectorsInv
<1>7. CASE Handled
  <2> DEFINE f == Vec!fill_a_b_cols(Filled2)
  <2>1. PICK X : /\ todo' = f \o X /\ \E S : X \in Seq(S)
                 /\ Len(X) = Length - 2 /\ \A y \in 1 .. Length - 2 : X[y] = CallNo(y + 2)
    <3>1. CASE size <= AP_COL_SIZE
      <4>1. todo' = f \o << Vec!Compute(LEFT) >> /\ Length = 3
        BY <1>3, <1>5, <3>1, VecDevice DEF Vec!Horizontal, Filled2, Length
      <4>2. CallNo(3) = Vec!Compute(LEFT)
        BY DEF CallNo
      <4>3. PICK c, t : c = Vec!Compute(LEFT) /\ t = << c >>
        OBVIOUS
      <4>4. t \in Seq({c}) /\ Len(t) = 1 /\ t[1] = c
        BY <4>3
      <4>5. Len(t) = Length - 2 /\ \A y \in 1 .. Length - 2 : y = 1 /\ y + 2 = 3
        BY <4>1, <4>4
      <4>6. \A y \in 1 .. Length - 2 : t[y] = CallNo(y + 2)
        BY <4>2, <4>3, <4>4, <4>5
      <4>7. QED
        BY <4>1, <4>3, <4>4, <4>5, <4>6
    <3>2. CASE size > AP_COL_SIZE /\ size <= Vec!Both
      <4>1. todo' = f \o << Vec!Compute(LEFT), Vec!Compute(RIGHT) >> /\ Length = 4
        BY <1>3, <1>5, <3>2, VecDevice DEF Vec!Horizontal, Filled2, Length, Vec!computeBoth
      <4>2. CallNo(3) = Vec!Compute(LEFT) /\ CallNo(4) = Vec!Compute(RIGHT)
        BY DEF CallNo
      <4>3. PICK c, d, t : c = Vec!Compute(LEFT) /\ d = Vec!Compute(RIGHT) /\ t = << c, d >>
        OBVIOUS
      <4>4. t \in Seq({c, d}) /\ Len(t) = 2 /\ t[1] = c /\ t[2] = d
        BY <4>3
      <4>5. Len(t) = Length - 2 /\ \A y \in 1 .. Length - 2 : (y = 1 /\ y + 2 = 3) \/ (y = 2 /\ y + 2 = 4)
        BY <4>1, <4>4
      <4>6. \A y \in 1 .. Length - 2 : t[y] = CallNo(y + 2)
        BY <4>2, <4>3, <4>4, <4>5
      <4>7. QED
        BY <4>1, <4>3, <4>4, <4>5, <4>6
    <3>3. ASSUME NEW n \in {2, 4}, size = n * Vec!Both
          PROVE  todo' = f \o Vec!Rounds(n) /\ Length = 3 * n + 1
      <4>1. CASE n = 2
        <5>1. size = 2 * Vec!Both /\ ~ (size <= AP_COL_SIZE) /\ ~ (size <= Vec!Both) /\ size # 4 * Vec!Both
          BY <1>5, <3>3, <4>1
        <5>2. Filled2 = Vec!Both /\ Length = 7
          BY <5>1 DEF Filled2, Length
        <5>3. todo' = Vec!fill_a_b_cols(Vec!Both) \o Vec!Rounds(2)
          BY <5>1 DEF Vec!Horizontal
        <5>4. QED
          BY <4>1, <5>2, <5>3
      <4>2. CASE n = 4
        <5>1. size = 4 * Vec!Both /\ ~ (size <= AP_COL_SIZE) /\ ~ (size <= Vec!Both) /\ size # 2 * Vec!Both
          BY <1>5, <3>3, <4>2
        <5>2. Filled2 = Vec!Both /\ Length = 13
          BY <5>1 DEF Filled2, Length
        <5>3. todo' = Vec!fill_a_b_cols(Vec!Both) \o Vec!Rounds(4)
          BY <5>1 DEF Vec!Horizontal
        <5>4. QED
          BY <4>2, <5>2, <5>3
      <4>3. QED
        BY <4>1, <4>2
    <3>4. ASSUME NEW n \in {2, 4}, NEW y \in 1 .. 3 * n - 1
          PROVE  Vec!Rounds(n)[y] = CallNo(y + 2)
      <4>1. ~ (y + 2 <= 2) /\ (y % 3 = 0 <=> (y + 2) % 3 = 2) /\ (y % 3 = 1 <=> (y + 2) % 3 = 0) /\ (y % 3 = 2 <=> (y + 2) % 3 = 1)
            /\ y % 3 \in {0, 1, 2}
        OBVIOUS
      <4>2. Vec!computeBoth[1] = Vec!Compute(LEFT) /\ Vec!computeBoth[2] = Vec!Compute(RIGHT)
        BY VecDevice DEF Vec!computeBoth
      <4>3. Vec!Rounds(n)[y] = IF y % 3 = 0 THEN Vec!offload(Vec!Both)[1] ELSE Vec!computeBoth[y % 3]
        BY DEF Vec!Rounds
      <4>4. QED
        BY <4>1, <4>2, <4>3 DEF CallNo
    <3>5. ASSUME NEW n \in {2, 4}
          PROVE  (\E S : Vec!Rounds(n) \in Seq(S)) /\ Len(Vec!Rounds(n)) = 3 * n - 1
      <4>1. 3 * n - 1 \in Nat
        OBVIOUS
      <4>2. Vec!Rounds(n) \in Seq({Vec!Rounds(n)[y] : y \in 1 .. 3 * n - 1}) /\ Len(Vec!Rounds(n)) = 3 * n - 1
        <5> DEFINE r == Vec!Rounds(n)
        <5>1. r = [y \in 1 .. 3 * n - 1 |-> r[y]]
          BY DEF Vec!Rounds
        <5> HIDE DEF r
        <5>2. PICK S, l : S = {r[z] : z \in 1 .. 3 * n - 1} /\ l = 3 * n - 1
          OBVIOUS
        <5>3. l \in Nat /\ r = [y \in 1 .. l |-> r[y]] /\ \A y \in 1 .. l : r[y] \in S
          BY <4>1, <5>1, <5>2
        <5>4. r \in Seq(S) /\ Len(r) = l
          BY <5>3
        <5>5. QED
          BY <5>2, <5>4 DEF r
      <4>3. QED
        BY <4>2
    <3>6. ASSUME NEW n \in {2, 4}, size = n * Vec!Both
          PROVE  /\ todo' = f \o Vec!Rounds(n) /\ (\E S : Vec!Rounds(n) \in Seq(S)) /\ Len(Vec!Rounds(n)) = Length - 2
                 /\ \A y \in 1 .. Length - 2 : Vec!Rounds(n)[y] = CallNo(y + 2)
      <4>1. Length - 2 = 3 * n - 1
        BY <3>3, <3>6
      <4>2. QED
        BY <3>3, <3>4, <3>5, <3>6, <4>1
    <3>7. size <= AP_COL_SIZE \/ (size > AP_COL_SIZE /\ size <= Vec!Both) \/ \E n \in {2, 4} : size = n * Vec!Both
      BY <1>3, <1>5, <1>7 DEF Handled
    <3>8. QED
      BY <3>1, <3>2, <3>6, <3>7
  <2>2. PICK S : X \in Seq(S)
    BY <2>1
  <2>3. PICK T : HorizontalCalls \in Seq(T)
    BY <1>3, <1>7, HorizontalList
  <2>4. f \in Seq({f[1], f[2]}) /\ Len(f) = 2
    BY DEF Vec!fill_a_b_cols
  <2>5. /\ Len(HorizontalCalls) = Length /\ Length \in Nat /\ Length >= 3
        /\ \A y \in 1 .. Length : HorizontalCalls[y] = CallNo(y)
    BY <1>3, <1>7, HorizontalList
  <2>6. \A y \in 1 .. 2 : CallNo(y) = f[y]
    BY DEF CallNo
  <2>7. PICK g, U : g = f /\ U = {f[1], f[2]} \cup S \cup T
    OBVIOUS
  <2> HIDE DEF f
  <2>8. g \in Seq(U) /\ X \in Seq(U) /\ HorizontalCalls \in Seq(U) /\ Len(g) = 2
    BY <2>2, <2>3, <2>4, <2>7
  <2>9. /\ Len(HorizontalCalls) = Len(g) + Len(X)
        /\ \A x \in 1 .. Len(g) : HorizontalCalls[x] = g[x]
        /\ \A x \in 1 .. Len(X) : HorizontalCalls[Len(g) + x] = X[x]
    <3>1. Len(X) = Length - 2 /\ \A x \in 1 .. Len(X) : x + 2 \in 1 .. Length /\ 2 + x = x + 2
      BY <2>1, <2>5
    <3>2. \A x \in 1 .. 2 : x \in 1 .. Length
      BY <2>5
    <3>3. QED
      BY <2>1, <2>5, <2>6, <2>7, <2>8, <3>1, <3>2
  <2>10. todo' = HorizontalCalls
    <3>1. g \o X = HorizontalCalls
      BY <2>8, <2>9, Joined
    <3>2. QED
      BY <2>1, <2>7, <3>1
  <2>11. Rest(HorizontalCalls, 0) = HorizontalCalls
    <3>1. 0 \in 0 .. Len(HorizontalCalls)
      BY <2>5
    <3>2. QED
      BY <2>3, <3>1, RestOfList
  <2>12. HorizontalCalls' = HorizontalCalls /\ Length' = Length /\ Handled' = Handled
    BY <1>1, SameVectors
  <2>13. InColumns(0)'
    <3>1. Rest(HorizontalCalls, 0)' = HorizontalCalls'
      BY <2>11, <2>12 DEF Rest
    <3>2. QED
      BY <1>4, <2>10, <2>12, <3>1 DEF InColumns, ColumnsMade
  <2>14. Spanning'
    <3>1. 0 \in 0 .. Length'
      BY <2>5, <2>12
    <3>2. QED
      BY <1>1, <1>4, <1>7, <2>12, <2>13, <3>1 DEF Spanning, Vec!HorizontalFn
  <2>15. QED
    BY <1>4, <2>14 DEF VectorsInv
<1>8. QED
  BY <1>6, <1>7


\* The calls after the measurement: the first rows are copied out, and the columns reset.
LEMMA EndedList ==
  /\ \E S : Ended \in Seq(S)
  /\ Len(Ended) = 2 /\ Ended[1] = Vec!offload(MONITOR)[1] /\ Ended[2] = Vec!warmup[1]
<1>1. PICK a, b : a = Vec!offload(MONITOR)[1] /\ b = Vec!warmup[1]
  OBVIOUS
<1>2. Vec!offload(MONITOR) = << a >> /\ Vec!warmup = << b >>
  BY <1>1 DEF Vec!offload, Vec!warmup
<1>3. << a >> \o << b >> = << a, b >>
  <2>1. PICK s, t, u : s = << a >> /\ t = << b >> /\ u = << a, b >>
    OBVIOUS
  <2>2. /\ s \in Seq({a, b}) /\ t \in Seq({a, b}) /\ u \in Seq({a, b}) /\ Len(s) = 1 /\ Len(t) = 1 /\ Len(u) = 2
        /\ s[1] = a /\ t[1] = b /\ u[1] = a /\ u[2] = b
    BY <2>1
  <2>3. Len(u) = Len(s) + Len(t) /\ (\A x \in 1 .. Len(s) : u[x] = s[x]) /\ \A x \in 1 .. Len(t) : u[Len(s) + x] = t[x]
    BY <2>2
  <2>4. s \o t = u
    BY <2>2, <2>3, Joined, Zenon
  <2>5. QED
    BY <2>1, <2>4
<1>4. << a, b >> \in Seq({a, b}) /\ Len(<< a, b >>) = 2 /\ << a, b >>[1] = a /\ << a, b >>[2] = b
  OBVIOUS
<1>5. PICK t : t = << a, b >>
  OBVIOUS
<1>6. Ended = t /\ t \in Seq({a, b}) /\ Len(t) = 2 /\ t[1] = a /\ t[2] = b
  BY <1>2, <1>3, <1>4, <1>5, Zenon DEF Ended
<1>7. QED
  BY <1>1, <1>6

LEMMA EndHorizontalStep ==
  ASSUME VectorsInv, Vec!EndHorizontal
  PROVE  VectorsInv'
<1>1. /\ fn = Vec!HorizontalFn /\ phase = "computed" /\ todo = << >> /\ phase' = "done"
      /\ todo' = Ended
      /\ UNCHANGED <<mem, last, fn, op, size, A, B>>
  BY DEF Vec!EndHorizontal, Vec!device, Vec!args, Ended
<1>2. fn # Vec!KernelFn /\ todo # Vec!warmup
  BY <1>1 DEF Vec!KernelFn, Vec!HorizontalFn, Vec!warmup
<1>3. Arguments /\ mem \in Memory
  BY <1>1, <1>2 DEF VectorsInv, Starting, Slicing, Spanning
<1>4. Arguments' /\ mem' \in Memory
  BY <1>1, <1>3, SameVectors
<1>5. PICK S, L : L = Ended /\ L \in Seq(S) /\ Len(L) = 2
  BY EndedList
<1>6. Rest(L, 0) = L /\ Ended' = Ended
  <2>1. 0 \in 0 .. Len(L)
    BY <1>5
  <2>2. QED
    BY <1>5, <2>1, RestOfList DEF Ended, Vec!offload, Vec!warmup
<1>7. 0 \in 0 .. 1 /\ todo' = Rest(Ended, 0)'
  BY <1>1, <1>5, <1>6
<1>8. Spanning'
  BY <1>1, <1>4, <1>7 DEF Spanning, Vec!HorizontalFn
<1>9. QED
  BY <1>4, <1>8 DEF VectorsInv

\* A call after the measurement.
LEMMA EndedCallStep ==
  ASSUME Arguments, fn = Vec!HorizontalFn, mem \in Memory, phase = "done", NEW p \in 0 .. 1, todo = Rest(Ended, p), Vec!HalCall
  PROVE  Arguments' /\ Spanning'
<1>1. PICK S, L : L = Ended /\ L \in Seq(S) /\ Len(L) = 2 /\ L[1] = Vec!offload(MONITOR)[1] /\ L[2] = Vec!warmup[1]
  BY EndedList
<1>2. /\ todo' = Rest(L, p + 1) /\ last' = L[p + 1] /\ mem' = Vec!Effect(L[p + 1], mem)
      /\ UNCHANGED <<fn, op, size, A, B, i, phase>>
  <2>1. p \in 0 .. Len(L)
    BY <1>1
  <2>2. QED
    BY <1>1, <2>1, CallMade
<1>3. Arguments' /\ Ended' = L
  BY <1>1, <1>2, SameVectors DEF Ended, Vec!offload, Vec!warmup
<1>4. CASE p = 0
  <2>1. todo' = Rest(L, 1) /\ mem' = mem
    <3>1. p + 1 = 1
      BY <1>4
    <3>2. Vec!Effect(Vec!offload(MONITOR)[1], mem) = mem
      BY VecEffects
    <3>3. L[p + 1] = Vec!offload(MONITOR)[1]
      BY <1>1, <3>1
    <3>4. QED
      BY <1>2, <3>1, <3>2, <3>3
  <2>2. 1 \in 0 .. 1 /\ todo' = Rest(Ended, 1)'
    BY <1>3, <2>1 DEF Rest
  <2>3. QED
    BY <1>2, <1>3, <2>1, <2>2 DEF Spanning, Vec!HorizontalFn
<1>5. CASE p = 1
  <2>1. p + 1 = 2 /\ 2 \in 0 .. Len(L)
    BY <1>1, <1>5
  <2>2. mem' = Blank /\ last'.fn # "ap_memcpy_out" /\ todo' = << >>
    <3>1. Vec!Effect(Vec!warmup[1], mem) = Blank /\ Vec!warmup[1].fn = "warmup_ap"
      BY VecEffects
    <3>2. L[p + 1] = Vec!warmup[1]
      BY <1>1, <2>1
    <3>3. Rest(L, 2) = << >>
      BY <1>1, <2>1, RestOfList
    <3>4. QED
      BY <1>2, <2>1, <3>1, <3>2, <3>3
  <2>3. mem' \in Memory /\ Blank' = Blank
    BY <2>2, WarmedUp DEF Blank
  <2>4. QED
    BY <1>2, <1>3, <2>2, <2>3 DEF Spanning, Vec!HorizontalFn
<1>6. QED
  BY <1>4, <1>5


\* A call on both columns.
LEMMA ColumnsCallStep ==
  ASSUME Arguments, fn = Vec!HorizontalFn, mem \in Memory, phase = "computed", Handled,
         NEW p \in 0 .. Length, InColumns(p), Vec!HalCall
  PROVE  Arguments' /\ Spanning'
<1>1. PICK S, L : L = HorizontalCalls /\ L \in Seq(S)
  BY HorizontalList DEF Arguments
<1>2. PICK n, l : n = Filled2 /\ l = Length
  OBVIOUS
<1>3. /\ Len(L) = l /\ l \in {3, 4, 7, 13} /\ (\A y \in 1 .. l : L[y] = CallNo(y))
      /\ n \in Nat /\ n <= Vec!Both /\ Vec!Both = 2 * AP_COL_SIZE
      /\ (l = 3 => \A x \in 0 .. n - 1 : x \in Row)
      /\ (l > 4 => n = Vec!Both)
  BY <1>1, <1>2, HorizontalList DEF Arguments
<1>4. todo = Rest(L, p) /\ op \in OR .. MULT /\ \A x \in Whole : A[x] \in Byte /\ B[x] \in Byte
  BY <1>1 DEF InColumns, Arguments
<1>5. /\ p # l /\ p + 1 \in 0 .. l /\ p + 1 \in 1 .. l /\ todo' = Rest(L, p + 1)
      /\ last' = L[p + 1] /\ mem' = Vec!Effect(L[p + 1], mem) /\ out' = Vec!Output(L[p + 1], mem)
      /\ data' = (IF L[p + 1].fn # "ap_memcpy_out" THEN data
                  ELSE [x \in 0 .. Vec!Both - 1 |-> IF x < Len(out') THEN out'[x + 1] ELSE data[x]])
      /\ UNCHANGED <<fn, op, size, A, B, i, phase>>
  BY <1>2, <1>3, <1>1, <1>4, CallMade
<1>6. PICK z : z = p + 1
  OBVIOUS
<1>7. z \in 1 .. l /\ z \in 0 .. l /\ z = p + 1 /\ L[z] = CallNo(z) /\ p \in Nat
  BY <1>2, <1>3, <1>5, <1>6
<1>8. /\ Arguments' /\ HorizontalCalls' = L /\ Filled2' = n /\ Length' = l /\ Handled'
      /\ \A x : Vec!Golden(x)' = Vec!Golden(x)
  BY <1>1, <1>2, <1>5, SameVectors
<1>9. \A x \in 0 .. n - 1 : x \in Whole /\ x < n /\ x \in Nat
  BY <1>3, ColSizeAssumption DEF Whole
<1>10. \A x \in 0 .. n - 1 : /\ p >= 1 => mem[Cell(CAM_A, x)] = A[x]
                             /\ p >= 2 => mem[Cell(CAM_B, x)] = B[x]
                             /\ p >= 3 /\ (x \in Row \/ p >= 4) => mem[Cell(CAM_C, x)] = Vec!Golden(x)
  BY <1>2 DEF InColumns, ColumnsMade
<1>11. ASSUME mem' \in Memory,
              last'.fn = "ap_memcpy_out" => \A x \in 0 .. Vec!Both - 1 : data'[x] = Vec!Golden(x),
              \A x \in 0 .. n - 1 : /\ z >= 1 => mem'[Cell(CAM_A, x)] = A[x]
                                    /\ z >= 2 => mem'[Cell(CAM_B, x)] = B[x]
                                    /\ z >= 3 /\ (x \in Row \/ z >= 4) => mem'[Cell(CAM_C, x)] = Vec!Golden(x)
       PROVE  Spanning'
  <2>1. ColumnsMade(z)'
    BY <1>5, <1>8, <1>11 DEF ColumnsMade
  <2>2. InColumns(z)'
    <3>1. todo' = Rest(HorizontalCalls, z)'
      BY <1>5, <1>6, <1>8 DEF Rest
    <3>2. \A x \in 0 .. Vec!Both - 1 : Vec!Golden(x)' = Vec!Golden(x)
      BY <1>8
    <3>3. QED
      BY <1>11, <2>1, <3>1, <3>2 DEF InColumns, Vec!Both
  <2>3. QED
    BY <1>5, <1>7, <1>8, <1>11, <2>2 DEF Spanning, Vec!HorizontalFn
<1>12. \A V \in {A, B} : /\ Vec!From(V, 0, n) \in Seq(Byte) /\ Len(Vec!From(V, 0, n)) = n
                         /\ \A x \in 0 .. n - 1 : Vec!From(V, 0, n)[x + 1] = V[x]
  <2>1. ASSUME NEW V \in {A, B}
        PROVE  /\ Vec!From(V, 0, n) \in Seq(Byte) /\ Len(Vec!From(V, 0, n)) = n
               /\ \A x \in 0 .. n - 1 : Vec!From(V, 0, n)[x + 1] = V[x]
    <3>1. PICK at \in Nat : at = 0
      OBVIOUS
    <3>2. \A x \in 0 .. n - 1 : at + x = x /\ V[x] \in Byte
      BY <1>4, <1>9, <3>1
    <3>3. \A x \in 0 .. n - 1 : V[at + x] \in Byte
      BY <3>2
    <3>4. /\ Vec!From(V, at, n) \in Seq(Byte) /\ Len(Vec!From(V, at, n)) = n
          /\ \A x \in 0 .. n - 1 : Vec!From(V, at, n)[x + 1] = V[at + x]
      <4>1. n \in Nat
        BY <1>3
      <4>2. QED
        BY <3>3, <4>1, ElementsAreBytes
    <3>5. QED
      BY <3>1, <3>2, <3>4
  <2>2. QED
    BY <2>1
<1>13. ASSUME NEW cam \in APCollunm, NEW V \in {A, B}, mem' = Written(CamBase(cam, 0), Vec!From(V, 0, n), mem)
       PROVE  /\ mem' \in Memory
              /\ \A x \in 0 .. n - 1 : /\ mem'[Cell(cam, x)] = V[x]
                                       /\ \A c \in APCollunm : c # cam => mem'[Cell(c, x)] = mem[Cell(c, x)]
  <2>1. PICK W, m : W = Vec!From(V, 0, n) /\ m = Written(CamBase(cam, 0), W, mem)
    OBVIOUS
  <2>2. W \in Seq(Byte) /\ Len(W) = n /\ Len(W) <= 2 * AP_COL_SIZE /\ \A x \in 0 .. n - 1 : W[x + 1] = V[x]
    BY <1>3, <1>12, <2>1
  <2>3. /\ m \in Memory
        /\ \A x \in Whole : m[Cell(cam, x)] = IF x < Len(W) THEN W[x + 1] ELSE mem[Cell(cam, x)]
        /\ \A c \in APCollunm, x \in Whole : c # cam => m[Cell(c, x)] = mem[Cell(c, x)]
    BY <2>1, <2>2, WrittenCells
  <2>4. QED
    BY <1>9, <1>13, <2>1, <2>2, <2>3
<1>14. \A y \in {1, 2} : CallNo(y) = Vec!fill_a_b_cols(n)[y]
  BY <1>2 DEF CallNo
<1>15. CASE p = 0
  <2>1. z = 1 /\ L[p + 1] = [fn |-> "ap_memcpy_in", to |-> CamBase(CAM_A, 0), V |-> Vec!From(A, 0, n)]
    BY <1>6, <1>7, <1>14, <1>15, VecDevice DEF Vec!fill_a_b_cols
  <2>2. mem' = Written(CamBase(CAM_A, 0), Vec!From(A, 0, n), mem)
    BY <1>5, <2>1, VecEffects
  <2>3. mem' \in Memory /\ \A x \in 0 .. n - 1 : mem'[Cell(CAM_A, x)] = A[x]
    BY <1>13, <2>2, Cams
  <2>4. last'.fn # "ap_memcpy_out"
    BY <1>5, <2>1
  <2>5. ~ (z >= 2) /\ ~ (z >= 3)
    BY <2>1
  <2>6. QED
    BY <1>8, <1>11, <2>3, <2>4, <2>5
<1>16. CASE p = 1
  <2>1. z = 2 /\ L[p + 1] = [fn |-> "ap_memcpy_in", to |-> CamBase(CAM_B, 0), V |-> Vec!From(B, 0, n)]
    BY <1>6, <1>7, <1>14, <1>16, VecDevice DEF Vec!fill_a_b_cols
  <2>2. mem' = Written(CamBase(CAM_B, 0), Vec!From(B, 0, n), mem)
    BY <1>5, <2>1, VecEffects
  <2>3. mem' \in Memory /\ \A x \in 0 .. n - 1 : mem'[Cell(CAM_A, x)] = A[x] /\ mem'[Cell(CAM_B, x)] = B[x]
    BY <1>10, <1>13, <1>16, <2>2, Cams
  <2>4. last'.fn # "ap_memcpy_out"
    BY <1>5, <2>1
  <2>5. ~ (z >= 3)
    BY <2>1
  <2>6. QED
    BY <1>8, <1>11, <2>3, <2>4, <2>5
<1>17. p \in {0, 1} \/ p >= 2
  BY <1>7
<1>18. ASSUME NEW s \in {LEFT, RIGHT}, L[p + 1] = Vec!Compute(s)
       PROVE  /\ last'.fn # "ap_memcpy_out" /\ mem' = Operated(op, s, TARGET_C, mem) /\ mem' \in Memory
              /\ \A x \in 0 .. n - 1 :
                   /\ mem'[Cell(CAM_A, x)] = mem[Cell(CAM_A, x)] /\ mem'[Cell(CAM_B, x)] = mem[Cell(CAM_B, x)]
                   /\ mem'[Cell(CAM_C, x)] = IF (x \in Row) = (s = LEFT) THEN Alu(op, mem[Cell(CAM_A, x)], mem[Cell(CAM_B, x)])
                                             ELSE mem[Cell(CAM_C, x)]
  <2>1. mem' = Operated(op, s, TARGET_C, mem) /\ last'.fn # "ap_memcpy_out"
    BY <1>4, <1>5, <1>18, VecEffects
  <2>2. LEFT # RIGHT
    BY DEF LEFT, RIGHT
  <2>3. CASE s = LEFT
    BY <1>4, <1>9, <2>1, <2>2, <2>3, OperatedCells, Cams
  <2>4. CASE s = RIGHT
    BY <1>4, <1>9, <2>1, <2>2, <2>4, OperatedCells, Cams
  <2>5. QED
    BY <2>1, <2>3, <2>4
<1>19. CASE p >= 2 /\ z % 3 = 0
  <2>1. L[p + 1] = Vec!Compute(LEFT) /\ z >= 3
    BY <1>6, <1>7, <1>19 DEF CallNo
  <2>2. mem' \in Memory /\ last'.fn # "ap_memcpy_out"
    BY <1>18, <2>1
  <2>3. \A x \in 0 .. n - 1 : mem'[Cell(CAM_A, x)] = A[x] /\ mem'[Cell(CAM_B, x)] = B[x]
    BY <1>10, <1>18, <1>19, <1>7, <2>1
  <2>4. ASSUME NEW x \in 0 .. n - 1, x \in Row \/ z >= 4
        PROVE  mem'[Cell(CAM_C, x)] = Vec!Golden(x)
    <3>1. CASE x \in Row
      BY <1>10, <1>18, <1>19, <1>7, <2>1, <3>1 DEF Vec!Golden
    <3>2. CASE x \notin Row
      <4>1. p >= 3 /\ p >= 4
        BY <1>7, <1>19, <2>4, <3>2
      <4>2. QED
        BY <1>10, <1>18, <2>1, <3>2, <4>1
    <3>3. QED
      BY <3>1, <3>2
  <2>5. QED
    BY <1>8, <1>11, <2>2, <2>3, <2>4
<1>20. CASE p >= 2 /\ z % 3 = 1
  <2>1. L[p + 1] = Vec!Compute(RIGHT) /\ z >= 4 /\ p >= 3 /\ RIGHT # LEFT
    <3>1. z >= 4 /\ p >= 3 /\ ~ (z <= 2) /\ z % 3 # 0
      BY <1>7, <1>20
    <3>2. QED
      BY <1>6, <1>7, <1>20, <3>1 DEF CallNo, RIGHT, LEFT
  <2>2. mem' \in Memory /\ last'.fn # "ap_memcpy_out"
    BY <1>18, <2>1
  <2>3. \A x \in 0 .. n - 1 : mem'[Cell(CAM_A, x)] = A[x] /\ mem'[Cell(CAM_B, x)] = B[x]
    BY <1>10, <1>18, <1>20, <1>7, <2>1
  <2>4. ASSUME NEW x \in 0 .. n - 1
        PROVE  mem'[Cell(CAM_C, x)] = Vec!Golden(x)
    <3>1. CASE x \in Row
      BY <1>10, <1>18, <2>1, <3>1
    <3>2. CASE x \notin Row
      BY <1>10, <1>18, <1>20, <1>7, <2>1, <3>2 DEF Vec!Golden
    <3>3. QED
      BY <3>1, <3>2
  <2>5. QED
    BY <1>8, <1>11, <2>2, <2>3, <2>4
<1>21. CASE p >= 2 /\ z % 3 = 2
  <2>1. L[p + 1] = Vec!offload(Vec!Both)[1] /\ z >= 5 /\ p >= 4 /\ n = Vec!Both
    <3>1. z >= 5 /\ p >= 4 /\ ~ (z <= 2) /\ z % 3 # 0 /\ z % 3 # 1 /\ l > 4
      BY <1>3, <1>7, <1>21
    <3>2. QED
      BY <1>3, <1>6, <1>7, <3>1 DEF CallNo
  <2>2. mem' = mem /\ out' = [x \in 1 .. n |-> mem[CamBase(CAM_C, 0) + x - 1]] /\ L[p + 1].fn = "ap_memcpy_out"
    BY <1>5, <2>1, VecEffects
  <2>3. \A x \in 0 .. n - 1 : mem[Cell(CAM_C, x)] = Vec!Golden(x)
    BY <1>10, <1>7, <2>1
  <2>4. Len(out') = n /\ \A x \in 0 .. n - 1 : out'[x + 1] = mem[Cell(CAM_C, x)]
    <3>1. \A x \in 0 .. n - 1 : x + 1 \in 1 .. n /\ CamBase(CAM_C, 0) + (x + 1) - 1 = CamBase(CAM_C, 0) + x
      <4>1. CamBase(CAM_C, 0) \in Nat
        BY ColSizeAssumption DEF CamBase, CAM_C
      <4>2. QED
        BY <1>3, <4>1
    <3>2. QED
      BY <1>3, <2>2, <3>1 DEF Cell
  <2>5. \A x \in 0 .. Vec!Both - 1 : data'[x] = Vec!Golden(x)
    BY <1>5, <1>9, <2>1, <2>2, <2>3, <2>4
  <2>6. \A x \in 0 .. n - 1 : mem'[Cell(CAM_A, x)] = A[x] /\ mem'[Cell(CAM_B, x)] = B[x] /\ mem'[Cell(CAM_C, x)] = Vec!Golden(x)
    BY <1>10, <1>7, <2>1, <2>2, <2>3
  <2>7. QED
    BY <1>8, <1>11, <2>2, <2>5, <2>6
<1>22. z % 3 \in {0, 1, 2}
  BY <1>7
<1>23. QED
  BY <1>15, <1>16, <1>17, <1>19, <1>20, <1>21, <1>22


LEMMA VectorsCallStep ==
  ASSUME VectorsInv, Vec!HalCall
  PROVE  VectorsInv'
<1>1. Arguments /\ todo # << >>
  BY DEF VectorsInv, Vec!HalCall
<1>2. CASE Starting
  BY <1>1, <1>2, WarmupStep
<1>3. CASE Slicing
  BY <1>1, <1>3, SliceCallStep DEF VectorsInv
<1>4. CASE Spanning
  <2>1. fn = Vec!HorizontalFn /\ mem \in Memory
    BY <1>4 DEF Spanning
  <2>2. \/ phase = "computed" /\ Handled /\ \E p \in 0 .. Length : InColumns(p)
        \/ phase = "done" /\ \E p \in 0 .. 1 : todo = Rest(Ended, p)
    BY <1>1, <1>4 DEF Spanning
  <2>3. CASE phase = "computed" /\ Handled /\ \E p \in 0 .. Length : InColumns(p)
    BY <1>1, <2>1, <2>3, ColumnsCallStep DEF VectorsInv
  <2>4. CASE phase = "done" /\ \E p \in 0 .. 1 : todo = Rest(Ended, p)
    BY <1>1, <2>1, <2>4, EndedCallStep DEF VectorsInv
  <2>5. QED
    BY <2>2, <2>3, <2>4
<1>5. QED
  BY <1>2, <1>3, <1>4 DEF VectorsInv

\* The next call of the client.
LEMMA VectorsDone ==
  ASSUME VectorsInv, Vec!Done
  PROVE  /\ Arguments /\ mem \in Memory /\ last.fn # "ap_memcpy_out"
         /\ fn = Vec!KernelFn => BetweenSlices
         /\ fn = Vec!HorizontalFn => mem = Blank
<1>1. phase = "done" /\ todo = << >> /\ todo # Vec!warmup
  BY DEF Vec!Done, Vec!warmup
<1>2. CASE fn = Vec!KernelFn
  <2>1. fn # Vec!HorizontalFn
    BY <1>2 DEF Vec!KernelFn, Vec!HorizontalFn
  <2>2. QED
    BY <1>1, <1>2, <2>1, BetweenNow
<1>3. CASE fn = Vec!HorizontalFn
  <2>1. fn # Vec!KernelFn
    BY <1>3 DEF Vec!KernelFn, Vec!HorizontalFn
  <2>2. Arguments /\ Spanning
    BY <1>1, <2>1 DEF VectorsInv, Starting, Slicing
  <2>3. ASSUME NEW p \in 0 .. 1, todo = Rest(Ended, p)
        PROVE  FALSE
    <3>1. PICK S : Ended \in Seq(S)
      BY EndedList
    <3>2. p \in 0 .. Len(Ended) /\ p # Len(Ended)
      BY EndedList
    <3>3. QED
      BY <1>1, <2>3, <3>1, <3>2, RestOfList
  <2>4. QED
    BY <1>1, <2>1, <2>2, <2>3 DEF Spanning
<1>4. QED
  BY <1>2, <1>3 DEF VectorsInv, Arguments

LEMMA VectorsAgainStep ==
  ASSUME Vec!VectorsAssumption, VectorsInv, Vec!Again
  PROVE  VectorsInv'
<1>1. /\ Vec!Done /\ fn' \in Functions /\ op' \in Ops /\ size' \in Sizes
      /\ C' = Vec!Zero /\ i' = 0 /\ phase' = "run" /\ UNCHANGED <<mem, last, todo>>
  BY DEF Vec!Again, Vec!device
<1>2. PICK V \in Fills, W \in Fills : A' = Vec!VectorA(fn', V, W) /\ B' = Vec!VectorB(fn', W)
  BY DEF Vec!Again
<1>3. mem \in Memory /\ last.fn # "ap_memcpy_out" /\ todo = << >>
  BY <1>1, VectorsDone DEF Vec!Done
<1>4. PICK f, command, n : f = fn' /\ command = op' /\ n = size'
  OBVIOUS
<1>5. /\ f \in {Vec!KernelFn, Vec!HorizontalFn} /\ command \in OR .. MULT /\ n \in Nat
      /\ f = Vec!KernelFn => \A x \in 0 .. n - 1 : Vec!VectorA(f, V, W)[x] \in Byte /\ Vec!VectorB(f, W)[x] \in Byte
      /\ f = Vec!HorizontalFn => \A x \in Whole : Vec!VectorA(f, V, W)[x] \in Byte /\ Vec!VectorB(f, W)[x] \in Byte
  BY <1>1, <1>4, VectorArguments
<1>6. Arguments'
  <2>1. A' = Vec!VectorA(f, V, W) /\ B' = Vec!VectorB(f, W)
    BY <1>2, <1>4
  <2>2. QED
    BY <1>4, <1>5, <2>1 DEF Arguments, Vec!KernelFn, Vec!HorizontalFn, OR, MULT, Byte, Whole
<1>7. CASE fn' = Vec!KernelFn
  <2>1. size' \div AP_COL_SIZE \in Nat
    <3>1. n \div AP_COL_SIZE \in Nat
      BY <1>5, ColSizeAssumption
    <3>2. QED
      BY <1>4, <3>1
  <2>2. \A r \in Row : NewestOf(0, r)' < 0
    BY <2>1 DEF NewestOf
  <2>3. Newest(0)' = Vec!Zero
    BY <2>2, VecDevice DEF Newest, Vec!Zero, Row
  <2>4. Vec!slices' \in Nat /\ Vec!slices' > 0
    BY <2>1 DEF Vec!slices
  <2>5. BetweenSlices'
    BY <1>1, <1>3, <2>3, <2>4 DEF BetweenSlices
  <2>6. Slicing'
    BY <1>1, <1>3, <1>7, <2>5 DEF Slicing, Vec!KernelFn
  <2>7. QED
    BY <1>6, <2>6 DEF VectorsInv
<1>8. CASE fn' = Vec!HorizontalFn
  <2>1. Spanning'
    BY <1>1, <1>3, <1>8 DEF Spanning, Vec!HorizontalFn
  <2>2. QED
    BY <1>6, <2>1 DEF VectorsInv
<1>9. QED
  BY <1>4, <1>5, <1>7, <1>8

LEMMA VectorsStutter ==
  ASSUME VectorsInv, UNCHANGED Vec!vars_v
  PROVE  VectorsInv'
<1>1. UNCHANGED <<mem, last, fn, op, size, A, B, C, data, i, todo, phase>>
  BY DEF Vec!vars_v, Vec!device, Vec!args
<1>2. /\ Arguments' = Arguments /\ Vec!slices' = Vec!slices
      /\ \A s : /\ Vec!chunk_size(s)' = Vec!chunk_size(s) /\ Vec!start_index(s)' = Vec!start_index(s)
                /\ Vec!SliceCalls(s)' = Vec!SliceCalls(s)
      /\ \A x : Vec!Golden(x)' = Vec!Golden(x)
      /\ \A n : Newest(n)' = Newest(n)
      /\ Filled2' = Filled2 /\ Handled' = Handled /\ Length' = Length /\ HorizontalCalls' = HorizontalCalls
  BY <1>1, SameVectors
<1>3. Starting' = Starting
  BY <1>1 DEF Starting, Vec!warmup, Vec!Zero
<1>4. Slicing' = Slicing
  <2>1. ASSUME NEW s, NEW p
        PROVE  InSlice(s, p)' = InSlice(s, p)
    BY <1>1, <1>2 DEF InSlice, SliceMade, Rest
  <2>2. BetweenSlices' = BetweenSlices
    <3>1. PICK n : n = i
      OBVIOUS
    <3>2. Newest(n)' = Newest(n) /\ i' = n
      BY <1>1, <1>2, <3>1
    <3>3. QED
      BY <1>1, <1>2, <3>1, <3>2 DEF BetweenSlices
  <2>3. QED
    BY <1>1, <1>2, <2>1, <2>2 DEF Slicing
<1>5. Spanning' = Spanning
  <2>1. ASSUME NEW p
        PROVE  InColumns(p)' = InColumns(p)
    BY <1>1, <1>2 DEF InColumns, ColumnsMade, Rest
  <2>2. Ended' = Ended /\ Blank' = Blank
    BY DEF Ended, Vec!offload, Vec!warmup, Blank
  <2>3. \A p : Rest(Ended, p)' = Rest(Ended, p)
    BY <2>2 DEF Rest
  <2>4. QED
    BY <1>1, <1>2, <2>1, <2>2, <2>3 DEF Spanning
<1>6. QED
  BY <1>2, <1>3, <1>4, <1>5 DEF VectorsInv

LEMMA VectorsNextInv == Vec!VectorsAssumption /\ VectorsInv /\ [Vec!NextVectors]_(Vec!vars_v) => VectorsInv'
  BY SliceStep, EndSlicesStep, HorizontalStep, EndHorizontalStep, VectorsCallStep, VectorsAgainStep, VectorsStutter
     DEF Vec!NextVectors, Vec!Step, Vec!Return

\* With the column's slices done, C holds for each row the newest that reaches it.
LEMMA InvNewest == VectorsInv => Vec!NewestSlice
<1> SUFFICES ASSUME VectorsInv, Vec!Done, fn = Vec!KernelFn PROVE Vec!NewestSlice
  BY DEF Vec!NewestSlice
<1>1. BetweenSlices /\ phase = "done" /\ size \in Nat
  BY VectorsDone DEF Vec!Done, Arguments
<1>2. C = Newest(Vec!slices)
  BY <1>1 DEF BetweenSlices
<1>3. QED
  BY <1>1, <1>2, NewestEnds, VecDevice DEF Vec!NewestSlice

LEMMA InvColumns == VectorsInv => Vec!ColumnsAreGolden
<1> SUFFICES ASSUME VectorsInv, fn = Vec!HorizontalFn, phase = "computed", todo = << >>, Handled
             PROVE  \A x \in Whole : x < size => mem[Cell(CAM_C, x)] = Vec!Golden(x)
  BY VecDevice DEF Vec!ColumnsAreGolden, Handled, Whole, Cell, Vec!Both
<1>1. Arguments /\ Spanning
  <2>1. fn # Vec!KernelFn /\ todo # Vec!warmup
    BY DEF Vec!KernelFn, Vec!HorizontalFn, Vec!warmup
  <2>2. QED
    BY <2>1 DEF VectorsInv, Starting, Slicing
<1>2. PICK p \in 0 .. Length : InColumns(p)
  BY <1>1 DEF Spanning
<1>3. PICK S : HorizontalCalls \in Seq(S)
  BY <1>1, HorizontalList DEF Arguments
<1>4. /\ Len(HorizontalCalls) = Length /\ Length \in {3, 4, 7, 13} /\ Filled2 \in Nat
      /\ (Length = 3 => \A x \in 0 .. Filled2 - 1 : x \in Row) /\ Vec!Both = 2 * AP_COL_SIZE
  BY <1>1, HorizontalList DEF Arguments
<1>5. p = Length
  BY <1>2, <1>3, <1>4, RestOfList DEF InColumns
<1>6. \A x \in 0 .. Filled2 - 1 : mem[Cell(CAM_C, x)] = Vec!Golden(x)
  <2>1. p >= 3 /\ (p = 3 \/ p >= 4)
    BY <1>4, <1>5
  <2>2. QED
    BY <1>2, <1>4, <1>5, <2>1 DEF InColumns, ColumnsMade
<1>7. \A x \in Whole : x < size => x \in 0 .. Filled2 - 1
  BY <1>1, <1>4, ColSizeAssumption DEF Whole, Filled2, Arguments
<1>8. QED
  BY <1>6, <1>7

LEMMA InvOffloaded == VectorsInv => Vec!OffloadedWhenComputed
<1> SUFFICES ASSUME VectorsInv, fn = Vec!HorizontalFn, phase = "computed", last.fn = "ap_memcpy_out"
             PROVE  \A x \in 0 .. Vec!Both - 1 : data[x] = Vec!Golden(x)
  BY DEF Vec!OffloadedWhenComputed
<1>1. Spanning
  <2>1. fn # Vec!KernelFn
    BY DEF Vec!KernelFn, Vec!HorizontalFn
  <2>2. QED
    BY <2>1 DEF VectorsInv, Starting, Slicing
<1>2. PICK p \in 0 .. Length : InColumns(p)
  BY <1>1 DEF Spanning
<1>3. QED
  BY <1>2 DEF InColumns

LEMMA InvClean == VectorsInv => Vec!NextStartsClean
  BY VectorsDone, VecDevice DEF Vec!NextStartsClean, Blank

\* In every reachable state of every series of kernels VectorsInv holds.
THEOREM VectorsHold ==
  ASSUME Vec!VectorsAssumption
  PROVE  Vec!SpecVectors => []VectorsInv
<1>1. Vec!InitVectors => VectorsInv
  BY VectorsInitInv
<1>2. VectorsInv /\ [Vec!NextVectors]_(Vec!vars_v) => VectorsInv'
  BY VectorsNextInv
<1>3. QED
  BY <1>1, <1>2, PTL DEF Vec!SpecVectors

\* When vector_ap_op_kernel_horizontal returns, C holds in each row what the newest
\* slice that reaches it computes, whatever the size (ap_tests.h:310-323).
THEOREM SlicesAreNewest ==
  ASSUME Vec!VectorsAssumption
  PROVE  Vec!SpecVectors => []Vec!NewestSlice
<1>1. QED
  BY VectorsHold, InvNewest, PTL

\* For each size that vector_ap_op_horizontal handles, what stands in the columns at
\* the end of the measurement is the operation's (ap_tests.h:381-422).
THEOREM ColumnsAreRight ==
  ASSUME Vec!VectorsAssumption
  PROVE  Vec!SpecVectors => []Vec!ColumnsAreGolden
<1>1. QED
  BY VectorsHold, InvColumns, PTL

\* What it copies out between two rounds is a finished result (ap_tests.h:401, 412-418).
THEOREM RoundsAreFinished ==
  ASSUME Vec!VectorsAssumption
  PROVE  Vec!SpecVectors => []Vec!OffloadedWhenComputed
<1>1. QED
  BY VectorsHold, InvOffloaded, PTL

\* It leaves every row of the columns zero for the next size (ap_tests.h:424-426).
THEOREM ColumnsAreLeftClean ==
  ASSUME Vec!VectorsAssumption
  PROVE  Vec!SpecVectors => []Vec!NextStartsClean
<1>1. QED
  BY VectorsHold, InvClean, PTL

-----------------------------------------------------------------------------
(* Sums and searches inside the columns. *)


\* Its device is that of the kernels.
LEMMA SumDevice ==
  /\ Sum!Row = Row /\ Sum!Byte = Byte /\ Sum!CamAddr = CamAddr /\ Sum!Memory = Memory
  /\ Sum!ADD = ADD /\ Sum!SEARCH = SEARCH /\ Sum!LEFT = LEFT /\ Sum!TARGET_C = TARGET_C
  /\ Sum!CAM_A = CAM_A /\ Sum!CAM_B = CAM_B /\ Sum!CAM_C = CAM_C
  /\ \A c, h : Sum!CamBase(c, h) = CamBase(c, h) /\ Sum!Column(c, h) = {CamBase(c, h) + r : r \in Row}
  /\ \A b, V, m : Sum!Written(b, V, m) = Written(b, V, m)
  /\ \A o \in {ADD, SEARCH} : \A s, t, m : Sum!Operated(o, s, t, m) = Operated(o, s, t, m)
<1>1. /\ Sum!Row = Row /\ Sum!Byte = Byte /\ Sum!CamAddr = CamAddr /\ Sum!OR = OR /\ Sum!MULT = MULT
      /\ Sum!CAM_A = CAM_A /\ Sum!CAM_B = CAM_B /\ Sum!CAM_C = CAM_C /\ Sum!LEFT = LEFT
      /\ Sum!TARGET_C = TARGET_C /\ Sum!ADD = ADD
  BY DEF Sum!Row, Row, Sum!Byte, Byte, Sum!CamAddr, CamAddr, Sum!OR, OR, Sum!MULT, MULT, Sum!CAM_A, CAM_A,
         Sum!CAM_B, CAM_B, Sum!CAM_C, CAM_C, Sum!LEFT, LEFT, Sum!TARGET_C, TARGET_C, Sum!ADD, ADD
<1>2. Sum!SET = SET /\ Sum!SEARCH = SEARCH /\ Sum!ADD_D = ADD_D /\ Sum!TARGET_A = TARGET_A
  BY DEF Sum!SET, SET, Sum!SEARCH, SEARCH, Sum!ADD_D, ADD_D, Sum!TARGET_A, TARGET_A
<1>3. \A c, h : Sum!CamBase(c, h) = CamBase(c, h)
  BY DEF Sum!CamBase, CamBase
<1>4. Sum!Memory = Memory /\ \A c, h : Sum!Column(c, h) = {CamBase(c, h) + r : r \in Row}
  BY <1>1, <1>3 DEF Sum!Memory, Memory, Sum!Column
<1>5. \A b, V, m : Sum!Written(b, V, m) = Written(b, V, m)
  BY <1>1 DEF Sum!Written, Written
<1>6. \A s, c : Sum!Selected(s, c) = Selected(s, c)
  BY <1>1, <1>3 DEF Sum!Selected, Selected, Sum!Half, Half
<1>7. ASSUME NEW d, d.cmd \in {ADD, SEARCH}, NEW m, NEW r
      PROVE  Sum!RowResult(d, m, r) = RowResult(d, m, r)
  <2>1. CASE d.cmd = ADD
    <3>1. d.cmd \in OR .. MULT /\ d.cmd # SET /\ d.cmd # SEARCH /\ d.cmd # ADD_D
      BY <2>1 DEF OR, ADD, MULT, SET, SEARCH, ADD_D
    <3>2. RowResult(d, m, r) = Alu(d.cmd, m[Selected(d.internal_col, CAM_A) + r], m[Selected(d.internal_col, CAM_B) + r])
      BY <3>1, Zenon DEF RowResult
    <3>3. d.cmd \in Sum!OR .. Sum!MULT /\ d.cmd # Sum!SET /\ d.cmd # Sum!SEARCH /\ d.cmd # Sum!ADD_D
      BY <1>1, <1>2, <3>1
    <3>4. Sum!RowResult(d, m, r)
            = Alu(d.cmd, m[Sum!Selected(d.internal_col, Sum!CAM_A) + r], m[Sum!Selected(d.internal_col, Sum!CAM_B) + r])
      BY <3>3, Zenon DEF Sum!RowResult
    <3>5. QED
      BY <1>1, <1>6, <3>2, <3>4
  <2>2. CASE d.cmd = SEARCH
    <3>1. d.cmd \notin OR .. MULT /\ d.cmd # SET /\ d.cmd = SEARCH /\ d.cmd # ADD_D
      BY <2>2 DEF OR, MULT, SET, SEARCH, ADD_D
    <3>2. RowResult(d, m, r)
            = IF m[Selected(d.internal_col, CAM_A) + r] = m[Selected(d.internal_col, CAM_B) + 0] THEN 1 ELSE 0
      BY <3>1, Zenon DEF RowResult
    <3>3. d.cmd \notin Sum!OR .. Sum!MULT /\ d.cmd # Sum!SET /\ d.cmd = Sum!SEARCH /\ d.cmd # Sum!ADD_D
      BY <1>1, <1>2, <3>1
    <3>4. Sum!RowResult(d, m, r)
            = IF m[Sum!Selected(d.internal_col, Sum!CAM_A) + r] = m[Sum!Selected(d.internal_col, Sum!CAM_B) + 0] THEN 1 ELSE 0
      BY <3>3, Zenon DEF Sum!RowResult
    <3>5. QED
      BY <1>1, <1>6, <3>2, <3>4
  <2>3. QED
    BY <1>7, <2>1, <2>2
<1>8. \A c, d : Sum!Destination(c, d) = Destination(c, d)
  BY <1>1, <1>2, <1>6 DEF Sum!Destination, Destination
<1>9. ASSUME NEW o \in {ADD, SEARCH}, NEW s, NEW t, NEW m
      PROVE  Sum!Operated(o, s, t, m) = Operated(o, s, t, m)
  <2>1. PICK c, d : c = set_control_reg(STATIC, t, TRUE, {}) /\ d = set_mode_reg(s, CAM_A, HORIZONTAL, o)
    OBVIOUS
  <2>2. c = Sum!set_control_reg(Sum!STATIC, t, TRUE, {})
    BY <2>1 DEF Sum!set_control_reg, set_control_reg, Sum!STATIC, STATIC
  <2>3. d = Sum!set_mode_reg(s, Sum!CAM_A, Sum!HORIZONTAL, o) /\ d.cmd = o
    BY <1>1, <2>1 DEF Sum!set_mode_reg, set_mode_reg, Sum!HORIZONTAL, HORIZONTAL
  <2>4. Sum!Computed(c, d, m, Row) = Computed(c, d, m, Row)
    BY <1>1, <1>7, <1>8, <2>3 DEF Sum!Computed, Computed
  <2>5. QED
    BY <1>1, <2>1, <2>2, <2>3, <2>4 DEF Sum!Operated, Operated
<1>10. QED
  BY <1>1, <1>2, <1>3, <1>4, <1>5, <1>9

\* The command of a round adds the columns A and B into C.
AddRows == [fn |-> "ap_trigger_computing_w_wait", op |-> Sum!ADD, internal_col |-> Sum!LEFT]

LEMMA RoundAdds ==
  ASSUME Sum!RowsAssumption, NEW m \in Memory, NEW q, q = Sum!Effect(AddRows, m)
  PROVE  /\ q \in Memory
         /\ \A r \in Row : q[Cell(CAM_C, r)] = (m[Cell(CAM_A, r)] + m[Cell(CAM_B, r)]) % ByteMod
<1>1. q = Operated(ADD, LEFT, TARGET_C, m)
  <2>1. q = Sum!Operated(Sum!ADD, Sum!LEFT, Sum!TARGET_C, m)
    BY DEF Sum!Effect, AddRows
  <2>2. QED
    BY <2>1, SumDevice
<1>2. ADD \in OR .. MULT
  BY DEF ADD, OR, MULT
<1>3. q \in Memory /\ \A x \in Whole : x \in Row => q[Cell(CAM_C, x)] = Alu(ADD, m[Cell(CAM_A, x)], m[Cell(CAM_B, x)])
  BY <1>1, <1>2, OperatedCells
<1>4. \A r \in Row : r \in Whole /\ m[Cell(CAM_A, r)] \in Byte /\ m[Cell(CAM_B, r)] \in Byte
  BY Cells, Cams DEF Memory
<1>5. \A x, y \in Byte : Alu(ADD, x, y) = (x + y) % ByteMod
  BY SumDevice DEF Sum!RowsAssumption
<1>6. QED
  BY <1>3, <1>4, <1>5

\* A search marks the rows of column A that hold the key.
SearchKey == [fn |-> "ap_search", value |-> Key, internal_col |-> Sum!LEFT, target |-> Sum!TARGET_C]

LEMMA SearchMarks ==
  ASSUME Sum!RowsAssumption, NEW m \in Memory, NEW q, q = Sum!Effect(SearchKey, m)
  PROVE  /\ q \in Memory
         /\ \A r \in Row : q[Cell(CAM_C, r)] = IF m[Cell(CAM_A, r)] = Key THEN 1 ELSE 0
<1>1. PICK V, w : V = << Key >> /\ w = Written(CamBase(CAM_B, 0), V, m)
  OBVIOUS
<1>2. q = Operated(SEARCH, LEFT, TARGET_C, w)
  <2>1. Sum!Side(Sum!LEFT) = 0
    BY DEF Sum!Side
  <2>2. q = Sum!Operated(Sum!SEARCH, Sum!LEFT, Sum!TARGET_C,
                         Sum!Written(Sum!CamBase(Sum!CAM_B, Sum!Side(Sum!LEFT)), << Key >>, m))
    BY DEF Sum!Effect, SearchKey
  <2>3. QED
    BY <1>1, <2>1, <2>2, SumDevice
<1>3. V \in Seq(Byte) /\ Len(V) = 1 /\ V[1] = Key /\ Len(V) <= 2 * AP_COL_SIZE
  <2>1. Key \in Byte
    BY SumDevice DEF Sum!RowsAssumption
  <2>2. QED
    BY <1>1, <2>1, ColSizeAssumption
<1>4. /\ w \in Memory
      /\ \A x \in Whole : w[Cell(CAM_B, x)] = IF x < Len(V) THEN V[x + 1] ELSE m[Cell(CAM_B, x)]
      /\ \A c \in APCollunm, x \in Whole : c # CAM_B => w[Cell(c, x)] = m[Cell(c, x)]
  <2>1. CAM_B \in APCollunm
    BY Cams
  <2>2. QED
    BY <1>1, <1>3, <2>1, WrittenCells
<1>5. 0 \in Row /\ 0 \in Whole /\ 0 < 1 /\ 0 + 1 = 1 /\ CAM_A # CAM_B
  BY ColSizeAssumption DEF Row, Whole, CAM_A, CAM_B
<1>6. w[Cell(CAM_B, 0)] = Key /\ \A r \in Row : w[Cell(CAM_A, r)] = m[Cell(CAM_A, r)]
  BY <1>3, <1>4, <1>5, Cells, Cams
<1> DEFINE F == [r \in Row |-> IF m[Cell(CAM_A, r)] = Key THEN 1 ELSE 0]
<1>7. ASSUME NEW r \in Row
      PROVE  F[r] \in Byte /\ RowResult(OpMode(SEARCH, LEFT), w, r) = F[r]
  <2> DEFINE d == OpMode(SEARCH, LEFT)
  <2>1. d.cmd = SEARCH /\ d.internal_col = LEFT
    BY DEF OpMode, set_mode_reg
  <2>2. d.cmd \notin OR .. MULT /\ d.cmd # SET /\ d.cmd # ADD_D
    BY <2>1 DEF OR, MULT, SET, SEARCH, ADD_D
  <2>3. RowResult(d, w, r) = IF w[Selected(LEFT, CAM_A) + r] = w[Selected(LEFT, CAM_B) + 0] THEN 1 ELSE 0
    <3> HIDE DEF d
    <3> QED BY <2>1, <2>2, Zenon DEF RowResult
  <2>4. Selected(LEFT, CAM_A) + r = Cell(CAM_A, r) /\ Selected(LEFT, CAM_B) + 0 = Cell(CAM_B, 0)
    BY <1>5, Cells, Cams, Sides DEF Cell
  <2>5. 0 \in Byte /\ 1 \in Byte
    BY ByteModAssumption DEF Byte
  <2>6. QED
    BY <1>6, <2>3, <2>4, <2>5
<1>8. Writes(q, w, CAM_C, 0, Row, F)
  <2>1. /\ SEARCH \in APOperations \ {SET} /\ LEFT \in InternalCol /\ TARGET_C \in {TARGET_C, TARGET_A}
        /\ TARGET_C # TARGET_A
    BY DEF SEARCH, APOperations, OR, ADD_D, SET, LEFT, InternalCol, TARGET_C, TARGET_A
  <2>2. Selected(LEFT, IF TARGET_C = TARGET_A THEN CAM_A ELSE CAM_C) = CamBase(CAM_C, 0)
    BY <2>1, Sides, Cams
  <2> HIDE DEF F
  <2>3. QED
    BY <1>2, <1>4, <1>7, <2>1, <2>2, Cams, OperatedWrites
<1>9. \A r \in Row : q[CamBase(CAM_C, 0) + r] = F[r]
  <2> HIDE DEF F
  <2> QED BY <1>8, Cams DEF Writes
<1>10. q \in Memory
  BY <1>8 DEF Writes
<1>11. QED
  BY <1>9, <1>10, Cells, Cams

\* A word store sets its byte and clears some of those above it, in the same CAM.
LEMMA StoresData ==
  ASSUME Sum!RowsAssumption, NEW m \in Memory, NEW cam \in APCollunm, NEW row \in Row, NEW v \in Byte,
         NEW reach \in Reach, NEW q, q = Sum!ap_store_data(Cell(cam, row), v, reach, m)
  PROVE  /\ q \in Memory /\ q[Cell(cam, row)] = v
         /\ \A r \in Row : r < row => q[Cell(cam, r)] = m[Cell(cam, r)]
         /\ \A c \in APCollunm, r \in Row : c # cam => q[Cell(c, r)] = m[Cell(c, r)]
<1>1. reach \in 1 .. AP_COL_SIZE /\ AP_COL_SIZE \in Nat /\ AP_COL_SIZE > 0
  BY ColSizeAssumption DEF Sum!RowsAssumption
<1>2. PICK a, b : a = Cell(cam, row) /\ b = CamBase(cam, 0)
  OBVIOUS
<1>3. row \in Whole /\ row \in Nat /\ a \in CamAddr /\ b \in Nat /\ a = b + row
  BY <1>2, Cells DEF Cell, Row
<1>4. q = [x \in CamAddr |-> IF x = a THEN v ELSE IF x \in a + 1 .. a + reach - 1 THEN 0 ELSE m[x]]
  BY <1>2, SumDevice DEF Sum!ap_store_data
<1>5. q \in Memory
  <2>1. 0 \in Byte /\ \A x \in CamAddr : m[x] \in Byte
    BY ByteModAssumption DEF Byte, Memory
  <2>2. \A x \in CamAddr : (IF x = a THEN v ELSE IF x \in a + 1 .. a + reach - 1 THEN 0 ELSE m[x]) \in Byte
    BY <2>1
  <2>3. QED
    BY <1>4, <2>2 DEF Memory
<1>6. q[a] = v
  BY <1>3, <1>4
<1>7. \A x \in CamAddr : x # a /\ x \notin a + 1 .. a + reach - 1 => q[x] = m[x]
  BY <1>4
<1>8. ASSUME NEW x \in a + 1 .. a + reach - 1
      PROVE  \E y \in Whole : y > row /\ x = Cell(cam, y)
  <2>1. x - b \in Whole /\ x - b > row /\ x = b + (x - b)
    BY <1>1, <1>3 DEF Row, Whole
  <2>2. QED
    BY <1>2, <2>1 DEF Cell
<1>9. ASSUME NEW c \in APCollunm, NEW r \in Row, c # cam \/ r < row
      PROVE  q[Cell(c, r)] = m[Cell(c, r)]
  <2>1. r \in Whole /\ r \in Nat /\ Cell(c, r) \in CamAddr
    BY Cells DEF Row
  <2>2. Cell(c, r) # a
    BY <1>2, <1>3, <1>9, <2>1, Cells
  <2>3. Cell(c, r) \notin a + 1 .. a + reach - 1
    <3>1. SUFFICES ASSUME NEW y \in Whole, y > row, Cell(c, r) = Cell(cam, y)
                   PROVE  FALSE
      BY <1>8
    <3>2. c = cam /\ r = y
      BY <2>1, <3>1, Cells
    <3>3. QED
      BY <1>3, <1>9, <2>1, <3>1, <3>2
  <2>4. QED
    BY <1>7, <2>1, <2>2, <2>3
<1>10. QED
  BY <1>2, <1>5, <1>6, <1>9

\* ap_get_data_to moves one byte.
LEMMA GetsData ==
  ASSUME NEW m \in Memory, NEW cam \in APCollunm, NEW row \in Row, NEW from \in CamAddr,
         NEW q, q = Sum!ap_get_data_to(Cell(cam, row), from, m)
  PROVE  /\ q \in Memory /\ q[Cell(cam, row)] = m[from]
         /\ \A c \in APCollunm, r \in Row : c # cam \/ r # row => q[Cell(c, r)] = m[Cell(c, r)]
<1>1. Cell(cam, row) \in CamAddr /\ q = [m EXCEPT ![Cell(cam, row)] = m[from]]
  BY Cells DEF Sum!ap_get_data_to
<1>2. q \in Memory /\ q[Cell(cam, row)] = m[from]
  BY <1>1 DEF Memory
<1>3. ASSUME NEW c \in APCollunm, NEW r \in Row, c # cam \/ r # row
      PROVE  q[Cell(c, r)] = m[Cell(c, r)]
  <2>1. Cell(c, r) \in CamAddr /\ Cell(c, r) # Cell(cam, row)
    BY <1>3, Cells
  <2>2. QED
    BY <1>1, <2>1 DEF Memory
<1>4. QED
  BY <1>2, <1>3

-----------------------------------------------------------------------------
(* The invariant. *)

\* The numbers of rows that are summed, one round after the other.
Halves == CHOOSE S \in SUBSET (1 .. N) : Sum!Halvings(S)

LEMMA HalvesOfN ==
  ASSUME Sum!RowsAssumption
  PROVE  /\ Halves \subseteq 1 .. N /\ N \in Halves /\ N \in Nat /\ N > 0 /\ N <= AP_COL_SIZE
         /\ \A x \in Halves : x = 1 \/ (x % 2 = 0 /\ x \div 2 \in Halves)
<1>1. PICK S \in SUBSET (1 .. N) : Sum!Halvings(S)
  BY DEF Sum!RowsAssumption
<1>2. Halves \in SUBSET (1 .. N) /\ Sum!Halvings(Halves)
  BY <1>1 DEF Halves
<1>3. N \in Nat /\ N <= AP_COL_SIZE
  BY SumDevice, ColSizeAssumption DEF Sum!RowsAssumption, Row
<1>4. QED
  BY <1>2, <1>3 DEF Sum!Halvings

\* Of n rows each holds its part of the sum, in the columns A and B or in C.
Shared(n, v) == \A r \in 0 .. n - 1 : mem[Cell(CAM_A, r)] = v /\ mem[Cell(CAM_B, r)] = v
Summed(n, v) == \A r \in 0 .. n - 1 : mem[Cell(CAM_C, r)] = v

\* i of the N rows are left; each stands for part of them.
Left(part) == i \in Halves /\ part \in Nat /\ i * part = N

Accumulating ==
  \/ phase = "fill" /\ i = N /\ k \in 0 .. N - 1 /\ Shared(k, 1)
  \/ phase = "compute" /\ \E part : Left(part) /\ Shared(i, part % ByteMod)
  \/ phase = "halve" /\ k \in 0 .. Sum!half
     /\ \E part : /\ Left(part) /\ Summed(i, (2 * part) % ByteMod)
                  /\ Shared(k, (2 * part) % ByteMod)
  \/ phase = "done"

Searching ==
  \/ phase = "fill"
  \/ phase = "search" /\ \A r \in Row : mem[Cell(CAM_A, r)] = IF r = KeyRow THEN Key ELSE Other
  \/ phase = "copy" /\ \A r \in Row : mem[Cell(CAM_C, r)] = IF r = KeyRow THEN 1 ELSE 0
  \/ phase = "done" /\ found = Sum!cpu_search

SumsInv ==
  /\ mem \in Memory
  /\ Sum!Accumulates \/ Sum!Searches
  /\ Sum!Accumulates => Accumulating
  /\ Sum!Searches => Searching

\* The parts of the sum of two times the rows.
LEMMA QuotientOfProduct ==
  ASSUME NEW a \in Nat \ {0}, NEW b \in Nat
  PROVE  (a * b) \div a = b
OBVIOUS

LEMMA PartsDoubled ==
  ASSUME NEW a \in Nat \ {0}, NEW b \in Nat, NEW n \in Nat, a * b = n
  PROVE  (2 * n) \div a = 2 * b /\ ((b % ByteMod) + (b % ByteMod)) % ByteMod = (2 * b) % ByteMod
<1>1. PICK c \in Nat : c = 2 * b
  OBVIOUS
<1>2. 2 * n = a * c
  BY <1>1
<1>3. (2 * n) \div a = c
  BY <1>2, QuotientOfProduct
<1>4. PICK q, r : q = b \div ByteMod /\ r = b % ByteMod
  OBVIOUS
<1>5. q \in Nat /\ r \in Nat /\ r < ByteMod /\ b = ByteMod * q + r
  BY <1>4, ByteModAssumption
<1>6. (r + r) % ByteMod = (2 * b) % ByteMod
  BY <1>5, ByteModAssumption
<1>7. QED
  BY <1>1, <1>3, <1>4, <1>6

LEMMA SumsInitInv == Sum!RowsAssumption /\ Sum!InitSums => SumsInv
<1> SUFFICES ASSUME Sum!RowsAssumption, Sum!InitSums PROVE SumsInv
  OBVIOUS
<1>1. mem \in Memory
  BY SumDevice DEF Sum!RowsAssumption, Sum!InitSums
<1>2. fn \in Sum!Tests /\ phase = "fill" /\ i = N /\ k = 0
  BY DEF Sum!InitSums
<1>3. Accumulating /\ Searching
  BY <1>2, HalvesOfN DEF Accumulating, Searching, Shared
<1>4. QED
  BY <1>1, <1>2, <1>3 DEF SumsInv, Sum!Tests, Sum!Accumulates, Sum!Searches

LEMMA FunctionsApart == ~ (Sum!Accumulates /\ Sum!Searches)
  BY DEF Sum!Accumulates, Sum!Searches

LEMMA StoreOnesStep ==
  ASSUME Sum!RowsAssumption, SumsInv, Sum!StoreOnes
  PROVE  SumsInv'
<1>1. /\ Sum!Accumulates /\ fn' = fn /\ phase = "fill" /\ mem \in Memory /\ i = N /\ i' = i
      /\ k \in 0 .. N - 1 /\ Shared(k, 1)
      /\ k' = k + 1 /\ phase' = IF k + 1 = N THEN "compute" ELSE phase
  BY FunctionsApart DEF SumsInv, Sum!StoreOnes, Sum!At, Accumulating
<1>2. PICK reach \in Reach :
        mem' = Sum!ap_store_data(Sum!CamBase(Sum!CAM_B, 0) + k, 1, reach,
                 Sum!ap_store_data(Sum!CamBase(Sum!CAM_A, 0) + k, 1, reach, mem))
  BY DEF Sum!StoreOnes
<1>3. PICK row, m : row = k /\ m = Sum!ap_store_data(Cell(CAM_A, row), 1, reach, mem)
  OBVIOUS
<1>4. PICK q : q = Sum!ap_store_data(Cell(CAM_B, row), 1, reach, m)
  OBVIOUS
<1>5. mem' = q
  BY <1>2, <1>3, <1>4, SumDevice DEF Cell
<1>6. row \in 0 .. N - 1 /\ row \in Row /\ 1 \in Byte /\ N \in Nat /\ N <= AP_COL_SIZE /\ 1 % ByteMod = 1
  BY <1>1, <1>3, HalvesOfN, ColSizeAssumption, ByteModAssumption DEF Row, Byte
<1>7. /\ m \in Memory /\ m[Cell(CAM_A, row)] = 1
      /\ \A r \in Row : r < row => m[Cell(CAM_A, r)] = mem[Cell(CAM_A, r)]
      /\ \A r \in Row : m[Cell(CAM_B, r)] = mem[Cell(CAM_B, r)]
  <2>1. CAM_A \in APCollunm /\ CAM_B \in APCollunm /\ CAM_B # CAM_A
    BY Cams DEF CAM_A, CAM_B
  <2>2. QED
    BY <1>1, <1>3, <1>6, <2>1, StoresData
<1>8. /\ q \in Memory /\ q[Cell(CAM_B, row)] = 1
      /\ \A r \in Row : r < row => q[Cell(CAM_B, r)] = m[Cell(CAM_B, r)]
      /\ \A r \in Row : q[Cell(CAM_A, r)] = m[Cell(CAM_A, r)]
  <2>1. CAM_A \in APCollunm /\ CAM_B \in APCollunm /\ CAM_B # CAM_A
    BY Cams DEF CAM_A, CAM_B
  <2>2. QED
    BY <1>4, <1>6, <1>7, <2>1, StoresData
<1>9. ASSUME NEW r \in 0 .. row
      PROVE  q[Cell(CAM_A, r)] = 1 /\ q[Cell(CAM_B, r)] = 1
  <2>1. r \in Row /\ (r = row \/ (r < row /\ r \in 0 .. row - 1))
    <3>1. row \in Nat /\ row < AP_COL_SIZE /\ AP_COL_SIZE \in Nat
      BY <1>6, ColSizeAssumption DEF Row
    <3>2. QED
      BY <3>1 DEF Row
  <2>2. r < row => mem[Cell(CAM_A, r)] = 1 /\ mem[Cell(CAM_B, r)] = 1
    BY <1>1, <1>3, <2>1 DEF Shared
  <2>3. QED
    BY <1>6, <1>7, <1>8, <2>1, <2>2
<1>10. Accumulating'
  <2>1. CASE row + 1 = N
    <3>1. Left(1)'
      BY <1>1, HalvesOfN DEF Left
    <3>2. Shared(i, 1 % ByteMod)'
      BY <1>1, <1>5, <1>6, <1>9, <2>1 DEF Shared
    <3>3. phase' = "compute"
      BY <1>1, <1>3, <2>1
    <3>4. QED
      BY <3>1, <3>2, <3>3 DEF Accumulating
  <2>2. CASE row + 1 # N
    <3>1. k' \in 0 .. N - 1 /\ phase' = "fill" /\ i' = N
      BY <1>1, <1>3, <1>6, <2>2
    <3>2. \A r \in 0 .. (row + 1) - 1 : r \in 0 .. row
      BY <1>6
    <3>3. Shared(k, 1)'
      BY <1>1, <1>3, <1>5, <1>9, <3>2 DEF Shared
    <3>4. QED
      BY <3>1, <3>3 DEF Accumulating
  <2>3. QED
    BY <2>1, <2>2
<1>11. QED
  BY <1>1, <1>5, <1>8, <1>10 DEF SumsInv, Sum!Accumulates, Sum!Searches

LEMMA RoundStep ==
  ASSUME Sum!RowsAssumption, SumsInv, Sum!Round
  PROVE  SumsInv'
<1>1. /\ Sum!Accumulates /\ fn' = fn /\ phase = "compute" /\ mem \in Memory /\ i' = i
      /\ k' = 0 /\ phase' = "halve"
  BY DEF SumsInv, Sum!Round, Sum!At
<1>2. PICK part : Left(part) /\ Shared(i, part % ByteMod)
  BY <1>1 DEF SumsInv, Accumulating
<1>3. PICK q, n : q = Sum!Effect(AddRows, mem) /\ n = i
  OBVIOUS
<1>4. mem' = q
  BY <1>3 DEF Sum!Round, Sum!Hal, AddRows
<1>5. q \in Memory /\ \A r \in Row : q[Cell(CAM_C, r)] = (mem[Cell(CAM_A, r)] + mem[Cell(CAM_B, r)]) % ByteMod
  BY <1>1, <1>3, RoundAdds
<1>6. n \in Nat \ {0} /\ n <= AP_COL_SIZE /\ part \in Nat /\ n * part = N /\ N \in Nat
  BY <1>2, <1>3, HalvesOfN, ColSizeAssumption DEF Left
<1>7. ((part % ByteMod) + (part % ByteMod)) % ByteMod = (2 * part) % ByteMod
  BY <1>6, PartsDoubled
<1>8. \A r \in 0 .. n - 1 : r \in Row /\ mem[Cell(CAM_A, r)] = part % ByteMod /\ mem[Cell(CAM_B, r)] = part % ByteMod
  BY <1>2, <1>3, <1>6, ColSizeAssumption DEF Shared, Row
<1>9. Summed(i, (2 * part) % ByteMod)'
  BY <1>1, <1>3, <1>4, <1>5, <1>7, <1>8 DEF Summed
<1>10. Sum!half' \in Nat
  <2>1. n \div 2 \in Nat
    BY <1>6
  <2>2. QED
    BY <1>1, <1>3, <2>1 DEF Sum!half
<1>11. Left(part)' /\ Shared(k, (2 * part) % ByteMod)' /\ k' \in 0 .. Sum!half'
  BY <1>1, <1>2, <1>10 DEF Left, Shared
<1>12. Accumulating'
  BY <1>1, <1>9, <1>11 DEF Accumulating
<1>13. QED
  BY <1>1, <1>4, <1>5, <1>12 DEF SumsInv, Sum!Accumulates, Sum!Searches

LEMMA HalveStep ==
  ASSUME Sum!RowsAssumption, SumsInv, Sum!Halve
  PROVE  SumsInv'
<1>1. /\ Sum!Accumulates /\ fn' = fn /\ phase = "halve" /\ phase' = phase /\ mem \in Memory /\ i' = i
      /\ k < Sum!half /\ k' = k + 1
  BY DEF SumsInv, Sum!Halve, Sum!At
<1>2. k \in 0 .. Sum!half
  BY <1>1 DEF SumsInv, Accumulating
<1>3. PICK part : Left(part) /\ Summed(i, (2 * part) % ByteMod) /\ Shared(k, (2 * part) % ByteMod)
  BY <1>1 DEF SumsInv, Accumulating
<1>4. PICK n, h, row, v : n = i /\ h = Sum!half /\ row = k /\ v = (2 * part) % ByteMod
  OBVIOUS
<1>5. n \in Nat \ {0} /\ n <= AP_COL_SIZE /\ h = n \div 2 /\ h \in Nat /\ row \in 0 .. h - 1
  <2>1. n \in Nat \ {0} /\ n <= AP_COL_SIZE /\ h = n \div 2
    BY <1>3, <1>4, HalvesOfN, ColSizeAssumption DEF Left, Sum!half
  <2>2. n \div 2 \in Nat
    BY <2>1
  <2>3. QED
    BY <1>1, <1>2, <1>4, <2>1, <2>2
<1>6. row \in Row /\ h + row \in Row /\ row \in 0 .. n - 1 /\ h + row \in 0 .. n - 1
  BY <1>5, ColSizeAssumption DEF Row
<1>7. PICK m, q : /\ m = Sum!ap_get_data_to(Cell(CAM_A, row), Cell(CAM_C, row), mem)
                  /\ q = Sum!ap_get_data_to(Cell(CAM_B, row), Cell(CAM_C, h + row), m)
  OBVIOUS
<1>8. mem' = q
  <2>1. CamBase(CAM_C, 0) + h + row = CamBase(CAM_C, 0) + (h + row)
    <3>1. CamBase(CAM_C, 0) \in Nat
      BY <1>6, Cells, Cams
    <3>2. QED
      BY <1>5, <3>1
  <2>2. mem' = Sum!ap_get_data_to(CamBase(CAM_B, 0) + row, CamBase(CAM_C, 0) + h + row,
                 Sum!ap_get_data_to(CamBase(CAM_A, 0) + row, CamBase(CAM_C, 0) + row, mem))
    BY <1>4, SumDevice DEF Sum!Halve
  <2>3. QED
    BY <1>7, <2>1, <2>2 DEF Cell
<1>9. Cell(CAM_C, row) \in CamAddr /\ Cell(CAM_C, h + row) \in CamAddr
  BY <1>6, Cells, Cams
<1>10. CAM_A \in APCollunm /\ CAM_B \in APCollunm /\ CAM_C \in APCollunm /\ CAM_A # CAM_B /\ CAM_A # CAM_C /\ CAM_B # CAM_C
  BY Cams DEF CAM_A, CAM_B, CAM_C
<1>11. /\ m \in Memory /\ m[Cell(CAM_A, row)] = mem[Cell(CAM_C, row)]
       /\ \A c \in APCollunm, r \in Row : c # CAM_A \/ r # row => m[Cell(c, r)] = mem[Cell(c, r)]
  <2>1. mem \in Memory /\ CAM_A \in APCollunm /\ row \in Row /\ Cell(CAM_C, row) \in CamAddr
    BY <1>1, <1>6, <1>9, <1>10
  <2>2. m = Sum!ap_get_data_to(Cell(CAM_A, row), Cell(CAM_C, row), mem)
    BY <1>7
  <2>3. QED
    BY <2>1, <2>2, GetsData
<1>12. /\ q \in Memory /\ q[Cell(CAM_B, row)] = m[Cell(CAM_C, h + row)]
       /\ \A c \in APCollunm, r \in Row : c # CAM_B \/ r # row => q[Cell(c, r)] = m[Cell(c, r)]
  <2>1. m \in Memory /\ CAM_B \in APCollunm /\ row \in Row /\ Cell(CAM_C, h + row) \in CamAddr
    BY <1>6, <1>9, <1>10, <1>11
  <2>2. q = Sum!ap_get_data_to(Cell(CAM_B, row), Cell(CAM_C, h + row), m)
    BY <1>7
  <2>3. QED
    BY <2>1, <2>2, GetsData
<1>13. \A r \in 0 .. n - 1 : q[Cell(CAM_C, r)] = v
  <2>1. \A r \in 0 .. n - 1 : r \in Row /\ mem[Cell(CAM_C, r)] = v
    BY <1>3, <1>4, <1>5, ColSizeAssumption DEF Summed, Row
  <2>2. QED
    BY <1>10, <1>11, <1>12, <2>1
<1>14. ASSUME NEW r \in 0 .. row
       PROVE  q[Cell(CAM_A, r)] = v /\ q[Cell(CAM_B, r)] = v
  <2>1. r \in Row /\ (r = row \/ (r # row /\ r \in 0 .. row - 1))
    BY <1>5, ColSizeAssumption DEF Row
  <2>2. CASE r = row
    <3>1. mem[Cell(CAM_C, row)] = v /\ mem[Cell(CAM_C, h + row)] = v
      BY <1>3, <1>4, <1>6 DEF Summed
    <3>2. QED
      BY <1>6, <1>10, <1>11, <1>12, <2>2, <3>1
  <2>3. CASE r # row
    <3>1. mem[Cell(CAM_A, r)] = v /\ mem[Cell(CAM_B, r)] = v
      BY <1>3, <1>4, <2>1, <2>3 DEF Shared
    <3>2. QED
      BY <1>10, <1>11, <1>12, <2>1, <2>3, <3>1
  <2>4. QED
    BY <2>2, <2>3
<1>15. Accumulating'
  <2>1. Sum!half' = h
    BY <1>1, <1>4 DEF Sum!half
  <2>2. k' \in 0 .. Sum!half'
    BY <1>1, <1>4, <1>5, <2>1
  <2>3. \A r \in 0 .. (row + 1) - 1 : r \in 0 .. row
    BY <1>5
  <2>4. Left(part)' /\ Summed(i, (2 * part) % ByteMod)' /\ Shared(k, (2 * part) % ByteMod)'
    BY <1>1, <1>3, <1>4, <1>8, <1>13, <1>14, <2>3 DEF Left, Summed, Shared
  <2>5. QED
    BY <1>1, <2>2, <2>4 DEF Accumulating
<1>16. QED
  BY <1>1, <1>8, <1>12, <1>15 DEF SumsInv, Sum!Accumulates, Sum!Searches

LEMMA NextRoundStep ==
  ASSUME Sum!RowsAssumption, SumsInv, Sum!NextRound
  PROVE  SumsInv'
<1>1. /\ Sum!Accumulates /\ fn' = fn /\ phase = "halve" /\ mem \in Memory /\ mem' = mem
      /\ k = Sum!half /\ k' = 0 /\ i' = Sum!half
      /\ phase' = IF Sum!half > 0 THEN "compute" ELSE "done"
  BY DEF SumsInv, Sum!NextRound, Sum!At, Sum!device
<1>2. PICK part : Left(part) /\ Shared(k, (2 * part) % ByteMod)
  BY <1>1 DEF SumsInv, Accumulating
<1>3. PICK n, h : n = i /\ h = Sum!half
  OBVIOUS
<1>4. /\ n \in Halves /\ n \in Nat \ {0} /\ part \in Nat /\ n * part = N /\ h = n \div 2
      /\ n = 1 \/ (n % 2 = 0 /\ h \in Halves)
  BY <1>2, <1>3, HalvesOfN DEF Left, Sum!half
<1>5. CASE n = 1
  <2>1. ~ (h > 0)
    BY <1>4, <1>5
  <2>2. Accumulating'
    BY <1>1, <1>3, <2>1 DEF Accumulating
  <2>3. QED
    BY <1>1, <2>2 DEF SumsInv, Sum!Accumulates, Sum!Searches
<1>6. CASE n # 1
  <2>1. h \in Halves /\ h \in Nat /\ h > 0 /\ n = 2 * h
    BY <1>4, <1>6, HalvesOfN
  <2>2. PICK p \in Nat : p = 2 * part
    BY <1>4
  <2>3. h * p = N
    BY <1>4, <2>1, <2>2
  <2>4. Left(p)'
    BY <1>1, <1>3, <2>1, <2>2, <2>3 DEF Left
  <2>5. Shared(i, p % ByteMod)'
    BY <1>1, <1>2, <2>2 DEF Shared
  <2>6. Accumulating'
    BY <1>1, <1>3, <2>1, <2>4, <2>5 DEF Accumulating
  <2>7. QED
    BY <1>1, <2>6 DEF SumsInv, Sum!Accumulates, Sum!Searches
<1>7. QED
  BY <1>5, <1>6

LEMMA FillRowsStep ==
  ASSUME Sum!RowsAssumption, SumsInv, Sum!FillRows
  PROVE  SumsInv'
<1>1. Sum!Searches /\ fn' = fn /\ phase' = "search" /\ mem \in Memory
  BY DEF SumsInv, Sum!FillRows, Sum!At
<1>2. PICK q : q = [a \in CamAddr |-> IF a \notin {CamBase(CAM_A, 0) + r : r \in Row} THEN mem[a]
                                     ELSE IF a = CamBase(CAM_A, 0) + KeyRow THEN Key ELSE Other]
  OBVIOUS
<1>3. mem' = q
  BY <1>2, SumDevice DEF Sum!FillRows
<1>4. Key \in Byte /\ Other \in Byte /\ KeyRow \in Row
  BY SumDevice DEF Sum!RowsAssumption
<1>5. q \in Memory
  <2>1. \A a \in CamAddr : mem[a] \in Byte
    BY <1>1 DEF Memory
  <2>2. \A a \in CamAddr : (IF a \notin {CamBase(CAM_A, 0) + r : r \in Row} THEN mem[a]
                            ELSE IF a = CamBase(CAM_A, 0) + KeyRow THEN Key ELSE Other) \in Byte
    BY <1>4, <2>1
  <2>3. QED
    BY <1>2, <2>2 DEF Memory
<1>6. ASSUME NEW r \in Row
      PROVE  q[Cell(CAM_A, r)] = IF r = KeyRow THEN Key ELSE Other
  <2>1. Cell(CAM_A, r) \in CamAddr /\ (Cell(CAM_A, r) = Cell(CAM_A, KeyRow) => r = KeyRow)
    <3>1. r \in Whole /\ KeyRow \in Whole /\ CAM_A \in APCollunm
      BY <1>4, Cells, Cams
    <3>2. QED
      BY <3>1, Cells
  <2>2. Cell(CAM_A, r) \in {CamBase(CAM_A, 0) + x : x \in Row}
    BY DEF Cell
  <2>3. q[Cell(CAM_A, r)] = IF Cell(CAM_A, r) = Cell(CAM_A, KeyRow) THEN Key ELSE Other
    BY <1>2, <2>1, <2>2 DEF Cell
  <2>4. QED
    BY <2>1, <2>3
<1>7. Searching'
  BY <1>1, <1>3, <1>6 DEF Searching
<1>8. QED
  BY <1>1, <1>3, <1>5, <1>7 DEF SumsInv, Sum!Accumulates, Sum!Searches

LEMMA SearchStep ==
  ASSUME Sum!RowsAssumption, SumsInv, Sum!Search
  PROVE  SumsInv'
<1>1. Sum!Searches /\ fn' = fn /\ phase = "search" /\ phase' = "copy" /\ mem \in Memory
  BY DEF SumsInv, Sum!Search, Sum!At
<1>2. \A r \in Row : mem[Cell(CAM_A, r)] = IF r = KeyRow THEN Key ELSE Other
  BY <1>1 DEF SumsInv, Searching
<1>3. PICK q : q = Sum!Effect(SearchKey, mem)
  OBVIOUS
<1>4. mem' = q
  BY <1>3 DEF Sum!Search, Sum!Hal, SearchKey
<1>5. q \in Memory /\ \A r \in Row : q[Cell(CAM_C, r)] = IF mem[Cell(CAM_A, r)] = Key THEN 1 ELSE 0
  BY <1>1, <1>3, SearchMarks
<1>6. Key # Other
  BY DEF Sum!RowsAssumption
<1>7. Searching'
  BY <1>1, <1>2, <1>4, <1>5, <1>6 DEF Searching
<1>8. QED
  BY <1>1, <1>4, <1>5, <1>7 DEF SumsInv, Sum!Accumulates, Sum!Searches

LEMMA CopyFoundStep ==
  ASSUME Sum!RowsAssumption, SumsInv, Sum!CopyFound
  PROVE  SumsInv'
<1>1. /\ Sum!Searches /\ fn' = fn /\ phase = "copy" /\ phase' = "done" /\ mem \in Memory /\ mem' = mem
      /\ found' = [r \in Row |-> mem[Cell(CAM_C, r)]]
  BY SumDevice DEF SumsInv, Sum!CopyFound, Sum!At, Sum!device, Cell
<1>2. \A r \in Row : mem[Cell(CAM_C, r)] = IF r = KeyRow THEN 1 ELSE 0
  BY <1>1 DEF SumsInv, Searching
<1>3. found' = Sum!cpu_search
  BY <1>1, <1>2, SumDevice DEF Sum!cpu_search
<1>4. Searching'
  BY <1>1, <1>3 DEF Searching, Sum!cpu_search
<1>5. QED
  BY <1>1, <1>4 DEF SumsInv, Sum!Accumulates, Sum!Searches

LEMMA SumsAgainStep ==
  ASSUME Sum!RowsAssumption, SumsInv, Sum!Again
  PROVE  SumsInv'
<1>1. mem' = mem /\ mem \in Memory /\ fn' \in Sum!Tests /\ i' = N /\ k' = 0 /\ phase' = "fill"
  BY DEF SumsInv, Sum!Again, Sum!device
<1>2. Accumulating' /\ Searching'
  BY <1>1, HalvesOfN DEF Accumulating, Searching, Shared
<1>3. QED
  BY <1>1, <1>2 DEF SumsInv, Sum!Tests, Sum!Accumulates, Sum!Searches

LEMMA SumsStutter ==
  ASSUME SumsInv, UNCHANGED Sum!vars_s
  PROVE  SumsInv'
<1>1. UNCHANGED <<mem, fn, i, k, found, phase>>
  BY DEF Sum!vars_s, Sum!device
<1>2. Accumulating' = Accumulating /\ Searching' = Searching
  BY <1>1 DEF Accumulating, Searching, Shared, Summed, Left, Sum!half, Sum!cpu_search
<1>3. QED
  BY <1>1, <1>2 DEF SumsInv, Sum!Accumulates, Sum!Searches

LEMMA SumsNextInv == Sum!RowsAssumption /\ SumsInv /\ [Sum!NextSums]_(Sum!vars_s) => SumsInv'
  BY StoreOnesStep, RoundStep, HalveStep, NextRoundStep, FillRowsStep, SearchStep, CopyFoundStep,
     SumsAgainStep, SumsStutter DEF Sum!NextSums, Sum!Step, Sum!Return

LEMMA InvParts == Sum!RowsAssumption /\ SumsInv => Sum!PartsOfTheSum
<1> SUFFICES ASSUME Sum!RowsAssumption, SumsInv, Sum!Accumulates, phase = "halve", NEW r \in 0 .. i - 1
             PROVE  mem[Sum!CamBase(Sum!CAM_C, 0) + r] = ((2 * N) \div i) % ByteMod
  BY DEF Sum!PartsOfTheSum
<1>1. PICK part : Left(part) /\ Summed(i, (2 * part) % ByteMod)
  BY DEF SumsInv, Accumulating
<1>2. PICK n : n = i
  OBVIOUS
<1>3. n \in Nat \ {0} /\ part \in Nat /\ N \in Nat /\ n * part = N
  BY <1>1, <1>2, HalvesOfN DEF Left
<1>4. (2 * N) \div n = 2 * part
  BY <1>3, PartsDoubled
<1>5. mem[Cell(CAM_C, r)] = (2 * part) % ByteMod
  BY <1>1 DEF Summed
<1>6. QED
  BY <1>2, <1>4, <1>5, SumDevice DEF Cell

LEMMA InvMarks == SumsInv => Sum!MarksTheKey
  BY DEF SumsInv, Searching, Sum!MarksTheKey

\* After each round of accumulate_horizontal the rows that are still summands hold equal
\* parts of the sum, modulo the byte, however many bytes the word stores of ap_store_data
\* reach and whatever the columns held (ap_tests.h:462-489, ap_funcs.S:12-27).
THEOREM PartsAreOfTheSum ==
  ASSUME Sum!RowsAssumption
  PROVE  Sum!SpecSums => []Sum!PartsOfTheSum
<1>1. Sum!InitSums => SumsInv
  BY SumsInitInv
<1>2. SumsInv /\ [Sum!NextSums]_(Sum!vars_s) => SumsInv'
  BY SumsNextInv
<1>3. SumsInv => Sum!PartsOfTheSum
  BY InvParts
<1>4. QED
  BY <1>1, <1>2, <1>3, PTL DEF Sum!SpecSums

\* ap_search_test copies out a one in the row of the key and zeros in the others
\* (ap_tests.h:565-578), also when sums were made in the columns before.
THEOREM KeyIsMarked ==
  ASSUME Sum!RowsAssumption
  PROVE  Sum!SpecSums => []Sum!MarksTheKey
<1>1. Sum!InitSums => SumsInv
  BY SumsInitInv
<1>2. SumsInv /\ [Sum!NextSums]_(Sum!vars_s) => SumsInv'
  BY SumsNextInv
<1>3. SumsInv => Sum!MarksTheKey
  BY InvMarks
<1>4. QED
  BY <1>1, <1>2, <1>3, PTL DEF Sum!SpecSums

-----------------------------------------------------------------------------
(* Any of the programs. *)

\* The invariant of the program that runs.
KernelsInv ==
  /\ Multiplies => IInv /\ ~Inside
  /\ Operates => VectorsInv
  /\ Inside => SumsInv

\* The assumptions of ApVectors and ApSums, on constants that ApMatmul leaves alone.
ProgramsAssumption == Vec!VectorsAssumption /\ Sum!RowsAssumption

\* Which program runs.
LEMMA WhoRuns ==
  /\ IInv => Multiplies
  /\ VectorsInv => ~Inside
  /\ SumsInv => Inside
<1>1. IInv => Multiplies
  BY DEF IInv, Shape, Multiplies
<1>2. VectorsInv => ~Inside
  BY DEF VectorsInv, Arguments, Inside, Sum!Tests, Vec!KernelFn, Vec!HorizontalFn
<1>3. SumsInv => Inside
  BY DEF SumsInv, Inside, Sum!Tests, Sum!Accumulates, Sum!Searches
<1>4. QED
  BY <1>1, <1>2, <1>3

LEMMA KernelsInitInv == ProgramsAssumption /\ InitKernels => KernelsInv
<1> SUFFICES ASSUME ProgramsAssumption, InitKernels PROVE KernelsInv
  OBVIOUS
<1>1. CASE InitMatmul /\ fn = "none"
  <2>1. IInv /\ Multiplies /\ ~Inside
    BY <1>1, InitIInv, Assumed, WhoRuns DEF Inside, Sum!Tests
  <2>2. QED
    BY <2>1 DEF KernelsInv, Operates
<1>2. CASE Vec!InitVectors /\ NoMatrix
  <2>1. VectorsInv /\ ~Inside /\ ~Multiplies
    BY <1>2, VectorsInitInv, WhoRuns DEF ProgramsAssumption, NoMatrix, Multiplies
  <2>2. QED
    BY <2>1 DEF KernelsInv, Operates
<1>3. CASE Sum!InitSums /\ NoMatrix
  <2>1. SumsInv /\ Inside /\ ~Multiplies
    BY <1>3, SumsInitInv, WhoRuns DEF ProgramsAssumption, NoMatrix, Multiplies
  <2>2. QED
    BY <2>1 DEF KernelsInv, Operates
<1>4. QED
  BY <1>1, <1>2, <1>3 DEF InitKernels

\* A program's step keeps its own invariant, and the program.
LEMMA KernelsNextInv == ProgramsAssumption /\ KernelsInv /\ [NextKernels]_all => KernelsInv'
<1> SUFFICES ASSUME ProgramsAssumption, KernelsInv, [NextKernels]_all PROVE KernelsInv'
  OBVIOUS
<1>1. CASE Multiplies /\ [NextMatmul]_vars_mm /\ UNCHANGED fn
  <2>1. IInv' /\ ~Inside'
    BY <1>1, NextIInv, Assumed DEF KernelsInv, Inside
  <2>2. Multiplies'
    BY <2>1 DEF IInv, Shape, Multiplies
  <2>3. QED
    BY <2>1, <2>2 DEF KernelsInv, Operates
<1>2. CASE Operates /\ [Vec!NextVectors]_(Vec!vars_v) /\ UNCHANGED kernel
  <2>1. VectorsInv' /\ ~Multiplies'
    BY <1>2, VectorsNextInv DEF KernelsInv, ProgramsAssumption, Operates, Multiplies
  <2>2. ~Inside'
    BY <2>1 DEF VectorsInv, Arguments, Inside, Sum!Tests, Vec!KernelFn, Vec!HorizontalFn
  <2>3. QED
    BY <2>1, <2>2 DEF KernelsInv, Operates
<1>3. CASE Inside /\ [Sum!NextSums]_(Sum!vars_s) /\ UNCHANGED kernel
  <2>1. SumsInv' /\ ~Multiplies'
    BY <1>3, SumsNextInv DEF KernelsInv, ProgramsAssumption, Multiplies
  <2>2. Inside'
    BY <2>1 DEF SumsInv, Inside, Sum!Tests, Sum!Accumulates, Sum!Searches
  <2>3. QED
    BY <2>1, <2>2 DEF KernelsInv, Operates
<1>4. CASE UNCHANGED all
  <2>1. UNCHANGED <<vars_mm, Vec!vars_v, Sum!vars_s, fn, kernel>>
    BY <1>4 DEF all, shared, matrices, vectors, inside, vars_mm, device, loop, Vec!vars_v, Vec!device, Vec!args,
                Sum!vars_s, Sum!device
  <2>2. QED
    BY <1>1, <1>2, <1>3, <2>1 DEF Operates
<1>5. QED
  BY <1>1, <1>2, <1>3, <1>4 DEF NextKernels, matrices

\* In every program of vector operations and products, C holds the newest slice that reaches
\* each row when vector_ap_op_kernel_horizontal returns (ap_tests.h:310-323).
THEOREM NewestSliceAlways == ASSUME ProgramsAssumption PROVE SpecKernels => []NewestSlice
<1>1. KernelsInv => NewestSlice
  BY InvNewest DEF KernelsInv, NewestSlice
<1>2. KernelsInv /\ [NextKernels]_all => KernelsInv'
  BY KernelsNextInv
<1>3. QED
  BY KernelsInitInv, <1>1, <1>2, PTL DEF SpecKernels

\* Whichever program runs, the columns hold what its reference computes: the operation's
\* results when the measurement ends and between its rounds, zero before the next size, equal
\* parts of the sum, and the mark of the key
\* (ap_tests.h:381-426, 462-489 and 565-578, cpu_tests.h:465-483).
THEOREM VectorsAreGoldenAlways == ASSUME ProgramsAssumption PROVE SpecKernels => []VectorsAreGolden
<1>1. KernelsInv => VectorsAreGolden
  BY InvColumns, InvOffloaded, InvClean, InvParts, InvMarks DEF KernelsInv, ProgramsAssumption, VectorsAreGolden
<1>2. KernelsInv /\ [NextKernels]_all => KernelsInv'
  BY KernelsNextInv
<1>3. QED
  BY KernelsInitInv, <1>1, <1>2, PTL DEF SpecKernels
=============================================================================
