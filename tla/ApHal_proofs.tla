---------------------------- MODULE ApHal_proofs ----------------------------
(***************************************************************************)
(* For columns of any size, bytes of any width and any client ApHal is     *)
(* type correct; and if the client keeps away from the functions with a    *)
(* bounded poll, the processor stands at the interrupt poll whenever the   *)
(* engine computes, and (without the vertical functions) the interface is  *)
(* locked then.                                                            *)
(*                                                                         *)
(* The argument is about the programs, not about the states: in every      *)
(* function a write that triggers the engine is followed at once by the    *)
(* unbounded wait.  `Sound' says so of a sequence of accesses; it holds of *)
(* each function's sequence and of every tail of a sound sequence.         *)
(***************************************************************************)
EXTENDS ApHal, SequenceTheorems, TLAPS

PollingFns  == {"ap_trigger_computing", "op_target_setup"}

\* The interface states a trigger of this client may be written with.
Locks == IF Callable \cap VerticalFns = {} THEN {STATIC} ELSE {STATIC, DYNAMIC}

Triggers(x) == x.kind = "control" /\ x.control.trigger

Sound(s) ==
  \A i \in 1 .. Len(s) :
    /\ s[i].kind # "poll"
    /\ Triggers(s[i]) => /\ s[i].control.ap_if_state \in Locks
                         /\ i < Len(s)
                         /\ s[i + 1].kind = "wait"

IInv ==
  /\ TypeOK
  /\ suspect = FALSE
  /\ Sound(todo)
  /\ irq => ~ busy
  /\ busy => /\ todo # << >>
             /\ Head(todo).kind = "wait"
             /\ control.ap_if_state \in Locks

-----------------------------------------------------------------------------
(* Sequences of accesses. *)

LEMMA HeadIsFirst ==
  ASSUME NEW s \in Seq(Access), 1 \in 1 .. Len(s)
  PROVE  s # << >> /\ Head(s) = s[1]
  BY HeadTailProperties

LEMMA TailIsSound ==
  ASSUME NEW s \in Seq(Access), s # << >>, Sound(s)
  PROVE  Tail(s) \in Seq(Access) /\ Sound(Tail(s))
<1>1. /\ Tail(s) \in Seq(Access)
      /\ Len(Tail(s)) = Len(s) - 1
      /\ \A i \in 1 .. Len(Tail(s)) : Tail(s)[i] = s[i + 1]
  BY HeadTailProperties
<1>2. ASSUME NEW i \in 1 .. Len(Tail(s))
      PROVE  /\ Tail(s)[i].kind # "poll"
             /\ Triggers(Tail(s)[i]) => /\ Tail(s)[i].control.ap_if_state \in Locks
                                        /\ i < Len(Tail(s))
                                        /\ Tail(s)[i + 1].kind = "wait"
  <2>1. i + 1 \in 1 .. Len(s) /\ Tail(s)[i] = s[i + 1]
    BY <1>1
  <2>2. Triggers(s[i + 1]) => i + 1 < Len(s) /\ s[i + 2].kind = "wait"
    BY <2>1 DEF Sound
  <2>3. i + 1 < Len(s) => Tail(s)[i + 1] = s[i + 2]
    BY <1>1, <2>1
  <2>4. QED
    BY <1>1, <2>1, <2>2, <2>3 DEF Sound
<1>3. QED
  BY <1>1, <1>2 DEF Sound

LEMMA ConcatIsSound ==
  ASSUME NEW s \in Seq(Access), NEW t \in Seq(Access), Sound(s), Sound(t)
  PROVE  s \o t \in Seq(Access) /\ Sound(s \o t)
<1>1. /\ s \o t \in Seq(Access)
      /\ Len(s \o t) = Len(s) + Len(t)
      /\ \A i \in 1 .. Len(s) + Len(t) :
           (s \o t)[i] = IF i <= Len(s) THEN s[i] ELSE t[i - Len(s)]
  BY ConcatProperties
<1>2. ASSUME NEW i \in 1 .. Len(s \o t)
      PROVE  /\ (s \o t)[i].kind # "poll"
             /\ Triggers((s \o t)[i]) => /\ (s \o t)[i].control.ap_if_state \in Locks
                                         /\ i < Len(s \o t)
                                         /\ (s \o t)[i + 1].kind = "wait"
  <2>1. CASE i <= Len(s)
    <3>1. i \in 1 .. Len(s) /\ (s \o t)[i] = s[i]
      BY <1>1, <2>1
    <3>2. i < Len(s) => (s \o t)[i + 1] = s[i + 1]
      BY <1>1, <3>1
    <3>3. QED
      BY <1>1, <3>1, <3>2 DEF Sound
  <2>2. CASE i > Len(s)
    <3>1. i - Len(s) \in 1 .. Len(t) /\ (s \o t)[i] = t[i - Len(s)]
      BY <1>1, <2>2
    <3>2. i - Len(s) < Len(t) => (s \o t)[i + 1] = t[i - Len(s) + 1]
      BY <1>1, <3>1
    <3>3. QED
      BY <1>1, <3>1, <3>2 DEF Sound
  <2>3. QED
    BY <1>1, <2>1, <2>2
<1>3. QED
  BY <1>1, <1>2 DEF Sound

-----------------------------------------------------------------------------
(* Addresses and accesses. *)

LEMMA ColumnAddress ==
  ASSUME NEW col \in APCollunm, NEW h \in {0, 1}
  PROVE  /\ CamBase(col, h) \in Nat
         /\ \A r \in Row : CamBase(col, h) + r \in CamAddr
<1>1. AP_COL_SIZE \in Nat /\ AP_COL_SIZE > 0
  BY ColSizeAssumption
<1>2. CASE col = 0
  BY <1>1, <1>2 DEF CamBase, Row, CamAddr
<1>3. CASE col = 1
  BY <1>1, <1>3 DEF CamBase, Row, CamAddr
<1>4. CASE col = 2
  BY <1>1, <1>4 DEF CamBase, Row, CamAddr
<1>5. QED
  BY <1>2, <1>3, <1>4 DEF APCollunm, CAM_A, CAM_C

LEMMA VectorAddress ==
  ASSUME NEW col \in APCollunm, NEW i \in {LEFT, RIGHT}
  PROVE  VectorBase(col, i) \in Nat
<1>1. AP_COL_SIZE \in Nat
  BY ColSizeAssumption
<1>2. CASE col = 0
  BY <1>1, <1>2 DEF VectorBase, LEFT, RIGHT
<1>3. CASE col = 1
  BY <1>1, <1>3 DEF VectorBase, LEFT, RIGHT
<1>4. CASE col = 2
  BY <1>1, <1>4 DEF VectorBase, LEFT, RIGHT
<1>5. QED
  BY <1>2, <1>3, <1>4 DEF APCollunm, CAM_A, CAM_C

LEMMA StoreVectorIsSound ==
  ASSUME NEW base \in Nat, NEW V \in Seq(Byte)
  PROVE  StoreVector(base, V) \in Seq(Access) /\ Sound(StoreVector(base, V))
<1>1. \A i \in 1 .. Len(V) : base + i - 1 \in Nat /\ V[i] \in Byte
  BY ElementOfSeq
<1>2. Len(V) \in Nat
  OBVIOUS
<1>3. \A i \in 1 .. Len(V) : Store(base + i - 1, V[i]) \in Access
  BY <1>1 DEF Store, Access
<1>4. StoreVector(base, V) \in Seq(Access)
  BY <1>2, <1>3, IsASeq DEF StoreVector
<1>5. /\ Len(StoreVector(base, V)) = Len(V)
      /\ \A i \in 1 .. Len(V) : StoreVector(base, V)[i].kind = "store"
  BY <1>2, <1>4 DEF StoreVector, Store
<1>6. QED
  BY <1>4, <1>5 DEF Sound, Triggers

LEMMA LoadVectorIsSound ==
  ASSUME NEW base \in Nat, NEW n \in Nat
  PROVE  LoadVector(base, n) \in Seq(Access) /\ Sound(LoadVector(base, n))
<1>1. \A i \in 1 .. n : Load(base + i - 1) \in Access
  BY DEF Load, Access
<1>2. LoadVector(base, n) \in Seq(Access)
  BY <1>1, IsASeq DEF LoadVector
<1>3. /\ Len(LoadVector(base, n)) = n
      /\ \A i \in 1 .. n : LoadVector(base, n)[i].kind = "load"
  BY <1>2 DEF LoadVector, Load
<1>4. QED
  BY <1>2, <1>3 DEF Sound, Triggers

LEMMA CopyIsSound ==
  ASSUME NEW to \in Nat, NEW from \in Nat, NEW n \in Nat,
         NEW s, s = [i \in 1 .. n |-> Copy(to + i - 1, from + i - 1)]
  PROVE  s \in Seq(Access) /\ Sound(s)
<1>1. \A i \in 1 .. n : Copy(to + i - 1, from + i - 1) \in Access
  BY DEF Copy, Access
<1>2. s \in Seq(Access)
  BY <1>1, IsASeq
<1>3. Len(s) = n /\ \A i \in 1 .. n : s[i].kind = "copy"
  BY <1>2 DEF Copy
<1>4. QED
  BY <1>2, <1>3 DEF Sound, Triggers

\* The accesses a control or mode write is made of.
LEMMA RegisterAccess ==
  /\ \A f \in {DYNAMIC, STATIC}, t \in {TARGET_C, TARGET_A}, g \in BOOLEAN, r \in SUBSET Bits :
       /\ Control(f, t, g, r) \in Access
       /\ Control(f, t, g, r).kind = "control"
       /\ Control(f, t, g, r).control.trigger = g
       /\ Control(f, t, g, r).control.ap_if_state = f
  /\ \A i \in InternalCol, c \in APCollunm, d \in {HORIZONTAL, VERTICAL}, o \in APOperations :
       Mode(i, c, d, o) \in Access /\ Mode(i, c, d, o).kind = "mode"
  /\ Release \in Access /\ Release.kind = "control" /\ Release.control.trigger = FALSE
  /\ ZeroMode \in Access /\ ZeroMode.kind = "mode"
  /\ Wait \in Access /\ Wait.kind = "wait"
  /\ EndCycles \in Access /\ EndCycles.kind = "end_cycles"
<1>1. ASSUME NEW f \in {DYNAMIC, STATIC}, NEW t \in {TARGET_C, TARGET_A}, NEW g \in BOOLEAN,
             NEW r \in SUBSET Bits
      PROVE  /\ Control(f, t, g, r) \in Access
             /\ Control(f, t, g, r).kind = "control"
             /\ Control(f, t, g, r).control.trigger = g
             /\ Control(f, t, g, r).control.ap_if_state = f
  BY DEF Control, set_control_reg, Access, ControlReg
<1>2. ASSUME NEW i \in InternalCol, NEW c \in APCollunm, NEW d \in {HORIZONTAL, VERTICAL},
             NEW o \in APOperations
      PROVE  Mode(i, c, d, o) \in Access /\ Mode(i, c, d, o).kind = "mode"
  BY DEF Mode, set_mode_reg, Access, ModeReg
<1>3. Release \in Access /\ Release.kind = "control" /\ Release.control.trigger = FALSE
  BY DEF Release, Released, set_control_reg, Access, ControlReg, TARGET_C, DYNAMIC
<1>4. ZeroMode \in Access /\ ZeroMode.kind = "mode"
  BY DEF ZeroMode, ModeZero, set_mode_reg, Access, ModeReg, InternalCol, APCollunm, APOperations,
         LEFT, CAM_A, CAM_C, HORIZONTAL, OR, ADD_D
<1>5. /\ Wait \in Access /\ Wait.kind = "wait"
      /\ EndCycles \in Access /\ EndCycles.kind = "end_cycles"
  BY DEF Wait, EndCycles, Access
<1>6. QED
  BY <1>1, <1>2, <1>3, <1>4, <1>5

-----------------------------------------------------------------------------
(* Programs. *)

\* The accesses that neither trigger nor poll: any sequence of them is sound.
Quiet == {x \in Access : x.kind # "poll" /\ ~ Triggers(x)}

\* Literal sequences, of the lengths the functions have.
LEMMA Literal ==
  ASSUME NEW S, NEW a \in S, NEW b \in S, NEW c \in S, NEW d \in S, NEW e \in S, NEW f \in S
  PROVE  /\ << a >> \in Seq(S) /\ << a, b >> \in Seq(S) /\ << a, b, c >> \in Seq(S)
         /\ << a, b, c, d >> \in Seq(S) /\ << a, b, c, d, e >> \in Seq(S)
         /\ << a, b, c, d, e, f >> \in Seq(S)
  OBVIOUS

LEMMA Joined ==
  ASSUME NEW S, NEW a \in S, NEW b \in S, NEW c \in S, NEW d \in S, NEW e \in S
  PROVE  << a, b, c >> \o << d, e >> = << a, b, c, d, e >>
<1> DEFINE s == << a, b, c >>
           t == << d, e >>
           u == << a, b, c, d, e >>
<1>1. s \in Seq(S) /\ t \in Seq(S) /\ u \in Seq(S) /\ Len(s) = 3 /\ Len(t) = 2 /\ Len(u) = 5
  OBVIOUS
<1>2. /\ s \o t \in Seq(S) /\ Len(s \o t) = 5
      /\ \A i \in 1 .. 5 : (s \o t)[i] = IF i <= 3 THEN s[i] ELSE t[i - 3]
  BY <1>1, ConcatProperties
<1>3. \A i \in 1 .. 5 : (s \o t)[i] = u[i]
  <2>1. (s \o t)[1] = a /\ (s \o t)[2] = b /\ (s \o t)[3] = c /\ (s \o t)[4] = d /\ (s \o t)[5] = e
    BY <1>2
  <2>2. QED
    BY <2>1
<1>4. QED
  BY <1>1, <1>2, <1>3, SeqEqual

LEMMA LongLiteral ==
  ASSUME NEW S, NEW a \in S, NEW b \in S, NEW c \in S, NEW d \in S, NEW e \in S, NEW f \in S
  PROVE  << a, b, c, d, c, e, c, f, d, c, a, b >> \in Seq(S)
  OBVIOUS

LEMMA QuietIsSound ==
  ASSUME NEW s \in Seq(Quiet)
  PROVE  s \in Seq(Access) /\ Sound(s)
  BY DEF Sound, Quiet

LEMMA QuietControl ==
  ASSUME NEW f \in {DYNAMIC, STATIC}, NEW t \in {TARGET_C, TARGET_A}, NEW r \in SUBSET Bits
  PROVE  Control(f, t, FALSE, r) \in Quiet
  BY DEF Control, set_control_reg, Access, ControlReg, Quiet, Triggers

LEMMA QuietMode ==
  ASSUME NEW i \in InternalCol, NEW c \in APCollunm, NEW d \in {HORIZONTAL, VERTICAL},
         NEW o \in APOperations
  PROVE  Mode(i, c, d, o) \in Quiet
  BY DEF Mode, set_mode_reg, Access, ModeReg, Quiet, Triggers

LEMMA QuietOthers ==
  /\ Release \in Quiet /\ ZeroMode \in Quiet /\ Wait \in Quiet /\ EndCycles \in Quiet
  /\ \A a \in Nat, v \in Byte : Store(a, v) \in Quiet
  BY RegisterAccess DEF Quiet, Triggers, Store, Access, ZeroMode, Wait, EndCycles

\* Three register writes, the last of which may trigger, and then the wait.
LEMMA TriggerIsSound ==
  ASSUME NEW a \in Access, a.kind # "poll", ~ Triggers(a),
         NEW b \in Access, b.kind # "poll", ~ Triggers(b),
         NEW c \in Access, c.kind # "poll", Triggers(c) => c.control.ap_if_state \in Locks,
         NEW rest \in Seq(Access), Sound(rest), Len(rest) > 0, rest[1].kind = "wait"
  PROVE  << a, b, c >> \o rest \in Seq(Access) /\ Sound(<< a, b, c >> \o rest)
<1> DEFINE s == << a, b, c >> \o rest
<1>1. << a, b, c >> \in Seq(Access)
  OBVIOUS
<1>2. /\ s \in Seq(Access)
      /\ Len(s) = 3 + Len(rest)
      /\ \A i \in 1 .. 3 + Len(rest) :
           s[i] = IF i <= 3 THEN << a, b, c >>[i] ELSE rest[i - 3]
  BY <1>1, ConcatProperties
<1>3. s[1] = a /\ s[2] = b /\ s[3] = c /\ s[4] = rest[1]
  BY <1>2
<1>4. ASSUME NEW i \in 1 .. Len(s)
      PROVE  /\ s[i].kind # "poll"
             /\ Triggers(s[i]) => /\ s[i].control.ap_if_state \in Locks
                                  /\ i < Len(s)
                                  /\ s[i + 1].kind = "wait"
  <2>1. CASE i \in 1 .. 3
    BY <1>2, <1>3, <2>1
  <2>2. CASE i > 3
    <3>1. i - 3 \in 1 .. Len(rest) /\ s[i] = rest[i - 3]
      BY <1>2, <2>2
    <3>2. i - 3 < Len(rest) => s[i + 1] = rest[i - 3 + 1]
      BY <1>2, <3>1
    <3>3. QED
      BY <1>2, <3>1, <3>2 DEF Sound
  <2>3. QED
    BY <1>2, <2>1, <2>2
<1>5. QED
  BY <1>2, <1>4 DEF Sound

\* What follows a trigger in the functions that wait.
LEMMA WaitIsSound ==
  \A w \in {<< Wait, Release >>, << Wait, EndCycles >>, << Wait, EndCycles, Release >>} :
    w \in Seq(Access) /\ Sound(w) /\ Len(w) > 0 /\ w[1].kind = "wait"
<1>1. /\ << Wait, Release >> \in Seq(Access) /\ << Wait, EndCycles >> \in Seq(Access)
      /\ << Wait, EndCycles, Release >> \in Seq(Access)
  BY RegisterAccess
<1>2. Sound(<< Wait, Release >>)
  BY RegisterAccess DEF Sound, Triggers
<1>3. Sound(<< Wait, EndCycles >>)
  BY RegisterAccess DEF Sound, Triggers
<1>4. Sound(<< Wait, EndCycles, Release >>)
  BY RegisterAccess DEF Sound, Triggers
<1>5. /\ Len(<< Wait, Release >>) > 0 /\ << Wait, Release >>[1].kind = "wait"
      /\ Len(<< Wait, EndCycles >>) > 0 /\ << Wait, EndCycles >>[1].kind = "wait"
      /\ Len(<< Wait, EndCycles, Release >>) > 0
      /\ << Wait, EndCycles, Release >>[1].kind = "wait"
  BY RegisterAccess
<1>6. QED
  BY <1>1, <1>2, <1>3, <1>4, <1>5, Zenon

\* The same functions whose whole program is one literal.
LEMMA LiteralTriggerIsSound ==
  ASSUME NEW a \in Access, a.kind # "poll", ~ Triggers(a),
         NEW b \in Access, b.kind # "poll", ~ Triggers(b),
         NEW c \in Access, c.kind # "poll", Triggers(c) => c.control.ap_if_state \in Locks
  PROVE  /\ << a, b, c, Wait, Release >> \in Seq(Access)
         /\ Sound(<< a, b, c, Wait, Release >>)
<1>1. Wait \in Access /\ Release \in Access
  BY RegisterAccess
<1>2. << a, b, c >> \o << Wait, Release >> = << a, b, c, Wait, Release >>
  BY <1>1, Joined
<1>3. /\ << Wait, Release >> \in Seq(Access) /\ Sound(<< Wait, Release >>)
      /\ Len(<< Wait, Release >>) > 0 /\ << Wait, Release >>[1].kind = "wait"
  BY WaitIsSound, Zenon
<1>4. /\ << a, b, c >> \o << Wait, Release >> \in Seq(Access)
      /\ Sound(<< a, b, c >> \o << Wait, Release >>)
  BY <1>3, TriggerIsSound
<1>5. QED
  BY <1>2, <1>4

LEMMA StaticIsALock == STATIC \in Locks
  BY DEF Locks

\* Lock, select, trigger, wait.
LEMMA LockedTriggerIsSound ==
  ASSUME NEW t \in {TARGET_C, TARGET_A}, NEW m \in Access, m.kind = "mode",
         NEW w \in {<< Wait, Release >>, << Wait, EndCycles >>, << Wait, EndCycles, Release >>}
  PROVE  Trigger(t, m) \o w \in Seq(Access) /\ Sound(Trigger(t, m) \o w)
<1>1. /\ Control(STATIC, t, FALSE, {}) \in Access
      /\ Control(STATIC, t, FALSE, {}).kind = "control"
      /\ Control(STATIC, t, FALSE, {}).control.trigger = FALSE
      /\ Control(STATIC, t, TRUE, {}) \in Access
      /\ Control(STATIC, t, TRUE, {}).kind = "control"
      /\ Control(STATIC, t, TRUE, {}).control.ap_if_state = STATIC
  BY DEF Control, set_control_reg, Access, ControlReg, STATIC, DYNAMIC
<1>2. ~ Triggers(Control(STATIC, t, FALSE, {})) /\ ~ Triggers(m)
  BY <1>1 DEF Triggers
<1>3. w \in Seq(Access) /\ Sound(w) /\ Len(w) > 0 /\ w[1].kind = "wait"
  BY WaitIsSound, Zenon
<1>4. QED
  BY <1>1, <1>2, <1>3, TriggerIsSound, StaticIsALock DEF Trigger

LEMMA FlushIsSound ==
  ASSUME NEW b \in APCollunm, NEW i \in {LEFT, RIGHT}
  PROVE  Flush(b, i) \in Seq(Access) /\ Sound(Flush(b, i))
<1>1. i \in InternalCol /\ {b} \in SUBSET Bits /\ {} \in SUBSET Bits
  BY DEF InternalCol, LEFT, RIGHT, Bits, APCollunm, CAM_A, CAM_C
<1>2. Control(STATIC, TARGET_C, FALSE, {}) \in Quiet /\ Control(STATIC, TARGET_C, FALSE, {b}) \in Quiet
  BY <1>1, QuietControl
<1>3. Mode(i, CAM_A, HORIZONTAL, OR) \in Quiet
  BY <1>1, QuietMode DEF APCollunm, CAM_A, CAM_C, APOperations, OR, ADD_D
<1>4. Flush(b, i) \in Seq(Quiet)
  BY <1>2, <1>3, QuietOthers, Literal DEF Flush
<1>5. QED
  BY <1>4, QuietIsSound

\* The lock and unlock writes, with and without reset bits.
LEMMA QuietResets ==
  /\ Control(STATIC, TARGET_C, FALSE, {}) \in Quiet
  /\ Control(STATIC, TARGET_C, FALSE, {0, 1, 2}) \in Quiet
  /\ Control(STATIC, TARGET_C, FALSE, {3}) \in Quiet
  /\ \A b \in APCollunm : Control(STATIC, TARGET_C, FALSE, {b}) \in Quiet
<1>1. /\ {} \in SUBSET Bits /\ {0, 1, 2} \in SUBSET Bits /\ {3} \in SUBSET Bits
      /\ \A b \in APCollunm : {b} \in SUBSET Bits
  BY DEF Bits, APCollunm, CAM_A, CAM_C
<1>2. QED
  BY <1>1, QuietControl

LEMMA QuietSelect ==
  \A i \in InternalCol, col \in APCollunm : Mode(i, col, HORIZONTAL, OR) \in Quiet
  BY QuietMode DEF APOperations, OR, ADD_D

LEMMA WarmupIsSound == Warmup \in Seq(Access) /\ Sound(Warmup)
<1>1. Mode(RIGHT, CAM_A, HORIZONTAL, OR) \in Quiet
  BY QuietSelect DEF RIGHT, InternalCol, CAM_A, CAM_C, APCollunm
<1>2. Warmup \in Seq(Quiet)
  BY <1>1, QuietOthers, QuietResets, LongLiteral DEF Warmup
<1>3. QED
  BY <1>2, QuietIsSound

\* A function that starts the engine: what it stores first, the trigger, the
\* wait, and what it loads after.
LEMMA ComputingIsSound ==
  ASSUME NEW before \in Seq(Access), Sound(before),
         NEW t \in {TARGET_C, TARGET_A}, NEW m \in Access, m.kind = "mode",
         NEW w \in {<< Wait, Release >>, << Wait, EndCycles >>, << Wait, EndCycles, Release >>}
  PROVE  /\ before \o Trigger(t, m) \o w \in Seq(Access)
         /\ Sound(before \o Trigger(t, m) \o w)
<1>1. Trigger(t, m) \o w \in Seq(Access) /\ Sound(Trigger(t, m) \o w)
  BY LockedTriggerIsSound
<1>2. Trigger(t, m) \in Seq(Access) /\ w \in Seq(Access)
  <2>1. w \in Seq(Access)
    BY WaitIsSound, Zenon
  <2>2. Control(STATIC, t, FALSE, {}) \in Access /\ Control(STATIC, t, TRUE, {}) \in Access
    BY DEF Control, set_control_reg, Access, ControlReg, STATIC, DYNAMIC
  <2>3. QED
    BY <2>1, <2>2, Literal DEF Trigger
<1>3. before \o Trigger(t, m) \o w = before \o (Trigger(t, m) \o w)
  BY <1>2, ConcatAssociative
<1>4. QED
  BY <1>1, <1>3, ConcatIsSound

\* The same for the writes of the vertical functions, which leave the interface
\* dynamic: DYNAMIC is among the Locks of a client that calls them.
LEMMA BareVerticalIsSound ==
  ASSUME DYNAMIC \in Locks,
         NEW op \in APOperations, NEW col \in APCollunm, NEW i \in InternalCol
  PROVE  /\ VerticalTrigger(op, col, i) \in Seq(Access)
         /\ VerticalTrigger(op, col, i) \o << Wait, Release >> \in Seq(Access)
         /\ Sound(VerticalTrigger(op, col, i) \o << Wait, Release >>)
<1>1. /\ Control(DYNAMIC, TARGET_A, FALSE, {}) \in Quiet
      /\ Mode(i, col, VERTICAL, op) \in Quiet
  BY QuietControl, QuietMode
<1>2. /\ Control(DYNAMIC, TARGET_A, TRUE, {}) \in Access
      /\ Control(DYNAMIC, TARGET_A, TRUE, {}).kind = "control"
      /\ Control(DYNAMIC, TARGET_A, TRUE, {}).control.ap_if_state = DYNAMIC
  BY DEF Control, set_control_reg, Access, ControlReg
<1>3. << Wait, Release >> \in Seq(Access) /\ Sound(<< Wait, Release >>)
      /\ Len(<< Wait, Release >>) > 0 /\ << Wait, Release >>[1].kind = "wait"
  BY WaitIsSound, Zenon
<1>4. /\ VerticalTrigger(op, col, i) \o << Wait, Release >> \in Seq(Access)
      /\ Sound(VerticalTrigger(op, col, i) \o << Wait, Release >>)
  BY <1>1, <1>2, <1>3, TriggerIsSound DEF VerticalTrigger, Quiet
<1>5. VerticalTrigger(op, col, i) \in Seq(Access)
  BY <1>1, <1>2, Literal DEF VerticalTrigger, Quiet
<1>6. QED
  BY <1>4, <1>5

LEMMA VerticalIsSound ==
  ASSUME NEW before \in Seq(Access), Sound(before), DYNAMIC \in Locks,
         NEW op \in APOperations, NEW col \in APCollunm, NEW i \in InternalCol
  PROVE  /\ before \o VerticalTrigger(op, col, i) \o << Wait, Release >> \in Seq(Access)
         /\ Sound(before \o VerticalTrigger(op, col, i) \o << Wait, Release >>)
<1>1. << Wait, Release >> \in Seq(Access)
  BY WaitIsSound, Zenon
<1>2. before \o VerticalTrigger(op, col, i) \o << Wait, Release >>
        = before \o (VerticalTrigger(op, col, i) \o << Wait, Release >>)
  BY <1>1, BareVerticalIsSound, ConcatAssociative
<1>3. QED
  BY <1>2, BareVerticalIsSound, ConcatIsSound

-----------------------------------------------------------------------------
(* The columns stay columns of bytes. *)

LEMMA StoredIsMemory ==
  ASSUME NEW mem \in Memory, NEW a \in Nat, NEW v \in Byte
  PROVE  Stored(a, v, mem) \in Memory
  BY DEF Stored, Memory

LEMMA FlushedIsMemory ==
  ASSUME NEW mem \in Memory, NEW rst, NEW m
  PROVE  Flushed(rst, m, mem) \in Memory
<1>1. 0 \in Byte
  BY ByteModAssumption DEF Byte
<1>2. QED
  BY <1>1 DEF Flushed, Memory

LEMMA SelectedColumn ==
  ASSUME NEW i \in InternalCol, NEW col \in APCollunm
  PROVE  Selected(i, col) \in Nat /\ \A r \in Row : Selected(i, col) + r \in CamAddr
<1>1. Half(i, col) \in {0, 1}
  <2>1. CASE col = 0
    BY <2>1 DEF Half, InternalCol, CAM_A
  <2>2. CASE col = 1
    BY <2>2 DEF Half, InternalCol, CAM_A, CAM_B
  <2>3. CASE col = 2
    BY <2>3 DEF Half, InternalCol, CAM_A, CAM_B, CAM_C
  <2>4. QED
    BY <2>1, <2>2, <2>3 DEF APCollunm, CAM_A, CAM_C
<1>2. QED
  BY <1>1, ColumnAddress DEF Selected

LEMMA ResultIsByte ==
  ASSUME NEW mem \in Memory, NEW m \in ModeReg, NEW r \in Row
  PROVE  RowResult(m, mem, r) \in Byte
<1>1. \A col \in APCollunm, x \in Row : mem[Selected(m.internal_col, col) + x] \in Byte
  BY SelectedColumn DEF Memory, ModeReg
<1>2. /\ CAM_A \in APCollunm /\ CAM_B \in APCollunm /\ CAM_C \in APCollunm /\ 0 \in Row
      /\ m.col \in APCollunm
  BY ColSizeAssumption DEF APCollunm, CAM_A, CAM_B, CAM_C, Row, ModeReg
<1>3. mem[Selected(m.internal_col, m.col)] \in Byte
  <2>1. Selected(m.internal_col, m.col) \in Nat /\ Selected(m.internal_col, m.col) + 0 \in CamAddr
    BY <1>2, SelectedColumn DEF ModeReg
  <2>2. QED
    BY <2>1 DEF Memory
<1>4. CASE m.cmd \in OR .. MULT
  BY <1>1, <1>2, <1>4, AluAssumption DEF RowResult, OR, MULT, SET, SEARCH, ADD_D
<1>5. CASE m.cmd = SET
  BY <1>3, <1>5 DEF RowResult, OR, MULT, SET, SEARCH, ADD_D
<1>6. CASE m.cmd = SEARCH
  BY <1>6, ByteModAssumption DEF RowResult, OR, MULT, SET, SEARCH, ADD_D, Byte
<1>7. CASE m.cmd = ADD_D
  <2>1. /\ mem[Selected(m.internal_col, CAM_A) + r] \in Nat
        /\ mem[Selected(m.internal_col, CAM_C) + r] \in Nat
    BY <1>1, <1>2 DEF Byte
  <2>2. RowResult(m, mem, r) = (mem[Selected(m.internal_col, CAM_A) + r]
                                 + mem[Selected(m.internal_col, CAM_C) + r]) % ByteMod
    BY <1>7 DEF RowResult, OR, MULT, SET, SEARCH, ADD_D
  <2>3. \A x \in Nat : x % ByteMod \in Byte
    BY ByteModAssumption DEF Byte
  <2>4. QED
    BY <2>1, <2>2, <2>3
<1>8. m.cmd \in 0 .. 9
  BY DEF ModeReg, APOperations, OR, ADD_D
<1>9. QED
  BY <1>4, <1>5, <1>6, <1>7, <1>8 DEF OR, MULT, SET, SEARCH, ADD_D

LEMMA ComputedIsMemory ==
  ASSUME NEW mem \in Memory, NEW m \in ModeReg, NEW c, NEW rs \in SUBSET Row
  PROVE  Computed(c, m, mem, rs) \in Memory
  BY ResultIsByte DEF Computed, Memory

LEMMA DestinationIsAddress ==
  ASSUME NEW c \in ControlReg, NEW m \in ModeReg, NEW r \in Row
  PROVE  Destination(c, m) + r \in Nat
  BY SelectedColumn DEF Destination, ModeReg, Row, APCollunm, CAM_A, CAM_C

-----------------------------------------------------------------------------
(* The steps that begin a call. *)

\* A call begins with accesses that are well formed; and unless it polls, in a
\* sound order.
Started ==
  \E c, s : /\ Begin(c, s)
            /\ s \in Seq(Access)
            /\ c.fn \notin PollingFns => Sound(s)

LEMMA SoundStart ==
  ASSUME NEW c, NEW s \in Seq(Access), Sound(s), Begin(c, s)
  PROVE  Started
  BY DEF Started

LEMMA PollingStart ==
  ASSUME NEW c, NEW s \in Seq(Access), c.fn \in PollingFns, Begin(c, s)
  PROVE  Started
  BY DEF Started

LEMMA EmptyIsSound == << >> \in Seq(Access) /\ Sound(<< >>)
  BY DEF Sound

LEMMA BaseIsAddress ==
  /\ \A col \in APCollunm, half \in {0, 1} : CamBase(col, half) \in Nat
  /\ \A b \in Bases : b \in Nat
  BY ColumnAddress DEF Bases

LEMMA MoveStarts ==
  ASSUME Move
  PROVE  Started
<1>1. ASSUME NEW col \in APCollunm, NEW i \in Columns, NEW V \in Vectors,
             ap_write_vector(col, i, V)
      PROVE  Started
  <2>1. VectorBase(col, i) \in Nat /\ V \in Seq(Byte)
    BY VectorAddress, ColumnsAssumption, VectorsAssumption
  <2>2. CASE Len(V) > AP_COL_SIZE
    BY <1>1, <2>2, EmptyIsSound, SoundStart DEF ap_write_vector
  <2>3. CASE ~ (Len(V) > AP_COL_SIZE)
    BY <1>1, <2>1, <2>3, StoreVectorIsSound, SoundStart DEF ap_write_vector
  <2>4. QED
    BY <2>2, <2>3
<1>2. ASSUME NEW col \in APCollunm, NEW i \in Columns, NEW n \in {AP_COL_SIZE, AP_COL_SIZE + 1},
             ap_read_vector(col, i, n)
      PROVE  Started
  <2>1. VectorBase(col, i) \in Nat /\ n \in Nat
    BY VectorAddress, ColumnsAssumption, ColSizeAssumption
  <2>2. CASE n > AP_COL_SIZE
    BY <1>2, <2>2, EmptyIsSound, SoundStart DEF ap_read_vector
  <2>3. CASE ~ (n > AP_COL_SIZE)
    BY <1>2, <2>1, <2>3, LoadVectorIsSound, SoundStart DEF ap_read_vector
  <2>4. QED
    BY <2>2, <2>3
<1>3. ASSUME NEW to \in Bases, NEW V \in Vectors, ap_memcpy_in(to, V)
      PROVE  Started
  BY <1>3, BaseIsAddress, VectorsAssumption, StoreVectorIsSound, SoundStart DEF ap_memcpy_in
<1>4. ASSUME NEW from \in Bases, ap_memcpy_out(from, AP_COL_SIZE)
      PROVE  Started
  BY <1>4, BaseIsAddress, ColSizeAssumption, LoadVectorIsSound, SoundStart DEF ap_memcpy_out
<1>5. ASSUME NEW to \in Bases, NEW from \in Bases, ap_memcpy(to, from, AP_COL_SIZE)
      PROVE  Started
  <2>1. to \in Nat /\ from \in Nat /\ AP_COL_SIZE \in Nat
    BY BaseIsAddress, ColSizeAssumption
  <2>2. QED
    BY <1>5, <2>1, CopyIsSound, SoundStart DEF ap_memcpy
<1>6. QED
  BY <1>1, <1>2, <1>3, <1>4, <1>5 DEF Move

LEMMA ResetStarts ==
  ASSUME Reset
  PROVE  Started
<1>1. /\ CAM_A \in APCollunm /\ CAM_B \in APCollunm /\ CAM_C \in APCollunm
      /\ LEFT \in {LEFT, RIGHT} /\ RIGHT \in {LEFT, RIGHT}
      /\ Columns \subseteq InternalCol
  BY ColumnsAssumption DEF CAM_A, CAM_B, CAM_C, APCollunm, LEFT, RIGHT, InternalCol
<1>2. CASE warmup_ap
  BY <1>2, WarmupIsSound, SoundStart DEF warmup_ap
<1>3. CASE reset_ap_engine
  BY <1>3, QuietResets, QuietOthers, Literal, QuietIsSound, SoundStart DEF reset_ap_engine
<1>4. CASE release_ap_if
  BY <1>4, QuietOthers, Literal, QuietIsSound, SoundStart DEF release_ap_if
<1>5. CASE ap_flush_a_1
  BY <1>1, <1>5, FlushIsSound, SoundStart DEF ap_flush_a_1
<1>6. CASE ap_flush_b_0
  BY <1>1, <1>6, FlushIsSound, SoundStart DEF ap_flush_b_0
<1>7. CASE ap_flush_b_1
  BY <1>1, <1>7, FlushIsSound, SoundStart DEF ap_flush_b_1
<1>8. CASE ap_flush_c_1
  BY <1>1, <1>8, FlushIsSound, SoundStart DEF ap_flush_c_1
<1>9. CASE ap_flush_c_0
  BY <1>1, <1>9, QuietResets, QuietOthers, Literal, QuietIsSound, SoundStart DEF ap_flush_c_0
<1>10. ASSUME NEW col \in APCollunm, NEW i \in Columns, ap_flush_col(col, i)
       PROVE  Started
  <2>1. Mode(i, col, HORIZONTAL, OR) \in Quiet
    BY <1>1, QuietSelect
  <2>2. QED
    BY <1>10, <2>1, QuietResets, QuietOthers, Literal, QuietIsSound, SoundStart DEF ap_flush_col
<1>11. QED
  BY <1>2, <1>3, <1>4, <1>5, <1>6, <1>7, <1>8, <1>9, <1>10 DEF Reset

LEMMA ModeAccess ==
  \A i \in InternalCol, col \in APCollunm, d \in {HORIZONTAL, VERTICAL}, op \in APOperations :
    Mode(i, col, d, op) \in Access /\ Mode(i, col, d, op).kind = "mode"
  BY RegisterAccess

\* What the parameters of Compute and Vertical range over.
LEMMA Parameters ==
  /\ CAM_A \in APCollunm /\ CAM_B \in APCollunm /\ CAM_C \in APCollunm
  /\ Columns \subseteq InternalCol /\ Selectors \subseteq InternalCol
  /\ LEFT \in InternalCol /\ 1 \in InternalCol
  /\ Commands \subseteq APOperations
  /\ SET \in APOperations /\ SEARCH \in APOperations /\ ADD \in APOperations
  BY ColumnsAssumption, CommandsAssumption
  DEF CAM_A, CAM_B, CAM_C, APCollunm, LEFT, RIGHT, InternalCol, APOperations, OR, ADD, SET,
      SEARCH, ADD_D

\* Lock, select, trigger, as accesses; and the bounded polls.
LEMMA TriggerAccess ==
  ASSUME NEW t \in {TARGET_C, TARGET_A}, NEW m \in Access
  PROVE  Trigger(t, m) \in Seq(Access)
<1>1. Control(STATIC, t, FALSE, {}) \in Access /\ Control(STATIC, t, TRUE, {}) \in Access
  BY DEF Control, set_control_reg, Access, ControlReg, STATIC, DYNAMIC
<1>2. QED
  BY <1>1, Literal DEF Trigger

LEMMA PollAccess == \A n \in Nat : Poll(n) \in Access /\ << Poll(n) >> \in Seq(Access)
  BY DEF Poll, Access

LEMMA ComputeStarts ==
  ASSUME Compute
  PROVE  Started
<1> USE Parameters
<1>1. ASSUME NEW op \in Commands, NEW i \in Columns, ap_trigger_computing_w_wait(op, HORIZONTAL, i)
      PROVE  Started
  <2>1. Mode(i, CAM_A, HORIZONTAL, op) \in Access /\ Mode(i, CAM_A, HORIZONTAL, op).kind = "mode"
    BY ModeAccess
  <2>2. QED
    BY <1>1, <2>1, LockedTriggerIsSound, SoundStart DEF ap_trigger_computing_w_wait
<1>2. ASSUME NEW op \in Commands, NEW i \in Columns, NEW A \in Vectors, NEW B \in Vectors,
             ap_computing_horizontal_test(op, i, A, B)
      PROVE  Started
  <2> DEFINE m == Mode(i, CAM_A, HORIZONTAL, op)
             before == StoreVector(VectorBase(CAM_A, i), A) \o StoreVector(VectorBase(CAM_B, i), B)
             after == LoadVector(CamBase(CAM_C, 0), AP_COL_SIZE)
             w == << Wait, EndCycles, Release >>
  <2>1. m \in Access /\ m.kind = "mode"
    BY ModeAccess
  <2>2. before \in Seq(Access) /\ Sound(before)
    BY VectorAddress, ColumnsAssumption, VectorsAssumption, StoreVectorIsSound, ConcatIsSound
  <2>3. after \in Seq(Access) /\ Sound(after)
    BY BaseIsAddress, ColSizeAssumption, LoadVectorIsSound
  <2>4. before \o Trigger(TARGET_C, m) \o w \in Seq(Access) /\ Sound(before \o Trigger(TARGET_C, m) \o w)
    BY <2>1, <2>2, ComputingIsSound
  <2>5. /\ (before \o Trigger(TARGET_C, m) \o w) \o after \in Seq(Access)
        /\ Sound((before \o Trigger(TARGET_C, m) \o w) \o after)
    BY <2>3, <2>4, ConcatIsSound
  <2>6. QED
    BY <1>2, <2>5, SoundStart DEF ap_computing_horizontal_test, ap_computing
<1>3. ASSUME NEW op \in Commands, NEW b \in Selectors,
             ap_trigger_computing_w_wait_target_a(op, HORIZONTAL, b)
      PROVE  Started
  <2> DEFINE m == Mode(b, CAM_A, HORIZONTAL, op)
             go == Control(STATIC, TARGET_A, TRUE, {})
  <2>1. m \in Access /\ m.kind # "poll" /\ ~ Triggers(m)
    BY ModeAccess DEF Triggers
  <2>2. go \in Access /\ go.kind = "control" /\ go.control.ap_if_state = STATIC
    BY DEF Control, set_control_reg, Access, ControlReg, STATIC, DYNAMIC
  <2>3. Control(STATIC, TARGET_C, FALSE, {}) \in Quiet
    BY QuietResets
  <2>4. /\ << Control(STATIC, TARGET_C, FALSE, {}), m, go, Wait, Release >> \in Seq(Access)
        /\ Sound(<< Control(STATIC, TARGET_C, FALSE, {}), m, go, Wait, Release >>)
    BY <2>1, <2>2, <2>3, LiteralTriggerIsSound, StaticIsALock DEF Quiet
  <2>5. QED
    BY <1>3, <2>4, SoundStart DEF ap_trigger_computing_w_wait_target_a
<1>4. ASSUME NEW col \in APCollunm, NEW i \in Columns, NEW v \in Byte, ap_set_value(col, i, v)
      PROVE  Started
  <2>1. Mode(i, col, HORIZONTAL, SET) \in Access /\ Mode(i, col, HORIZONTAL, SET).kind = "mode"
    BY ModeAccess
  <2>2. << Store(VectorBase(col, i), v) >> \in Seq(Access) /\ Sound(<< Store(VectorBase(col, i), v) >>)
    BY VectorAddress, ColumnsAssumption, QuietOthers, Literal, QuietIsSound
  <2>3. QED
    BY <1>4, <2>1, <2>2, ComputingIsSound, SoundStart DEF ap_set_value
<1>5. ASSUME NEW v \in Byte, ap_set_value_cam_a_left(v)
      PROVE  Started
  <2>1. Mode(LEFT, CAM_A, HORIZONTAL, SET) \in Access /\ Mode(LEFT, CAM_A, HORIZONTAL, SET).kind = "mode"
    BY ModeAccess
  <2>2. << Store(CamBase(CAM_A, 0), v) >> \in Seq(Access) /\ Sound(<< Store(CamBase(CAM_A, 0), v) >>)
    BY BaseIsAddress, QuietOthers, Literal, QuietIsSound
  <2>3. QED
    BY <1>5, <2>1, <2>2, ComputingIsSound, SoundStart DEF ap_set_value_cam_a_left
<1>6. ASSUME NEW v \in Byte, NEW i \in Columns, NEW t \in Targets, ap_search(v, i, t)
      PROVE  Started
  <2> DEFINE base == CamBase(CAM_B, IF i = 1 THEN 1 ELSE 0)
  <2>1. Mode(i, CAM_A, HORIZONTAL, SEARCH) \in Access /\ Mode(i, CAM_A, HORIZONTAL, SEARCH).kind = "mode"
    BY ModeAccess
  <2>2. << Store(base, v) >> \in Seq(Access) /\ Sound(<< Store(base, v) >>)
    BY BaseIsAddress, QuietOthers, Literal, QuietIsSound
  <2>3. QED
    BY <1>6, <2>1, <2>2, ComputingIsSound, SoundStart DEF ap_search, Targets
<1>7. ASSUME NEW op \in Commands, NEW i \in Columns, NEW t \in Targets,
             ap_trigger_computing(op, CAM_A, i, HORIZONTAL, t)
      PROVE  Started
  <2>1. Mode(i, CAM_A, HORIZONTAL, op) \in Access
    BY ModeAccess
  <2>2. Trigger(t, Mode(i, CAM_A, HORIZONTAL, op)) \o << Poll(5) >> \in Seq(Access)
    BY <2>1, TriggerAccess, PollAccess, ConcatProperties DEF Targets
  <2>3. PICK c : c.fn = "ap_trigger_computing"
                 /\ Begin(c, Trigger(t, Mode(i, CAM_A, HORIZONTAL, op)) \o << Poll(5) >>)
    BY <1>7 DEF ap_trigger_computing
  <2>4. QED
    BY <2>2, <2>3, PollingStart DEF PollingFns
<1>8. ASSUME NEW V \in Vectors, op_target_setup(V)
      PROVE  Started
  <2> DEFINE before == StoreVector(CamBase(CAM_B, 1), V) \o StoreVector(CamBase(CAM_C, 1), V)
             go == Trigger(TARGET_A, Mode(1, CAM_A, HORIZONTAL, ADD))
  <2>1. before \in Seq(Access)
    BY BaseIsAddress, VectorsAssumption, StoreVectorIsSound, ConcatProperties
  <2>2. go \in Seq(Access)
    BY ModeAccess, TriggerAccess
  <2>3. before \o go \in Seq(Access)
    BY <2>1, <2>2, ConcatProperties
  <2>4. before \o go \o << Poll(3) >> \in Seq(Access)
    BY <2>3, PollAccess, ConcatProperties
  <2>5. PICK c : c.fn = "op_target_setup" /\ Begin(c, before \o go \o << Poll(3) >>)
    BY <1>8 DEF op_target_setup
  <2>6. QED
    BY <2>4, <2>5, PollingStart DEF PollingFns
<1>9. QED
  BY <1>1, <1>2, <1>3, <1>4, <1>5, <1>6, <1>7, <1>8 DEF Compute

LEMMA VerticalStarts ==
  ASSUME Vertical
  PROVE  Started
<1> USE Parameters
<1>1. ASSUME NEW c, NEW s, Begin(c, s), c.fn \in VerticalFns
      PROVE  DYNAMIC \in Locks
  BY <1>1 DEF Begin, Locks
<1>2. ASSUME NEW op \in Commands, NEW i \in Columns, NEW V \in Vectors,
             ap_computing_vertical_test(op, i, V)
      PROVE  Started
  <2> DEFINE before == StoreVector(VectorBase(CAM_B, i), V)
             go == VerticalTrigger(op, CAM_B, i)
             w == << Wait, Release >>
             after == LoadVector(VectorBase(CAM_C, i), AP_COL_SIZE)
  <2>1. DYNAMIC \in Locks
    BY <1>1, <1>2 DEF ap_computing_vertical_test, VerticalFns
  <2>2. before \in Seq(Access) /\ Sound(before)
    BY VectorAddress, ColumnsAssumption, VectorsAssumption, StoreVectorIsSound
  <2>3. after \in Seq(Access) /\ Sound(after)
    BY VectorAddress, ColumnsAssumption, ColSizeAssumption, LoadVectorIsSound
  <2>4. before \o go \o w \in Seq(Access) /\ Sound(before \o go \o w)
    BY <2>1, <2>2, VerticalIsSound
  <2>5. (before \o go \o w) \o after \in Seq(Access) /\ Sound((before \o go \o w) \o after)
    BY <2>3, <2>4, ConcatIsSound
  <2>6. QED
    BY <1>2, <2>5, SoundStart DEF ap_computing_vertical_test, ap_vertical_computing
<1>3. ASSUME NEW op \in Commands, NEW i \in Columns,
             ap_trigger_vertical_computing_w_wait(op, CAM_A, i)
      PROVE  Started
  <2>1. DYNAMIC \in Locks
    BY <1>1, <1>3 DEF ap_trigger_vertical_computing_w_wait, VerticalFns
  <2>2. /\ VerticalTrigger(op, CAM_A, i) \o << Wait, Release >> \in Seq(Access)
        /\ Sound(VerticalTrigger(op, CAM_A, i) \o << Wait, Release >>)
    BY <2>1, BareVerticalIsSound
  <2>3. QED
    BY <1>3, <2>2, SoundStart DEF ap_trigger_vertical_computing_w_wait
<1>4. ASSUME NEW op \in Commands, NEW i \in Columns, NEW t \in Targets,
             ap_trigger_vertical_computing_target(op, CAM_A, i, t)
      PROVE  Started
  <2> DEFINE lock == Control(DYNAMIC, TARGET_A, FALSE, {})
             m == Mode(i, CAM_A, VERTICAL, op)
             go == Control(STATIC, t, TRUE, {})
  <2>1. m \in Access /\ m.kind # "poll" /\ ~ Triggers(m)
    BY ModeAccess DEF Triggers
  <2>2. go \in Access /\ go.kind = "control" /\ go.control.ap_if_state = STATIC
    BY DEF Control, set_control_reg, Access, ControlReg, STATIC, DYNAMIC, Targets
  <2>3. lock \in Quiet
    BY QuietControl
  <2>4. << lock, m, go, Wait, Release >> \in Seq(Access) /\ Sound(<< lock, m, go, Wait, Release >>)
    BY <2>1, <2>2, <2>3, LiteralTriggerIsSound, StaticIsALock DEF Quiet
  <2>5. QED
    BY <1>4, <2>4, SoundStart DEF ap_trigger_vertical_computing_target
<1>5. QED
  BY <1>2, <1>3, <1>4 DEF Vertical

-----------------------------------------------------------------------------
(* The steps of the processor and of the engine. *)

\* One access at a time, each of them well formed.
LEMMA NextAccess ==
  ASSUME TypeOK, Cpu
  PROVE  /\ todo # << >> /\ todo \in Seq(Access) /\ Head(todo) \in Access /\ Head(todo) = todo[1]
         /\ Len(todo) \in Nat /\ Len(todo) > 0 /\ Tail(todo) \in Seq(Access)
<1>1. todo \in Seq(Access) /\ todo # << >>
  BY DEF TypeOK, Cpu, CpuControl, CpuMode, CpuStore, CpuLoad, CpuCopy, CpuWait, CpuPoll,
     CpuEndCycles, IsNext
<1>2. QED
  BY <1>1, HeadTailProperties

LEMMA CpuKeepsType ==
  ASSUME TypeOK, Cpu
  PROVE  TypeOK'
<1>1. todo \in Seq(Access) /\ Head(todo) \in Access /\ Tail(todo) \in Seq(Access)
  BY NextAccess
<1>2. CASE CpuControl
  <2> DEFINE c == Head(todo).control
  <2>1. c \in ControlReg
    BY <1>1, <1>2 DEF CpuControl, IsNext, Access
  <2>2. cam' \in Memory
    BY <1>2, FlushedIsMemory DEF CpuControl, TypeOK
  <2>3. todo' = Tail(todo) /\ control' = c /\ UNCHANGED <<mode, buf, suspect, results_size, calls>>
    BY <1>2 DEF CpuControl, Done
  <2>4. busy' \in BOOLEAN /\ irq' \in BOOLEAN /\ left' \subseteq Row
    BY <1>2 DEF CpuControl, TypeOK
  <2>5. QED
    BY <1>1, <2>1, <2>2, <2>3, <2>4 DEF TypeOK
<1>3. CASE CpuMode
  <2>1. Head(todo).mode \in ModeReg
    BY <1>1, <1>3 DEF CpuMode, IsNext, Access
  <2>2. QED
    BY <1>1, <1>3, <2>1 DEF CpuMode, Done, TypeOK
<1>4. CASE CpuStore
  <2>1. Head(todo).addr \in Nat /\ Head(todo).value \in Byte
    BY <1>1, <1>4 DEF CpuStore, IsNext, Access
  <2>2. cam' \in Memory
    BY <1>4, <2>1, StoredIsMemory DEF CpuStore, TypeOK
  <2>3. QED
    BY <1>1, <1>4, <2>2 DEF CpuStore, Done, TypeOK
<1>5. CASE CpuLoad
  <2>1. buf' \in Seq(Byte)
    BY <1>5, AppendProperties DEF CpuLoad, Read, TypeOK, Memory
  <2>2. QED
    BY <1>1, <1>5, <2>1 DEF CpuLoad, Done, device, TypeOK
<1>6. CASE CpuCopy
  <2>1. Head(todo).to \in Nat
    BY <1>1, <1>6 DEF CpuCopy, IsNext, Access
  <2>2. cam' \in Memory
    BY <1>6, <2>1, StoredIsMemory DEF CpuCopy, Read, TypeOK, Memory
  <2>3. QED
    BY <1>1, <1>6, <2>2 DEF CpuCopy, Done, TypeOK
<1>7. CASE CpuWait
  BY <1>1, <1>7 DEF CpuWait, Done, device, TypeOK
<1>8. CASE CpuPoll
  <2>1. Head(todo).loops \in Nat
    BY <1>1, <1>8 DEF CpuPoll, IsNext, Access
  <2>2. todo' \in Seq(Access) /\ suspect' \in BOOLEAN
    <3>1. CASE todo' = << Release, ZeroMode >> \o Tail(todo) /\ UNCHANGED suspect
      BY <1>1, <3>1, RegisterAccess, ConcatProperties DEF TypeOK
    <3>2. CASE Head(todo).loops > 0 /\ todo' = << Poll(Head(todo).loops - 1) >> \o Tail(todo) /\ UNCHANGED suspect
      <4>1. << Poll(Head(todo).loops - 1) >> \in Seq(Access)
        BY <2>1, <3>2, PollAccess
      <4>2. QED
        BY <1>1, <3>2, <4>1, ConcatProperties DEF TypeOK
    <3>3. CASE todo' = Tail(todo) /\ suspect' = TRUE
      BY <1>1, <3>3
    <3>4. QED
      BY <1>8, <3>1, <3>2, <3>3 DEF CpuPoll
  <2>3. QED
    BY <1>8, <2>2 DEF CpuPoll, device, TypeOK
<1>9. CASE CpuEndCycles
  BY <1>1, <1>9, BoundsAssumption DEF CpuEndCycles, Done, device, TypeOK
<1>10. QED
  BY <1>2, <1>3, <1>4, <1>5, <1>6, <1>7, <1>8, <1>9 DEF Cpu

LEMMA EngineKeepsType ==
  ASSUME TypeOK, Engine
  PROVE  TypeOK'
<1>1. CASE EngineRow
  <2>1. mode \in ModeReg /\ control \in ControlReg /\ cam \in Memory /\ left \subseteq Row
    BY DEF TypeOK
  <2>2. PICK r \in left :
          /\ left' = left \ {r}
          /\ \/ cam' = Computed(control, mode, cam, {r})
             \/ \E v \in Byte : cam' = Stored(Destination(control, mode) + r, v, cam)
    BY <1>1 DEF EngineRow
  <2>3. Destination(control, mode) + r \in Nat /\ {r} \in SUBSET Row
    BY <2>1, DestinationIsAddress
  <2>4. cam' \in Memory
    BY <2>1, <2>2, <2>3, ComputedIsMemory, StoredIsMemory
  <2>5. QED
    BY <1>1, <2>2, <2>4 DEF EngineRow, cpu, TypeOK
<1>2. CASE EngineDone
  BY <1>2 DEF EngineDone, cpu, TypeOK
<1>3. QED
  BY <1>1, <1>2 DEF Engine

LEMMA BeginKeepsType ==
  ASSUME TypeOK, Started
  PROVE  TypeOK'
<1>1. PICK c, s : Begin(c, s) /\ s \in Seq(Access)
  BY DEF Started
<1>2. calls' \in 0 .. MaxCalls /\ suspect' \in BOOLEAN
  BY <1>1, BoundsAssumption DEF TypeOK, Begin
<1>3. QED
  BY <1>1, <1>2 DEF TypeOK, Begin, device

LEMMA CallStarts ==
  ASSUME Move \/ Reset \/ Compute \/ Vertical
  PROVE  Started
  BY MoveStarts, ResetStarts, ComputeStarts, VerticalStarts

LEMMA NextKeepsType ==
  ASSUME TypeOK, [Next]_vars
  PROVE  TypeOK'
<1>1. CASE UNCHANGED vars \/ Return
  BY <1>1 DEF Return, vars, device, cpu, TypeOK
<1>2. QED
  BY <1>1, CallStarts, BeginKeepsType, CpuKeepsType, EngineKeepsType DEF Next

-----------------------------------------------------------------------------
(* The wait under a running command. *)

LEMMA BeginKeepsInv ==
  ASSUME IInv, Started, Callable \cap PollingFns = {}
  PROVE  IInv'
<1>1. PICK c, s : Begin(c, s) /\ s \in Seq(Access) /\ (c.fn \notin PollingFns => Sound(s))
  BY DEF Started
<1>2. Sound(s)
  BY <1>1 DEF Begin
<1>3. suspect' = FALSE /\ ~ busy /\ ~ busy'
  BY <1>1 DEF IInv, Begin, device
<1>4. Sound(todo)' /\ (irq => ~ busy)'
  BY <1>1, <1>2, <1>3 DEF Begin, Sound, Triggers
<1>5. TypeOK'
  BY BeginKeepsType DEF IInv
<1>6. QED
  BY <1>3, <1>4, <1>5 DEF IInv

LEMMA CpuKeepsInv ==
  ASSUME IInv, Cpu
  PROVE  IInv'
<1>1. todo # << >> /\ todo \in Seq(Access) /\ Head(todo) \in Access /\ Head(todo) = todo[1]
      /\ Len(todo) \in Nat /\ Len(todo) > 0
  BY NextAccess DEF IInv
<1>2. Tail(todo) \in Seq(Access) /\ Sound(Tail(todo))
  BY <1>1, TailIsSound DEF IInv
<1>3. TypeOK'
  BY CpuKeepsType DEF IInv
<1>4. CASE CpuControl
  <2> DEFINE c == Head(todo).control
  <2>1. Head(todo).kind = "control" /\ busy = FALSE
    BY <1>4 DEF CpuControl, IsNext, IInv, TypeOK
  <2>2. todo' = Tail(todo) /\ control' = c /\ UNCHANGED suspect
    BY <1>4 DEF CpuControl, Done
  <2>3. (irq' => ~ busy') /\ (busy' => c.trigger)
    <3>1. CASE 3 \in c.rst
      BY <1>4, <3>1 DEF CpuControl
    <3>2. CASE 3 \notin c.rst /\ c.trigger
      BY <1>4, <2>1, <3>2 DEF CpuControl
    <3>3. CASE 3 \notin c.rst /\ ~ c.trigger
      BY <1>4, <2>1, <3>3 DEF CpuControl
    <3>4. QED
      BY <3>1, <3>2, <3>3
  <2>4. c.trigger => /\ c.ap_if_state \in Locks
                     /\ Tail(todo) # << >> /\ Head(Tail(todo)).kind = "wait"
    <3>1. ASSUME c.trigger
          PROVE  c.ap_if_state \in Locks /\ 1 < Len(todo) /\ todo[2].kind = "wait"
      <4>1. 1 \in 1 .. Len(todo) /\ Triggers(todo[1]) /\ Sound(todo)
        BY <1>1, <2>1, <3>1 DEF IInv, Triggers
      <4>2. /\ todo[1].control.ap_if_state \in Locks
            /\ 1 < Len(todo) /\ todo[1 + 1].kind = "wait"
        BY <4>1 DEF Sound
      <4>3. QED
        BY <1>1, <4>2
    <3>2. 1 < Len(todo) => Tail(todo) # << >> /\ Head(Tail(todo)) = todo[2]
      <4>1. /\ Len(Tail(todo)) = Len(todo) - 1
            /\ \A i \in 1 .. Len(Tail(todo)) : Tail(todo)[i] = todo[i + 1]
        BY <1>1, HeadTailProperties
      <4>2. ASSUME 1 < Len(todo)
            PROVE  Tail(todo) # << >> /\ Head(Tail(todo)) = todo[2]
        <5>1. 1 \in 1 .. Len(Tail(todo)) /\ Tail(todo)[1] = todo[1 + 1]
          BY <1>1, <4>1, <4>2
        <5>2. QED
          BY <1>2, <5>1, HeadIsFirst
      <4>3. QED
        BY <4>2
    <3>3. QED
      BY <3>1, <3>2
  <2>5. Sound(todo)'
    BY <1>2, <2>2 DEF Sound, Triggers
  <2>6. QED
    BY <1>3, <2>2, <2>3, <2>4, <2>5 DEF IInv
<1>5. CASE CpuMode \/ CpuStore \/ CpuLoad \/ CpuCopy \/ CpuEndCycles
  <2>1. ~ busy /\ Done /\ UNCHANGED <<busy, irq, suspect>>
    BY <1>5 DEF CpuMode, CpuStore, CpuLoad, CpuCopy, CpuEndCycles, IsNext, device, IInv
  <2>2. Sound(todo)'
    BY <1>2, <2>1 DEF Done, Sound, Triggers
  <2>3. QED
    BY <1>3, <2>1, <2>2 DEF IInv
<1>6. CASE CpuWait
  <2>1. CASE UNCHANGED todo
    BY <1>3, <1>6, <2>1 DEF CpuWait, device, IInv, Sound, Triggers
  <2>2. CASE irq /\ Done
    <3>1. ~ busy /\ UNCHANGED <<busy, irq, suspect>>
      BY <1>6, <2>2 DEF CpuWait, device, IInv
    <3>2. Sound(todo)'
      BY <1>2, <2>2 DEF Done, Sound, Triggers
    <3>3. QED
      BY <1>3, <3>1, <3>2 DEF IInv
  <2>3. QED
    BY <1>6, <2>1, <2>2 DEF CpuWait
<1>7. CASE CpuPoll
  BY <1>1, <1>7 DEF CpuPoll, IsNext, IInv, Sound
<1>8. QED
  BY <1>4, <1>5, <1>6, <1>7 DEF Cpu

LEMMA EngineKeepsInv ==
  ASSUME IInv, Engine
  PROVE  IInv'
<1>1. TypeOK'
  BY EngineKeepsType DEF IInv
<1>2. Sound(todo)'
  BY DEF Engine, EngineRow, EngineDone, cpu, IInv, Sound, Triggers
<1>3. QED
  BY <1>1, <1>2 DEF Engine, EngineRow, EngineDone, cpu, IInv

-----------------------------------------------------------------------------
(* The theorems. *)

LEMMA InitType == Init => TypeOK
<1> SUFFICES ASSUME Init
             PROVE  TypeOK
  OBVIOUS
<1>1. Released \in ControlReg /\ ModeZero \in ModeReg
  BY DEF Released, set_control_reg, ControlReg, ModeZero, set_mode_reg, ModeReg, TARGET_C, DYNAMIC,
     InternalCol, APCollunm, APOperations, LEFT, CAM_A, CAM_C, HORIZONTAL, OR, ADD_D
<1>2. cam \in Memory
  BY InitAssumption DEF Init
<1>3. todo \in Seq(Access)
  BY WarmupIsSound DEF Init
<1>4. buf \in Seq(Byte) /\ results_size \in 0 .. MAX_RESULTS /\ calls \in 0 .. MaxCalls
  BY BoundsAssumption DEF Init
<1>5. QED
  BY <1>1, <1>2, <1>3, <1>4 DEF Init, TypeOK

LEMMA InitInv == Init => IInv
  BY InitType, WarmupIsSound DEF Init, IInv

LEMMA NextInv ==
  ASSUME Callable \cap PollingFns = {}, IInv, [Next]_vars
  PROVE  IInv'
<1>1. CASE UNCHANGED vars \/ Return
  BY <1>1 DEF Return, vars, device, cpu, IInv, TypeOK, Sound, Triggers
<1>2. QED
  BY <1>1, CallStarts, BeginKeepsInv, CpuKeepsInv, EngineKeepsInv DEF Next

\* For any client that polls nowhere: every state of every run satisfies IInv.
LEMMA Invariance ==
  ASSUME Callable \cap PollingFns = {}
  PROVE  Spec => []IInv
<1>1. Init => IInv
  BY InitInv
<1>2. IInv /\ [Next]_vars => IInv'
  BY NextInv
<1>3. QED
  BY <1>1, <1>2, PTL DEF Spec

\* Type correctness: whatever a client calls, and in whatever order, the driver
\* puts only well formed words on the bus and the columns stay columns of
\* bytes (all of ap_hal.c).
THEOREM TypeCorrect == Spec => []TypeOK
<1>1. TypeOK /\ [Next]_vars => TypeOK'
  BY NextKeepsType
<1>2. QED
  BY <1>1, InitType, PTL DEF Spec

\* The driver touches no register and no column under a running command: the
\* processor stands at the wait loop for as long as the engine computes
\* (ap_hal.c:104, 120, 254, 274, 321, 333, 362).
THEOREM WaitsForEngine ==
  ASSUME Callable \cap PollingFns = {}
  PROVE  Spec => []CpuWaitsForEngine
<1>1. IInv => CpuWaitsForEngine
  BY DEF IInv, CpuWaitsForEngine
<1>2. QED
  BY <1>1, Invariance, PTL

\* Without the vertical functions, whose lock word is another bit, every
\* computation runs under a locked interface (ap_hal.c:99-106, 115-122).
THEOREM LockedWhileBusy ==
  ASSUME Callable \cap PollingFns = {}, Callable \cap VerticalFns = {}
  PROVE  Spec => []InterfaceLockedWhileBusy
<1>1. IInv => InterfaceLockedWhileBusy
  BY DEF IInv, InterfaceLockedWhileBusy, Locks
<1>2. QED
  BY <1>1, Invariance, PTL
=============================================================================
