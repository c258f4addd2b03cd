--------------------------- MODULE ApPromise_proofs ---------------------------
(***************************************************************************)
(* ApHal implements ApCalls: for columns of any size, bytes of any width   *)
(* and an engine that computes rows in any order, every call of the HAL is *)
(* one atomic operation on the columns; it hands back a released device;   *)
(* and after a bounded poll gave up one reset makes the promise good again.*)
(*                                                                         *)
(* The argument runs each program on a sequential machine, where a trigger *)
(* only marks a command as pending and the wait computes all its rows at   *)
(* once.  `Runs(exact, s, p, q)' says that the accesses s take that        *)
(* machine from p to q; a function keeps its promise when its program      *)
(* ends, from any state, in the promised one.  The invariant keeps the     *)
(* real device in step with the machine (`Follows'): what is left of the   *)
(* program still runs from here to the promised end.                       *)
(***************************************************************************)
EXTENDS ApHal_proofs

-----------------------------------------------------------------------------
(* The sequential machine. *)

\* run: a triggered command has not been waited for; flag: the interrupt flag.
State == [control : ControlReg, mode : ModeReg, mem : Memory, buf : Seq(Byte),
          run : BOOLEAN, flag : BOOLEAN]

St(c, m, x, b, run, flag) ==
  [control |-> c, mode |-> m, mem |-> x, buf |-> b, run |-> run, flag |-> flag]

\* No command is pending.
Idle(c, m, x, b, flag) == St(c, m, x, b, FALSE, flag)

\* A command has been triggered, with the flag down.
Pending(c, m, x, b) == St(c, m, x, b, TRUE, FALSE)

\* What a load from address a returns (some byte, outside the columns).
Fetch(a, x) == IF a \in CamAddr THEN x[a] ELSE 0

ByControl(a, p) ==
  St(a.control, p.mode, Flushed(a.control.rst, p.mode, p.mem), p.buf, a.control.trigger, FALSE)
ByMode(a, p)  == St(p.control, a.mode, p.mem, p.buf, FALSE, p.flag)
ByStore(a, p) == St(p.control, p.mode, Stored(a.addr, a.value, p.mem), p.buf, FALSE, p.flag)
ByLoad(a, p)  ==
  St(p.control, p.mode, p.mem, Append(p.buf, Fetch(a.addr, p.mem)), FALSE, p.flag)
ByCopy(a, p)  ==
  St(p.control, p.mode, Stored(a.to, Fetch(a.addr, p.mem), p.mem), p.buf, FALSE, p.flag)
ByWait(p) ==
  St(p.control, p.mode, Computed(p.control, p.mode, p.mem, Row), p.buf, FALSE, TRUE)
\* The poll that finds the flag up clears both registers.
ByPoll(p) ==
  St(Released, ModeZero, Computed(p.control, p.mode, p.mem, Row), p.buf, FALSE, FALSE)

\* Accesses whose effect the HAL's documents determine: no load from outside the
\* columns, no vertical command.
Determined(a, p) ==
  /\ a.kind \in {"load", "copy"} => a.addr \in CamAddr
  /\ a.kind = "control" /\ a.control.trigger => p.mode.op_direction = HORIZONTAL

\* One access: a trigger needs a trigger bit that was low, a wait a pending command.
\* exact: memory and bytes are claimed, too, so the access must be determined.
Step(exact, a, p, q) ==
  /\ exact => Determined(a, p)
  /\ \/ /\ a.kind = "control" /\ ~ p.run
        /\ a.control.trigger => ~ p.control.trigger /\ 3 \notin a.control.rst
        /\ q = ByControl(a, p)
     \/ a.kind = "mode" /\ ~ p.run /\ q = ByMode(a, p)
     \/ a.kind = "store" /\ ~ p.run /\ q = ByStore(a, p)
     \/ a.kind = "load" /\ ~ p.run /\ q = ByLoad(a, p)
     \/ a.kind = "copy" /\ ~ p.run /\ q = ByCopy(a, p)
     \/ a.kind = "wait" /\ p.run /\ q = ByWait(p)
     \/ a.kind = "poll" /\ p.run /\ q = ByPoll(p)
     \/ a.kind = "end_cycles" /\ ~ p.run /\ q = p

Trace(exact, s, t) ==
  /\ t \in [0 .. Len(s) -> State]
  /\ \A i \in 1 .. Len(s) : Step(exact, s[i], t[i - 1], t[i])

Runs(exact, s, p, q) ==
  /\ s \in Seq(Access)
  /\ \E t : Trace(exact, s, t) /\ t[0] = p /\ t[Len(s)] = q

-----------------------------------------------------------------------------
(* Programs in sequence. *)

LEMMA RunsEmpty ==
  ASSUME NEW exact
  PROVE
  /\ \A p \in State : Runs(exact, << >>, p, p)
  /\ \A p, q : Runs(exact, << >>, p, q) => p = q
<1>1. ASSUME NEW p \in State PROVE Runs(exact, << >>, p, p)
  <2> DEFINE t == [i \in 0 .. 0 |-> p]
  <2>1. Trace(exact, << >>, t) /\ t[0] = p
    BY DEF Trace
  <2>2. QED
    BY <2>1 DEF Runs
<1>2. ASSUME NEW p, NEW q, Runs(exact, << >>, p, q) PROVE p = q
  BY <1>2 DEF Runs
<1>3. QED
  BY <1>1, <1>2

\* The ends of a run are states.
LEMMA RunsStates ==
  ASSUME NEW exact, NEW s, NEW p, NEW q, Runs(exact, s, p, q)
  PROVE  s \in Seq(Access) /\ p \in State /\ q \in State
<1>1. PICK t : s \in Seq(Access) /\ Trace(exact, s, t) /\ t[0] = p /\ t[Len(s)] = q
  BY DEF Runs
<1>2. Len(s) \in Nat /\ 0 \in 0 .. Len(s) /\ Len(s) \in 0 .. Len(s)
  BY <1>1
<1>3. QED
  BY <1>1, <1>2 DEF Trace

LEMMA RunsJoin ==
  ASSUME NEW exact, NEW s, NEW u, NEW p, NEW q, NEW r, Runs(exact, s, p, q), Runs(exact, u, q, r)
  PROVE  Runs(exact, s \o u, p, r)
<1>1. PICK t : s \in Seq(Access) /\ Trace(exact, s, t) /\ t[0] = p /\ t[Len(s)] = q
  BY DEF Runs
<1>2. PICK v : u \in Seq(Access) /\ Trace(exact, u, v) /\ v[0] = q /\ v[Len(u)] = r
  BY DEF Runs
<1> DEFINE w == [i \in 0 .. Len(s \o u) |-> IF i <= Len(s) THEN t[i] ELSE v[i - Len(s)]]
<1>3. /\ s \o u \in Seq(Access) /\ Len(s) \in Nat /\ Len(u) \in Nat
      /\ Len(s \o u) = Len(s) + Len(u)
      /\ \A i \in 1 .. Len(s) + Len(u) :
           (s \o u)[i] = IF i <= Len(s) THEN s[i] ELSE u[i - Len(s)]
  BY <1>1, <1>2, ConcatProperties
<1>4. w \in [0 .. Len(s \o u) -> State]
  <2>1. ASSUME NEW i \in 0 .. Len(s \o u) PROVE w[i] \in State
    <3>1. CASE i <= Len(s)
      BY <1>1, <1>3, <3>1 DEF Trace
    <3>2. CASE i > Len(s)
      <4>1. i - Len(s) \in 0 .. Len(u)
        BY <1>3, <3>2
      <4>2. QED
        BY <1>2, <1>3, <3>2, <4>1 DEF Trace
    <3>3. QED
      BY <1>3, <3>1, <3>2
  <2>2. QED
    BY <2>1
<1>5. ASSUME NEW i \in 1 .. Len(s \o u)
      PROVE  Step(exact, (s \o u)[i], w[i - 1], w[i])
  <2>1. CASE i <= Len(s)
    <3>1. i \in 1 .. Len(s) /\ (s \o u)[i] = s[i] /\ w[i] = t[i] /\ w[i - 1] = t[i - 1]
      BY <1>3, <2>1
    <3>2. QED
      BY <1>1, <3>1 DEF Trace
  <2>2. CASE i > Len(s)
    <3>1. /\ i - Len(s) \in 1 .. Len(u) /\ (s \o u)[i] = u[i - Len(s)]
          /\ w[i] = v[i - Len(s)]
      BY <1>3, <2>2
    <3>2. w[i - 1] = v[i - Len(s) - 1]
      <4>1. CASE i - 1 = Len(s)
        BY <1>1, <1>2, <1>3, <4>1
      <4>2. CASE i - 1 > Len(s)
        BY <1>3, <4>2
      <4>3. QED
        BY <1>3, <2>2, <4>1, <4>2
    <3>3. QED
      BY <1>2, <3>1, <3>2 DEF Trace
  <2>3. QED
    BY <1>3, <2>1, <2>2
<1>6. w[0] = p /\ w[Len(s \o u)] = r
  <2>1. w[0] = p
    BY <1>1, <1>3
  <2>2. CASE Len(u) = 0
    BY <1>1, <1>2, <1>3, <2>2
  <2>3. CASE Len(u) > 0
    BY <1>1, <1>2, <1>3, <2>3
  <2>4. QED
    BY <1>3, <2>1, <2>2, <2>3
<1> HIDE DEF w
<1>7. Trace(exact, s \o u, w)
  BY <1>4, <1>5 DEF Trace
<1>8. QED
  BY <1>3, <1>6, <1>7 DEF Runs

\* The first access, and the rest.
LEMMA RunsFirst ==
  ASSUME NEW exact, NEW s, s # << >>, NEW p, NEW q, Runs(exact, s, p, q)
  PROVE  \E r \in State : Step(exact, Head(s), p, r) /\ Runs(exact, Tail(s), r, q)
<1>1. PICK t : s \in Seq(Access) /\ Trace(exact, s, t) /\ t[0] = p /\ t[Len(s)] = q
  BY DEF Runs
<1>2. /\ Tail(s) \in Seq(Access) /\ Len(s) \in Nat /\ Len(s) > 0
      /\ Len(Tail(s)) = Len(s) - 1 /\ Head(s) = s[1]
      /\ \A i \in 1 .. Len(Tail(s)) : Tail(s)[i] = s[i + 1]
  BY <1>1, HeadTailProperties
<1> DEFINE v == [i \in 0 .. Len(Tail(s)) |-> t[i + 1]]
<1>3. v \in [0 .. Len(Tail(s)) -> State]
  BY <1>1, <1>2 DEF Trace
<1>4. ASSUME NEW i \in 1 .. Len(Tail(s))
      PROVE  Step(exact, Tail(s)[i], v[i - 1], v[i])
  <2>1. i + 1 \in 1 .. Len(s) /\ Tail(s)[i] = s[i + 1] /\ v[i] = t[i + 1] /\ v[i - 1] = t[i]
    BY <1>2
  <2>2. Step(exact, s[i + 1], t[i + 1 - 1], t[i + 1])
    BY <1>1, <2>1 DEF Trace
  <2>3. i + 1 - 1 = i
    OBVIOUS
  <2>4. QED
    BY <2>1, <2>2, <2>3
<1>5. v[0] = t[1] /\ v[Len(Tail(s))] = q /\ t[1] \in State
  BY <1>1, <1>2 DEF Trace
<1>6. Step(exact, Head(s), p, t[1])
  BY <1>1, <1>2 DEF Trace
<1> HIDE DEF v
<1>7. Trace(exact, Tail(s), v)
  BY <1>3, <1>4 DEF Trace
<1>8. QED
  BY <1>2, <1>5, <1>6, <1>7 DEF Runs

LEMMA RunsAppend ==
  ASSUME NEW exact, NEW s, NEW a \in Access, NEW p, NEW q, NEW r \in State,
         Runs(exact, s, p, q), Step(exact, a, q, r)
  PROVE  Runs(exact, Append(s, a), p, r)
<1> DEFINE t == [i \in 0 .. 1 |-> IF i = 0 THEN q ELSE r]
<1>1. q \in State /\ s \in Seq(Access)
  BY RunsStates
<1>2. << a >> \in Seq(Access) /\ Len(<< a >>) = 1 /\ << a >>[1] = a
  OBVIOUS
<1>3. t \in [0 .. 1 -> State] /\ t[0] = q /\ t[1] = r
  BY <1>1
<1> HIDE DEF t
<1>4. Trace(exact, << a >>, t)
  BY <1>2, <1>3 DEF Trace
<1>5. Runs(exact, << a >>, q, r)
  BY <1>2, <1>3, <1>4 DEF Runs
<1>6. Append(s, a) = s \o << a >>
  BY <1>1, AppendIsConcat
<1>7. QED
  BY <1>5, <1>6, RunsJoin

\* Short literal programs, access by access.
LEMMA RunsOne ==
  ASSUME NEW exact, NEW a \in Access, NEW p \in State, NEW q \in State, Step(exact, a, p, q)
  PROVE  Runs(exact, << a >>, p, q)
<1>1. Runs(exact, << >>, p, p)
  BY RunsEmpty
<1>2. << a >> = Append(<< >>, a)
  OBVIOUS
<1>3. QED
  BY <1>1, <1>2, RunsAppend

LEMMA RunsTwo ==
  ASSUME NEW exact, NEW a \in Access, NEW b \in Access,
         NEW p \in State, NEW q \in State, NEW r \in State,
         Step(exact, a, p, q), Step(exact, b, q, r)
  PROVE  Runs(exact, << a, b >>, p, r)
<1>1. Runs(exact, << a >>, p, q)
  BY RunsOne
<1>2. << a, b >> = Append(<< a >>, b)
  OBVIOUS
<1>3. QED
  BY <1>1, <1>2, RunsAppend

LEMMA RunsThree ==
  ASSUME NEW exact, NEW a \in Access, NEW b \in Access, NEW c \in Access,
         NEW p \in State, NEW q \in State, NEW r \in State, NEW s \in State,
         Step(exact, a, p, q), Step(exact, b, q, r), Step(exact, c, r, s)
  PROVE  Runs(exact, << a, b, c >>, p, s)
<1>1. Runs(exact, << a, b >>, p, r)
  BY RunsTwo
<1>2. << a, b, c >> = Append(<< a, b >>, c)
  OBVIOUS
<1>3. QED
  BY <1>1, <1>2, RunsAppend

LEMMA RunsFour ==
  ASSUME NEW exact, NEW a \in Access, NEW b \in Access, NEW c \in Access, NEW d \in Access,
         NEW p \in State, NEW q \in State, NEW r \in State, NEW s \in State, NEW t \in State,
         Step(exact, a, p, q), Step(exact, b, q, r), Step(exact, c, r, s), Step(exact, d, s, t)
  PROVE  Runs(exact, << a, b, c, d >>, p, t)
<1>1. Runs(exact, << a, b, c >>, p, s)
  BY RunsThree
<1>2. << a, b, c, d >> = Append(<< a, b, c >>, d)
  OBVIOUS
<1>3. QED
  BY <1>1, <1>2, RunsAppend

LEMMA RunsFive ==
  ASSUME NEW exact, NEW a \in Access, NEW b \in Access, NEW c \in Access, NEW d \in Access,
         NEW e \in Access, NEW p, NEW q, NEW r,
         Runs(exact, << a, b, c >>, p, q), Runs(exact, << d, e >>, q, r)
  PROVE  Runs(exact, << a, b, c, d, e >>, p, r)
<1>1. << a, b, c >> \o << d, e >> = << a, b, c, d, e >>
  BY Joined
<1>2. QED
  BY <1>1, RunsJoin

LEMMA RunsTwelve ==
  ASSUME NEW exact, NEW a \in Access, NEW b \in Access, NEW c \in Access, NEW d \in Access,
         NEW e \in Access, NEW f \in Access, NEW g \in Access, NEW h \in Access,
         NEW i \in Access, NEW j \in Access, NEW k \in Access, NEW l \in Access,
         NEW p, NEW q, NEW r, NEW s,
         Runs(exact, << a, b, c, d >>, p, q), Runs(exact, << e, f, g, h >>, q, r),
         Runs(exact, << i, j, k, l >>, r, s)
  PROVE  Runs(exact, << a, b, c, d, e, f, g, h, i, j, k, l >>, p, s)
<1> DEFINE w1 == << a, b, c, d >>
           w2 == << e, f, g, h >>
           w3 == << i, j, k, l >>
           v == << a, b, c, d, e, f, g, h, i, j, k, l >>
<1>1. /\ w1 \in Seq(Access) /\ w2 \in Seq(Access) /\ w3 \in Seq(Access) /\ v \in Seq(Access)
      /\ Len(w1) = 4 /\ Len(w2) = 4 /\ Len(w3) = 4 /\ Len(v) = 12
  OBVIOUS
<1>2. /\ w1 \o w2 \in Seq(Access) /\ Len(w1 \o w2) = 8
      /\ \A n \in 1 .. 8 : (w1 \o w2)[n] = IF n <= 4 THEN w1[n] ELSE w2[n - 4]
  BY <1>1, ConcatProperties
<1>3. /\ w1 \o w2 \o w3 \in Seq(Access) /\ Len(w1 \o w2 \o w3) = 12
      /\ \A n \in 1 .. 12 : (w1 \o w2 \o w3)[n] = IF n <= 8 THEN (w1 \o w2)[n] ELSE w3[n - 8]
  BY <1>1, <1>2, ConcatProperties
<1>4. ASSUME NEW n \in 1 .. 12 PROVE (w1 \o w2 \o w3)[n] = v[n]
  <2>1. CASE n <= 4
    BY <1>2, <1>3, <2>1
  <2>2. CASE 4 < n /\ n <= 8
    BY <1>2, <1>3, <2>2
  <2>3. CASE 8 < n
    BY <1>3, <2>3
  <2>4. QED
    BY <2>1, <2>2, <2>3
<1>5. w1 \o w2 \o w3 = v
  BY <1>1, <1>3, <1>4, SeqEqual
<1>6. Runs(exact, w1, p, q) /\ Runs(exact, w2, q, r) /\ Runs(exact, w3, r, s)
  OBVIOUS
<1> HIDE DEF w1, w2, w3, v
<1>7. Runs(exact, w1 \o w2, p, r)
  BY <1>6, RunsJoin
<1>8. QED
  BY <1>5, <1>6, <1>7, RunsJoin DEF v

\* The first access decides where the rest continues.
LEMMA RunsCons ==
  ASSUME NEW exact, NEW a \in Access, NEW u, NEW p \in State, NEW q, NEW r,
         Step(exact, a, p, q), Runs(exact, u, q, r)
  PROVE  Runs(exact, << a >> \o u, p, r)
<1>1. q \in State
  BY RunsStates
<1>2. QED
  BY <1>1, RunsOne, RunsJoin

-----------------------------------------------------------------------------
(* One access of the machine. *)

LEMMA StIsState ==
  ASSUME NEW c \in ControlReg, NEW m \in ModeReg, NEW x \in Memory, NEW b \in Seq(Byte),
         NEW f \in BOOLEAN
  PROVE  Idle(c, m, x, b, f) \in State /\ Pending(c, m, x, b) \in State
  BY DEF Idle, Pending, St, State

LEMMA FlushNothing ==
  ASSUME NEW x \in Memory, NEW m, NEW rst, rst \cap APCollunm = {}
  PROVE  Flushed(rst, m, x) = x
  BY DEF Flushed, Memory

LEMMA RegisterValues ==
  /\ Released \in ControlReg /\ ModeZero \in ModeReg
  /\ \A s \in {DYNAMIC, STATIC}, t \in {TARGET_C, TARGET_A}, g \in BOOLEAN, rst \in SUBSET Bits :
       set_control_reg(s, t, g, rst) \in ControlReg
  /\ \A i \in InternalCol, col \in APCollunm, d \in {HORIZONTAL, VERTICAL}, o \in APOperations :
       set_mode_reg(i, col, d, o) \in ModeReg
<1>1. Released \in ControlReg
  BY DEF Released, set_control_reg, ControlReg, DYNAMIC, TARGET_C
<1>2. ModeZero \in ModeReg
  BY DEF ModeZero, set_mode_reg, ModeReg, InternalCol, APCollunm, APOperations, LEFT, CAM_A,
         CAM_C, HORIZONTAL, OR, ADD_D
<1>3. ASSUME NEW s \in {DYNAMIC, STATIC}, NEW t \in {TARGET_C, TARGET_A}, NEW g \in BOOLEAN,
             NEW rst \in SUBSET Bits
      PROVE  set_control_reg(s, t, g, rst) \in ControlReg
  BY DEF set_control_reg, ControlReg
<1>4. ASSUME NEW i \in InternalCol, NEW col \in APCollunm, NEW d \in {HORIZONTAL, VERTICAL},
             NEW o \in APOperations
      PROVE  set_mode_reg(i, col, d, o) \in ModeReg
  BY DEF set_mode_reg, ModeReg
<1>5. QED
  BY <1>1, <1>2, <1>3, <1>4

\* A register write that does not trigger.
LEMMA ControlStep ==
  ASSUME NEW exact \in BOOLEAN, NEW c \in ControlReg, NEW m \in ModeReg, NEW x \in Memory,
         NEW b \in Seq(Byte), NEW f \in BOOLEAN
  PROVE  /\ \A s \in {DYNAMIC, STATIC}, t \in {TARGET_C, TARGET_A}, rst \in SUBSET Bits :
              Step(exact, Control(s, t, FALSE, rst), Idle(c, m, x, b, f),
                   Idle(set_control_reg(s, t, FALSE, rst), m, Flushed(rst, m, x), b, FALSE))
         /\ \A s \in {DYNAMIC, STATIC}, t \in {TARGET_C, TARGET_A}, rst \in {{}, {3}} :
              Step(exact, Control(s, t, FALSE, rst), Idle(c, m, x, b, f),
                   Idle(set_control_reg(s, t, FALSE, rst), m, x, b, FALSE))
         /\ Step(exact, Release, Idle(c, m, x, b, f), Idle(Released, m, x, b, FALSE))
<1> DEFINE p == Idle(c, m, x, b, f)
<1>1. ASSUME NEW k \in ControlReg, ~ k.trigger
      PROVE  Step(exact, [kind |-> "control", control |-> k], p,
                  Idle(k, m, Flushed(k.rst, m, x), b, FALSE))
  <2>1. k.trigger = FALSE
    BY <1>1 DEF ControlReg
  <2>2. ByControl([kind |-> "control", control |-> k], p)
          = Idle(k, m, Flushed(k.rst, m, x), b, FALSE)
    BY <2>1 DEF ByControl, Idle, St
  <2>3. QED
    BY <2>1, <2>2 DEF Step, Determined, Idle, St
<1>2. ASSUME NEW s \in {DYNAMIC, STATIC}, NEW t \in {TARGET_C, TARGET_A}, NEW rst \in SUBSET Bits
      PROVE  Step(exact, Control(s, t, FALSE, rst), p,
                  Idle(set_control_reg(s, t, FALSE, rst), m, Flushed(rst, m, x), b, FALSE))
  <2>1. /\ set_control_reg(s, t, FALSE, rst) \in ControlReg
        /\ ~ set_control_reg(s, t, FALSE, rst).trigger
        /\ set_control_reg(s, t, FALSE, rst).rst = rst
    BY DEF set_control_reg, ControlReg
  <2>2. QED
    BY <1>1, <2>1 DEF Control
<1>3. ASSUME NEW s \in {DYNAMIC, STATIC}, NEW t \in {TARGET_C, TARGET_A}, NEW rst \in {{}, {3}}
      PROVE  Step(exact, Control(s, t, FALSE, rst), p,
                  Idle(set_control_reg(s, t, FALSE, rst), m, x, b, FALSE))
  <2>1. rst \in SUBSET Bits /\ rst \cap APCollunm = {}
    BY DEF Bits, APCollunm, CAM_A, CAM_C
  <2>2. Flushed(rst, m, x) = x
    BY <2>1, FlushNothing
  <2>3. QED
    BY <1>2, <2>1, <2>2
<1>4. Step(exact, Release, p, Idle(Released, m, x, b, FALSE))
  <2>1. /\ Released \in ControlReg /\ ~ Released.trigger /\ Released.rst \cap APCollunm = {}
    BY DEF Released, set_control_reg, ControlReg, DYNAMIC, TARGET_C
  <2>2. Flushed(Released.rst, m, x) = x
    BY <2>1, FlushNothing
  <2>3. QED
    BY <1>1, <2>1, <2>2 DEF Release
<1>5. QED
  BY <1>2, <1>3, <1>4

LEMMA ModeStep ==
  ASSUME NEW exact \in BOOLEAN, NEW c \in ControlReg, NEW m \in ModeReg, NEW x \in Memory,
         NEW b \in Seq(Byte), NEW f \in BOOLEAN
  PROVE  /\ \A i \in InternalCol, col \in APCollunm, d \in {HORIZONTAL, VERTICAL}, o \in APOperations :
              Step(exact, Mode(i, col, d, o), Idle(c, m, x, b, f),
                   Idle(c, set_mode_reg(i, col, d, o), x, b, f))
         /\ Step(exact, ZeroMode, Idle(c, m, x, b, f), Idle(c, ModeZero, x, b, f))
         /\ Step(exact, EndCycles, Idle(c, m, x, b, f), Idle(c, m, x, b, f))
<1>1. ASSUME NEW n \in ModeReg
      PROVE  Step(exact, [kind |-> "mode", mode |-> n], Idle(c, m, x, b, f), Idle(c, n, x, b, f))
  BY DEF Step, Determined, ByMode, Idle, St
<1>2. ASSUME NEW i \in InternalCol, NEW col \in APCollunm, NEW d \in {HORIZONTAL, VERTICAL},
             NEW o \in APOperations
      PROVE  Step(exact, Mode(i, col, d, o), Idle(c, m, x, b, f),
                  Idle(c, set_mode_reg(i, col, d, o), x, b, f))
  BY <1>1, RegisterValues DEF Mode
<1>3. Step(exact, ZeroMode, Idle(c, m, x, b, f), Idle(c, ModeZero, x, b, f))
  BY <1>1, RegisterValues DEF ZeroMode
<1>4. Step(exact, EndCycles, Idle(c, m, x, b, f), Idle(c, m, x, b, f))
  BY DEF Step, Determined, EndCycles, Idle, St
<1>5. QED
  BY <1>2, <1>3, <1>4

\* The trigger write, and the wait and the poll that must follow it.
LEMMA TriggerStep ==
  ASSUME NEW exact \in BOOLEAN, NEW c \in ControlReg, ~ c.trigger, NEW m \in ModeReg,
         NEW x \in Memory, NEW b \in Seq(Byte), NEW f \in BOOLEAN,
         NEW s \in {DYNAMIC, STATIC}, NEW t \in {TARGET_C, TARGET_A},
         exact => m.op_direction = HORIZONTAL
  PROVE  Step(exact, Control(s, t, TRUE, {}), Idle(c, m, x, b, f),
              Pending(set_control_reg(s, t, TRUE, {}), m, x, b))
<1> DEFINE k == set_control_reg(s, t, TRUE, {})
           p == Idle(c, m, x, b, f)
<1>1. k.trigger = TRUE /\ k.rst = {}
  BY DEF set_control_reg
<1>2. Flushed({}, m, x) = x
  BY FlushNothing
<1>3. ByControl([kind |-> "control", control |-> k], p) = Pending(k, m, x, b)
  BY <1>1, <1>2 DEF ByControl, Idle, Pending, St
<1>4. QED
  BY <1>1, <1>3 DEF Step, Determined, Idle, St, Control

LEMMA WaitStep ==
  ASSUME NEW exact \in BOOLEAN, NEW c \in ControlReg, NEW m \in ModeReg, NEW x \in Memory,
         NEW b \in Seq(Byte)
  PROVE  /\ Step(exact, Wait, Pending(c, m, x, b), Idle(c, m, Computed(c, m, x, Row), b, TRUE))
         /\ \A n \in Nat :
              Step(exact, Poll(n), Pending(c, m, x, b),
                   Idle(Released, ModeZero, Computed(c, m, x, Row), b, FALSE))
  BY DEF Step, Determined, Wait, Poll, ByWait, ByPoll, Idle, Pending, St

-----------------------------------------------------------------------------
(* Loops over a column: each keeps one access more than before done. *)

Put(base, V, x) ==
  [a \in CamAddr |-> IF a - base \in 0 .. Len(V) - 1 THEN V[a - base + 1] ELSE x[a]]

LEMMA StoreVectorRuns ==
  ASSUME NEW exact \in BOOLEAN, NEW base \in Nat, NEW V \in Seq(Byte),
         NEW c \in ControlReg, NEW m \in ModeReg, NEW x \in Memory, NEW b \in Seq(Byte),
         NEW f \in BOOLEAN
  PROVE  /\ Put(base, V, x) \in Memory
         /\ Runs(exact, StoreVector(base, V), Idle(c, m, x, b, f),
                 Idle(c, m, Put(base, V, x), b, f))
<1> DEFINE part(k) == [a \in CamAddr |-> IF a - base \in 0 .. k - 1 THEN V[a - base + 1] ELSE x[a]]
           t == [k \in 0 .. Len(V) |-> Idle(c, m, part(k), b, f)]
           s == StoreVector(base, V)
<1>1. Len(V) \in Nat /\ \A i \in 1 .. Len(V) : V[i] \in Byte
  BY ElementOfSeq
<1>2. s \in Seq(Access) /\ Len(s) = Len(V) /\ \A i \in 1 .. Len(V) : s[i] = Store(base + i - 1, V[i])
  <2>1. s \in Seq(Access)
    BY StoreVectorIsSound
  <2>2. s = [i \in 1 .. Len(V) |-> Store(base + i - 1, V[i])]
    BY DEF StoreVector
  <2> HIDE DEF s
  <2>3. QED
    BY <1>1, <2>1, <2>2
<1>3. ASSUME NEW k \in 0 .. Len(V) PROVE part(k) \in Memory
  <2>1. ASSUME NEW a \in CamAddr PROVE part(k)[a] \in Byte
    <3>1. CASE a - base \in 0 .. k - 1
      <4>1. a - base + 1 \in 1 .. Len(V)
        BY <1>1, <3>1 DEF CamAddr
      <4>2. QED
        BY <1>1, <3>1, <4>1
    <3>2. CASE a - base \notin 0 .. k - 1
      BY <3>2 DEF Memory
    <3>3. QED
      BY <3>1, <3>2
  <2>2. QED
    BY <2>1 DEF Memory
<1>4. part(0) = x
  BY DEF Memory, CamAddr
<1>5. ASSUME NEW k \in 1 .. Len(V)
      PROVE  part(k) = Stored(base + k - 1, V[k], part(k - 1))
  <2>1. CASE base + k - 1 \in CamAddr
    <3>1. ASSUME NEW a \in CamAddr
          PROVE  part(k)[a] = Stored(base + k - 1, V[k], part(k - 1))[a]
      <4>1. CASE a = base + k - 1
        BY <1>1, <2>1, <4>1 DEF Stored, CamAddr
      <4>2. CASE a # base + k - 1
        <5>1. a - base \in 0 .. k - 1 <=> a - base \in 0 .. (k - 1) - 1
          BY <1>1, <4>2 DEF CamAddr
        <5>2. QED
          BY <2>1, <4>2, <5>1 DEF Stored
      <4>3. QED
        BY <4>1, <4>2
    <3>2. QED
      BY <2>1, <3>1 DEF Stored
  <2>2. CASE base + k - 1 \notin CamAddr
    <3>1. \A a \in CamAddr : a - base \in 0 .. k - 1 <=> a - base \in 0 .. (k - 1) - 1
      BY <1>1, <2>2 DEF CamAddr
    <3>2. QED
      BY <2>2, <3>1 DEF Stored
  <2>3. QED
    BY <2>1, <2>2
<1>6. /\ t \in [0 .. Len(V) -> State]
      /\ t[0] = Idle(c, m, x, b, f)
      /\ t[Len(V)] = Idle(c, m, Put(base, V, x), b, f)
  <2>1. \A k \in 0 .. Len(V) : Idle(c, m, part(k), b, f) \in State
    BY <1>3, StIsState DEF Idle
  <2>2. part(Len(V)) = Put(base, V, x)
    BY DEF Put
  <2> HIDE DEF part
  <2>3. QED
    BY <1>1, <1>4, <2>1, <2>2
<1>7. ASSUME NEW i \in 1 .. Len(s) PROVE Step(exact, s[i], t[i - 1], t[i])
  <2>1. /\ i \in 1 .. Len(V) /\ i - 1 \in 0 .. Len(V) /\ i \in 0 .. Len(V)
    BY <1>1, <1>2
  <2>2. /\ t[i - 1] = Idle(c, m, part(i - 1), b, f)
        /\ t[i] = Idle(c, m, part(i), b, f)
        /\ s[i] = Store(base + i - 1, V[i])
        /\ part(i) = Stored(base + i - 1, V[i], part(i - 1))
    BY <1>2, <1>5, <2>1
  <2> HIDE DEF part, t, s
  <2>3. QED
    BY <2>2 DEF Step, Determined, ByStore, Store, Idle, St
<1>8. Put(base, V, x) \in Memory
  BY <1>1, <1>3 DEF Put
<1> HIDE DEF t, s
<1>9. Runs(exact, s, Idle(c, m, x, b, f), Idle(c, m, Put(base, V, x), b, f))
  BY <1>2, <1>6, <1>7 DEF Runs, Trace
<1>10. QED
  BY <1>8, <1>9 DEF s

\* The bytes a loop of loads returns.
Bytes(base, n, x) == [i \in 1 .. n |-> Fetch(base + i - 1, x)]

LEMMA LoadVectorRuns ==
  ASSUME NEW exact \in BOOLEAN, NEW base \in Nat, NEW n \in Nat,
         exact => \A i \in 1 .. n : base + i - 1 \in CamAddr,
         NEW c \in ControlReg, NEW m \in ModeReg, NEW x \in Memory, NEW f \in BOOLEAN
  PROVE  /\ Bytes(base, n, x) \in Seq(Byte)
         /\ Runs(exact, LoadVector(base, n), Idle(c, m, x, << >>, f),
                 Idle(c, m, x, Bytes(base, n, x), f))
<1> DEFINE t == [k \in 0 .. n |-> Idle(c, m, x, Bytes(base, k, x), f)]
<1> DEFINE s == LoadVector(base, n)
<1>1. s \in Seq(Access) /\ Len(s) = n /\ \A i \in 1 .. n : s[i] = Load(base + i - 1)
  <2>1. s \in Seq(Access)
    BY LoadVectorIsSound
  <2>2. s = [i \in 1 .. n |-> Load(base + i - 1)]
    BY DEF LoadVector
  <2> HIDE DEF s
  <2>3. QED
    BY <2>1, <2>2
<1>2. \A a \in Nat : Fetch(a, x) \in Byte
  BY ByteModAssumption DEF Fetch, Memory, Byte
<1>3. ASSUME NEW k \in Nat PROVE Bytes(base, k, x) \in Seq(Byte) /\ Len(Bytes(base, k, x)) = k
  BY <1>2, IsASeq DEF Bytes
<1>4. Bytes(base, 0, x) = << >>
  BY <1>3
<1>5. ASSUME NEW k \in 1 .. n
      PROVE  Bytes(base, k, x) = Append(Bytes(base, k - 1, x), Fetch(base + k - 1, x))
  <2>1. k - 1 \in Nat /\ k \in Nat /\ (k - 1) + 1 = k /\ Fetch(base + k - 1, x) \in Byte
    BY <1>2
  <2>2. Bytes(base, k - 1, x) \in Seq(Byte) /\ Len(Bytes(base, k - 1, x)) = k - 1
    BY <1>3, <2>1
  <2>3. /\ Append(Bytes(base, k - 1, x), Fetch(base + k - 1, x)) \in Seq(Byte)
        /\ Len(Append(Bytes(base, k - 1, x), Fetch(base + k - 1, x))) = k
        /\ \A i \in 1 .. k - 1 :
             Append(Bytes(base, k - 1, x), Fetch(base + k - 1, x))[i] = Bytes(base, k - 1, x)[i]
        /\ Append(Bytes(base, k - 1, x), Fetch(base + k - 1, x))[k] = Fetch(base + k - 1, x)
    BY <2>1, <2>2, AppendProperties
  <2>4. \A i \in 1 .. k :
          Append(Bytes(base, k - 1, x), Fetch(base + k - 1, x))[i] = Bytes(base, k, x)[i]
    BY <2>1, <2>3 DEF Bytes
  <2>5. QED
    BY <1>3, <2>1, <2>3, <2>4, SeqEqual
<1>6. /\ t \in [0 .. n -> State]
      /\ t[0] = Idle(c, m, x, << >>, f)
      /\ t[n] = Idle(c, m, x, Bytes(base, n, x), f)
  <2>1. ASSUME NEW k \in 0 .. n PROVE Idle(c, m, x, Bytes(base, k, x), f) \in State
    <3>1. Bytes(base, k, x) \in Seq(Byte)
      BY <1>3
    <3>2. QED
      BY <3>1, StIsState DEF Idle
  <2>2. QED
    BY <1>4, <2>1
<1>7. ASSUME NEW i \in 1 .. n PROVE Step(exact, s[i], t[i - 1], t[i])
  <2>1. /\ t[i - 1] = Idle(c, m, x, Bytes(base, i - 1, x), f)
        /\ t[i] = Idle(c, m, x, Bytes(base, i, x), f)
        /\ s[i] = Load(base + i - 1)
    BY <1>1
  <2>2. Bytes(base, i, x) = Append(Bytes(base, i - 1, x), Fetch(base + i - 1, x))
    BY <1>5
  <2>3. exact => base + i - 1 \in CamAddr
    OBVIOUS
  <2> HIDE DEF t, s
  <2>4. ByLoad(Load(base + i - 1), t[i - 1]) = t[i]
    BY <2>1, <2>2 DEF ByLoad, Load, Idle, St
  <2>5. /\ Determined(Load(base + i - 1), t[i - 1]) \/ ~ exact
        /\ ~ t[i - 1].run /\ Load(base + i - 1).kind = "load"
    BY <2>1, <2>3 DEF Determined, Load, Idle, St
  <2>6. QED
    BY <2>1, <2>4, <2>5 DEF Step
<1> HIDE DEF t, s
<1>8. Runs(exact, s, Idle(c, m, x, << >>, f), Idle(c, m, x, Bytes(base, n, x), f))
  BY <1>1, <1>6, <1>7 DEF Runs, Trace
<1>9. QED
  BY <1>3, <1>8 DEF s

\* A column copied elsewhere.
Shift(to, from, n, x) ==
  [a \in CamAddr |-> IF a - to \in 0 .. n - 1 THEN x[from + a - to] ELSE x[a]]

LEMMA CopiesRun ==
  ASSUME NEW exact \in BOOLEAN, NEW to \in Nat, NEW from \in Nat, NEW n \in Nat,
         to + n <= from \/ from + n <= to,
         \A i \in 1 .. n : to + i - 1 \in CamAddr /\ from + i - 1 \in CamAddr,
         NEW c \in ControlReg, NEW m \in ModeReg, NEW x \in Memory, NEW b \in Seq(Byte),
         NEW f \in BOOLEAN, NEW s, s = [i \in 1 .. n |-> Copy(to + i - 1, from + i - 1)]
  PROVE  /\ Shift(to, from, n, x) \in Memory
         /\ Runs(exact, s, Idle(c, m, x, b, f), Idle(c, m, Shift(to, from, n, x), b, f))
<1> DEFINE part(k) == Shift(to, from, k, x)
           t == [k \in 0 .. n |-> Idle(c, m, part(k), b, f)]
<1>1. s \in Seq(Access) /\ Len(s) = n /\ \A i \in 1 .. n : s[i] = Copy(to + i - 1, from + i - 1)
  <2>1. s \in Seq(Access)
    BY CopyIsSound
  <2>2. QED
    BY <2>1
<1>2. ASSUME NEW k \in 0 .. n PROVE part(k) \in Memory
  <2>1. ASSUME NEW a \in CamAddr
        PROVE  (IF a - to \in 0 .. k - 1 THEN x[from + a - to] ELSE x[a]) \in Byte
    <3>1. CASE a - to \in 0 .. k - 1
      <4>1. (a - to) + 1 \in 1 .. n /\ from + a - to = from + ((a - to) + 1) - 1
        BY <3>1 DEF CamAddr
      <4>2. from + a - to \in CamAddr
        BY <4>1
      <4>3. QED
        BY <3>1, <4>2 DEF Memory
    <3>2. CASE a - to \notin 0 .. k - 1
      BY <3>2 DEF Memory
    <3>3. QED
      BY <3>1, <3>2
  <2>2. QED
    BY <2>1 DEF Memory, Shift
<1>3. part(0) = x
  BY DEF Memory, CamAddr, Shift
<1>4. ASSUME NEW k \in 1 .. n
      PROVE  part(k) = Stored(to + k - 1, Fetch(from + k - 1, part(k - 1)), part(k - 1))
  <2> DEFINE v == Fetch(from + k - 1, part(k - 1))
             y == part(k - 1)
  <2>1. to + k - 1 \in CamAddr /\ from + k - 1 \in CamAddr
    OBVIOUS
  <2>2. v = x[from + k - 1]
    <3>1. (from + k - 1) - to \notin 0 .. (k - 1) - 1
      OBVIOUS
    <3>2. QED
      BY <2>1, <3>1 DEF Fetch, Shift
  <2>3. y \in Memory
    BY <1>2
  <2>4. ASSUME NEW a \in CamAddr
        PROVE  part(k)[a] = [y EXCEPT ![to + k - 1] = v][a]
    <3>1. a \in Int
      BY DEF CamAddr
    <3>2. CASE a = to + k - 1
      <4>1. a - to \in 0 .. k - 1 /\ from + a - to = from + k - 1
        BY <3>2
      <4>2. part(k)[a] = x[from + k - 1]
        BY <4>1 DEF Shift
      <4> HIDE DEF part, y, v
      <4>3. QED
        BY <2>2, <2>3, <3>2, <4>2 DEF Memory
    <3>3. CASE a # to + k - 1
      <4>1. a - to \in 0 .. k - 1 <=> a - to \in 0 .. (k - 1) - 1
        BY <3>1, <3>3
      <4>2. part(k)[a] = y[a]
        BY <4>1 DEF Shift
      <4> HIDE DEF part, y, v
      <4>3. QED
        BY <2>3, <3>3, <4>2 DEF Memory
    <3>4. QED
      BY <3>2, <3>3
  <2>5. part(k) \in Memory
    BY <1>2
  <2> HIDE DEF part, y, v
  <2>6. part(k) = [y EXCEPT ![to + k - 1] = v]
    BY <2>3, <2>4, <2>5 DEF Memory
  <2>7. QED
    BY <2>1, <2>6 DEF Stored, y, v
<1>5. /\ t \in [0 .. n -> State]
      /\ t[0] = Idle(c, m, x, b, f)
      /\ t[n] = Idle(c, m, Shift(to, from, n, x), b, f)
  <2>1. ASSUME NEW k \in 0 .. n PROVE Idle(c, m, part(k), b, f) \in State
    BY <1>2, StIsState
  <2>2. part(n) = Shift(to, from, n, x)
    OBVIOUS
  <2> HIDE DEF part
  <2>3. QED
    BY <1>3, <2>1, <2>2
<1>6. ASSUME NEW i \in 1 .. n PROVE Step(exact, s[i], t[i - 1], t[i])
  <2>1. /\ t[i - 1] = Idle(c, m, part(i - 1), b, f)
        /\ t[i] = Idle(c, m, part(i), b, f)
        /\ s[i] = Copy(to + i - 1, from + i - 1)
    BY <1>1
  <2>2. part(i) = Stored(to + i - 1, Fetch(from + i - 1, part(i - 1)), part(i - 1))
    BY <1>4
  <2>3. from + i - 1 \in CamAddr
    OBVIOUS
  <2> HIDE DEF part, t
  <2>4. ByCopy(Copy(to + i - 1, from + i - 1), t[i - 1]) = t[i]
    BY <2>1, <2>2 DEF ByCopy, Copy, Idle, St
  <2>5. /\ Determined(Copy(to + i - 1, from + i - 1), t[i - 1])
        /\ ~ t[i - 1].run /\ Copy(to + i - 1, from + i - 1).kind = "copy"
    BY <2>1, <2>3 DEF Determined, Copy, Idle, St
  <2>6. QED
    BY <2>1, <2>4, <2>5 DEF Step
<1>7. Shift(to, from, n, x) \in Memory
  BY <1>2
<1> HIDE DEF t
<1>8. Runs(exact, s, Idle(c, m, x, b, f), Idle(c, m, Shift(to, from, n, x), b, f))
  BY <1>1, <1>5, <1>6 DEF Runs, Trace
<1>9. QED
  BY <1>7, <1>8

-----------------------------------------------------------------------------
(* The pieces the programs are made of. *)

\* Lock, select, trigger.
Fire(s, t, i, col, d, op, s2, t2) ==
  << Control(s, t, FALSE, {}), Mode(i, col, d, op), Control(s2, t2, TRUE, {}) >>

\* The control word of a trigger.
Fired(s, t) == set_control_reg(s, t, TRUE, {})

LEMMA TriggerRuns ==
  ASSUME NEW exact \in BOOLEAN, NEW c \in ControlReg, NEW m \in ModeReg, NEW x \in Memory,
         NEW b \in Seq(Byte), NEW f \in BOOLEAN,
         NEW s \in {DYNAMIC, STATIC}, NEW t \in {TARGET_C, TARGET_A},
         NEW i \in InternalCol, NEW col \in APCollunm, NEW d \in {HORIZONTAL, VERTICAL},
         NEW op \in APOperations, exact => d = HORIZONTAL,
         NEW s2 \in {DYNAMIC, STATIC}, NEW t2 \in {TARGET_C, TARGET_A}
  PROVE  Runs(exact, Fire(s, t, i, col, d, op, s2, t2), Idle(c, m, x, b, f),
              Pending(Fired(s2, t2), set_mode_reg(i, col, d, op), x, b))
<1> DEFINE c1 == set_control_reg(s, t, FALSE, {})
           m1 == set_mode_reg(i, col, d, op)
           c2 == set_control_reg(s2, t2, TRUE, {})
<1>1. /\ Control(s, t, FALSE, {}) \in Access /\ Mode(i, col, d, op) \in Access
      /\ Control(s2, t2, TRUE, {}) \in Access
  BY RegisterAccess DEF Bits
<1>2. /\ c1 \in ControlReg /\ m1 \in ModeReg /\ c2 \in ControlReg
      /\ ~ c1.trigger /\ m1.op_direction = d
  <2>1. c1 \in ControlReg /\ m1 \in ModeReg /\ c2 \in ControlReg
    BY RegisterValues
  <2>2. QED
    BY <2>1 DEF set_control_reg, set_mode_reg
<1> HIDE DEF c1, m1, c2
<1>3. /\ Idle(c, m, x, b, f) \in State /\ Idle(c1, m, x, b, FALSE) \in State
      /\ Idle(c1, m1, x, b, FALSE) \in State /\ Pending(c2, m1, x, b) \in State
  BY <1>2, StIsState
<1>4. Step(exact, Control(s, t, FALSE, {}), Idle(c, m, x, b, f), Idle(c1, m, x, b, FALSE))
  BY ControlStep DEF c1
<1>5. Step(exact, Mode(i, col, d, op), Idle(c1, m, x, b, FALSE), Idle(c1, m1, x, b, FALSE))
  BY <1>2, ModeStep DEF m1
<1>6. Step(exact, Control(s2, t2, TRUE, {}), Idle(c1, m1, x, b, FALSE), Pending(c2, m1, x, b))
  BY <1>2, TriggerStep DEF c2
<1>7. QED
  BY <1>1, <1>3, <1>4, <1>5, <1>6, RunsThree DEF Fire, Fired, c1, m1, c2

LEMMA WaitRuns ==
  ASSUME NEW exact \in BOOLEAN, NEW c \in ControlReg, NEW m \in ModeReg, NEW x \in Memory,
         NEW b \in Seq(Byte), NEW y \in Memory, y = Computed(c, m, x, Row)
  PROVE  /\ Runs(exact, << Wait, Release >>, Pending(c, m, x, b), Idle(Released, m, y, b, FALSE))
         /\ Runs(exact, << Wait, EndCycles, Release >>, Pending(c, m, x, b),
                 Idle(Released, m, y, b, FALSE))
         /\ Runs(exact, << Wait, EndCycles >>, Pending(c, m, x, b), Idle(c, m, y, b, TRUE))
         /\ \A n \in Nat : Runs(exact, << Poll(n) >>, Pending(c, m, x, b),
                                Idle(Released, ModeZero, y, b, FALSE))
<1>1. Wait \in Access /\ Release \in Access /\ EndCycles \in Access /\ \A n \in Nat : Poll(n) \in Access
  BY RegisterAccess, PollAccess
<1>2. /\ Pending(c, m, x, b) \in State /\ Idle(c, m, y, b, TRUE) \in State
      /\ Idle(Released, m, y, b, FALSE) \in State /\ Idle(Released, ModeZero, y, b, FALSE) \in State
  BY StIsState, RegisterValues
<1>3. /\ Step(exact, Wait, Pending(c, m, x, b), Idle(c, m, y, b, TRUE))
      /\ \A n \in Nat : Step(exact, Poll(n), Pending(c, m, x, b), Idle(Released, ModeZero, y, b, FALSE))
  BY WaitStep
<1>4. Step(exact, Release, Idle(c, m, y, b, TRUE), Idle(Released, m, y, b, FALSE))
  BY ControlStep
<1>5. Step(exact, EndCycles, Idle(c, m, y, b, TRUE), Idle(c, m, y, b, TRUE))
  BY ModeStep
<1>6. Runs(exact, << Wait, Release >>, Pending(c, m, x, b), Idle(Released, m, y, b, FALSE))
  BY <1>1, <1>2, <1>3, <1>4, RunsTwo
<1>7. Runs(exact, << Wait, EndCycles >>, Pending(c, m, x, b), Idle(c, m, y, b, TRUE))
  BY <1>1, <1>2, <1>3, <1>5, RunsTwo
<1>8. Runs(exact, << Wait, EndCycles, Release >>, Pending(c, m, x, b), Idle(Released, m, y, b, FALSE))
  BY <1>1, <1>2, <1>3, <1>4, <1>5, RunsThree
<1>9. \A n \in Nat : Runs(exact, << Poll(n) >>, Pending(c, m, x, b),
                          Idle(Released, ModeZero, y, b, FALSE))
  BY <1>1, <1>2, <1>3, RunsOne
<1>10. QED
  BY <1>6, <1>7, <1>8, <1>9

\* Lock, select, pulse the reset bit of a CAM.
LEMMA PulseRuns ==
  ASSUME NEW exact \in BOOLEAN, NEW c \in ControlReg, NEW m \in ModeReg, NEW x \in Memory,
         NEW b \in Seq(Byte), NEW f \in BOOLEAN,
         NEW i \in InternalCol, NEW col \in APCollunm, NEW bit \in APCollunm
  PROVE  Runs(exact,
              << Control(STATIC, TARGET_C, FALSE, {}), Mode(i, col, HORIZONTAL, OR),
                 Control(STATIC, TARGET_C, FALSE, {bit}) >>,
              Idle(c, m, x, b, f),
              Idle(set_control_reg(STATIC, TARGET_C, FALSE, {bit}), set_mode_reg(i, col, HORIZONTAL, OR),
                   Flushed({bit}, set_mode_reg(i, col, HORIZONTAL, OR), x), b, FALSE))
<1> DEFINE c1 == set_control_reg(STATIC, TARGET_C, FALSE, {})
           m1 == set_mode_reg(i, col, HORIZONTAL, OR)
           c2 == set_control_reg(STATIC, TARGET_C, FALSE, {bit})
<1>1. {bit} \in SUBSET Bits /\ OR \in APOperations
  BY DEF Bits, APCollunm, CAM_A, CAM_C, APOperations, OR, ADD_D
<1>2. c1 \in ControlReg /\ m1 \in ModeReg /\ c2 \in ControlReg
  BY <1>1, RegisterValues
<1>3. /\ Control(STATIC, TARGET_C, FALSE, {}) \in Access /\ Mode(i, col, HORIZONTAL, OR) \in Access
      /\ Control(STATIC, TARGET_C, FALSE, {bit}) \in Access
  BY <1>1, RegisterAccess
<1> HIDE DEF c1, m1, c2
<1>4. Flushed({bit}, m1, x) \in Memory
  BY FlushedIsMemory
<1>5. /\ Idle(c, m, x, b, f) \in State /\ Idle(c1, m, x, b, FALSE) \in State
      /\ Idle(c1, m1, x, b, FALSE) \in State /\ Idle(c2, m1, Flushed({bit}, m1, x), b, FALSE) \in State
  BY <1>2, <1>4, StIsState
<1>6. Step(exact, Control(STATIC, TARGET_C, FALSE, {}), Idle(c, m, x, b, f), Idle(c1, m, x, b, FALSE))
  BY ControlStep DEF c1
<1>7. Step(exact, Mode(i, col, HORIZONTAL, OR), Idle(c1, m, x, b, FALSE), Idle(c1, m1, x, b, FALSE))
  BY <1>1, <1>2, ModeStep DEF m1
<1>8. Step(exact, Control(STATIC, TARGET_C, FALSE, {bit}), Idle(c1, m1, x, b, FALSE),
           Idle(c2, m1, Flushed({bit}, m1, x), b, FALSE))
  BY <1>1, <1>2, ControlStep DEF c2
<1>9. QED
  BY <1>3, <1>5, <1>6, <1>7, <1>8, RunsThree DEF c1, m1, c2

\* The two ways a function hands the interface back.
LEMMA RestoreRuns ==
  ASSUME NEW exact \in BOOLEAN, NEW c \in ControlReg, NEW m \in ModeReg, NEW x \in Memory,
         NEW b \in Seq(Byte), NEW f \in BOOLEAN
  PROVE  /\ Runs(exact, << Release, ZeroMode >>, Idle(c, m, x, b, f),
                 Idle(Released, ModeZero, x, b, FALSE))
         /\ Runs(exact, << Control(STATIC, TARGET_C, FALSE, {}), Release >>, Idle(c, m, x, b, f),
                 Idle(Released, m, x, b, FALSE))
<1> DEFINE c1 == set_control_reg(STATIC, TARGET_C, FALSE, {})
<1>1. c1 \in ControlReg
  BY RegisterValues
<1>2. /\ Release \in Access /\ ZeroMode \in Access /\ Control(STATIC, TARGET_C, FALSE, {}) \in Access
  BY RegisterAccess
<1> HIDE DEF c1
<1>3. /\ Idle(c, m, x, b, f) \in State /\ Idle(c1, m, x, b, FALSE) \in State
      /\ Idle(Released, m, x, b, FALSE) \in State /\ Idle(Released, ModeZero, x, b, FALSE) \in State
  BY <1>1, StIsState, RegisterValues
<1>4. Step(exact, Release, Idle(c, m, x, b, f), Idle(Released, m, x, b, FALSE))
  BY ControlStep
<1>5. Step(exact, ZeroMode, Idle(Released, m, x, b, FALSE), Idle(Released, ModeZero, x, b, FALSE))
  BY ModeStep, RegisterValues
<1>6. Step(exact, Control(STATIC, TARGET_C, FALSE, {}), Idle(c, m, x, b, f), Idle(c1, m, x, b, FALSE))
  BY ControlStep DEF c1
<1>7. Step(exact, Release, Idle(c1, m, x, b, FALSE), Idle(Released, m, x, b, FALSE))
  BY <1>1, ControlStep
<1>8. QED
  BY <1>2, <1>3, <1>4, <1>5, <1>6, <1>7, RunsTwo

-----------------------------------------------------------------------------
(* The columns, and commands computed row by row. *)

\* Two columns share no address.
LEMMA ColumnsApart ==
  ASSUME NEW a \in APCollunm, NEW b \in APCollunm, NEW g \in {0, 1}, NEW h \in {0, 1},
         NEW r \in Row, NEW q \in Row, CamBase(a, g) + r = CamBase(b, h) + q
  PROVE  a = b /\ g = h /\ r = q
<1>1. AP_COL_SIZE \in Nat /\ AP_COL_SIZE > 0
  BY ColSizeAssumption
<1>2. /\ r \in Nat /\ r < AP_COL_SIZE /\ q \in Nat /\ q < AP_COL_SIZE
  BY <1>1 DEF Row
<1>3. \A n \in {0, 1, 2} : CamBase(n, 0) = AP_COL_SIZE * 2 * n /\ CamBase(n, 1) = AP_COL_SIZE * 2 * n + AP_COL_SIZE
  BY <1>1 DEF CamBase
<1>4. /\ CamBase(0, 0) = 0 /\ CamBase(0, 1) = AP_COL_SIZE
      /\ CamBase(1, 0) = 2 * AP_COL_SIZE /\ CamBase(1, 1) = 3 * AP_COL_SIZE
      /\ CamBase(2, 0) = 4 * AP_COL_SIZE /\ CamBase(2, 1) = 5 * AP_COL_SIZE
  BY <1>1, <1>3
<1>5. a \in {0, 1, 2} /\ b \in {0, 1, 2}
  BY DEF APCollunm, CAM_A, CAM_C
<1>6. CASE a = 0
  BY <1>1, <1>2, <1>4, <1>5, <1>6
<1>7. CASE a = 1
  BY <1>1, <1>2, <1>4, <1>5, <1>7
<1>8. CASE a = 2
  BY <1>1, <1>2, <1>4, <1>5, <1>8
<1>9. QED
  BY <1>5, <1>6, <1>7, <1>8

LEMMA HalfIsSide ==
  ASSUME NEW i \in InternalCol, NEW col \in APCollunm
  PROVE  Half(i, col) \in {0, 1}
<1>1. CASE col = 0
  BY <1>1 DEF Half, InternalCol, CAM_A
<1>2. CASE col = 1
  BY <1>2 DEF Half, InternalCol, CAM_A, CAM_B
<1>3. CASE col = 2
  BY <1>3 DEF Half, InternalCol, CAM_A, CAM_B, CAM_C
<1>4. QED
  BY <1>1, <1>2, <1>3 DEF APCollunm, CAM_A, CAM_C

LEMMA SelectedApart ==
  ASSUME NEW i \in InternalCol, NEW a \in APCollunm, NEW b \in APCollunm,
         NEW r \in Row, NEW q \in Row, Selected(i, a) + r = Selected(i, b) + q
  PROVE  a = b /\ r = q
  BY HalfIsSide, ColumnsApart DEF Selected

\* The column a command writes is the selected one of some CAM.
LEMMA DestinationIsSelected ==
  ASSUME NEW c \in ControlReg, NEW m \in ModeReg
  PROVE  \E t \in APCollunm :
           /\ Destination(c, m) = Selected(m.internal_col, t)
           /\ m.cmd = SET => t = m.col
           /\ m.cmd # SET => t # CAM_B
  BY DEF Destination, ModeReg, APCollunm, CAM_A, CAM_B, CAM_C

LEMMA ComputedNothing ==
  ASSUME NEW c, NEW m, NEW x \in Memory
  PROVE  Computed(c, m, x, {}) = x
  BY DEF Computed, Memory

\* The four kinds of command, one equation each.
LEMMA ResultOf ==
  ASSUME NEW m \in ModeReg, NEW z, NEW r
  PROVE  /\ m.cmd \in OR .. MULT =>
              RowResult(m, z, r) = Alu(m.cmd, z[Selected(m.internal_col, CAM_A) + r],
                                       z[Selected(m.internal_col, CAM_B) + r])
         /\ m.cmd = SET => RowResult(m, z, r) = z[Selected(m.internal_col, m.col)]
         /\ m.cmd = SEARCH =>
              RowResult(m, z, r) = IF z[Selected(m.internal_col, CAM_A) + r]
                                        = z[Selected(m.internal_col, CAM_B) + 0] THEN 1 ELSE 0
         /\ m.cmd = ADD_D =>
              RowResult(m, z, r) = (z[Selected(m.internal_col, CAM_A) + r]
                                     + z[Selected(m.internal_col, CAM_C) + r]) % ByteMod
<1>1. CASE m.cmd \in OR .. MULT
  <2>1. m.cmd # SET /\ m.cmd # SEARCH /\ m.cmd # ADD_D
    BY <1>1 DEF OR, MULT, SET, SEARCH, ADD_D
  <2>2. QED
    BY <1>1, <2>1, Zenon DEF RowResult
<1>2. CASE m.cmd = SET
  <2>1. m.cmd \notin OR .. MULT /\ m.cmd # SEARCH /\ m.cmd # ADD_D
    BY <1>2 DEF OR, MULT, SET, SEARCH, ADD_D
  <2>2. QED
    BY <1>2, <2>1, Zenon DEF RowResult
<1>3. CASE m.cmd = SEARCH
  <2>1. m.cmd \notin OR .. MULT /\ m.cmd # SET /\ m.cmd # ADD_D
    BY <1>3 DEF OR, MULT, SET, SEARCH, ADD_D
  <2>2. QED
    BY <1>3, <2>1, Zenon DEF RowResult
<1>4. CASE m.cmd = ADD_D
  <2>1. m.cmd \notin OR .. MULT /\ m.cmd # SET /\ m.cmd # SEARCH
    BY <1>4 DEF OR, MULT, SET, SEARCH, ADD_D
  <2>2. QED
    BY <1>4, <2>1, Zenon DEF RowResult
<1>5. QED
  BY <1>1, <1>2, <1>3, <1>4

\* A row's result does not depend on which other rows have been computed.
LEMMA ResultStays ==
  ASSUME NEW c \in ControlReg, NEW m \in ModeReg, NEW x \in Memory, NEW S \in SUBSET Row,
         NEW r \in Row, r \notin S
  PROVE  RowResult(m, Computed(c, m, x, S), r) = RowResult(m, x, r)
<1> DEFINE y == Computed(c, m, x, S)
           i == m.internal_col
<1>1. i \in InternalCol /\ m.col \in APCollunm /\ m.cmd \in 0 .. 9
  BY DEF ModeReg, APOperations, OR, ADD_D
<1>2. PICK t \in APCollunm : /\ Destination(c, m) = Selected(i, t)
                             /\ m.cmd = SET => t = m.col
                             /\ m.cmd # SET => t # CAM_B
  BY DestinationIsSelected
<1>3. ASSUME NEW col \in APCollunm, NEW q \in Row, q \notin S \/ col # t
      PROVE  y[Selected(i, col) + q] = x[Selected(i, col) + q]
  <2> DEFINE a == Selected(i, col) + q
  <2>1. Selected(i, col) \in Nat /\ a \in CamAddr /\ Selected(i, t) \in Nat /\ q \in Int
    BY <1>1, SelectedColumn DEF Row
  <2>2. a - Selected(i, t) \notin S
    <3>1. SUFFICES ASSUME a - Selected(i, t) \in S
                   PROVE  FALSE
      OBVIOUS
    <3>2. a - Selected(i, t) \in Row /\ Selected(i, t) + (a - Selected(i, t)) = a
      BY <2>1, <3>1
    <3>3. col = t /\ q = a - Selected(i, t)
      BY <1>1, <3>2, SelectedApart
    <3>4. QED
      BY <1>3, <3>1, <3>3
  <2>3. QED
    BY <1>2, <2>1, <2>2 DEF Computed
<1>4. CAM_A \in APCollunm /\ CAM_B \in APCollunm /\ CAM_C \in APCollunm /\ 0 \in Row
  BY ColSizeAssumption DEF APCollunm, CAM_A, CAM_B, CAM_C, Row
<1>5. \A col \in APCollunm : y[Selected(i, col) + r] = x[Selected(i, col) + r]
  BY <1>3
<1>6. CASE m.cmd \in OR .. MULT
  <2>1. \A z : RowResult(m, z, r) = Alu(m.cmd, z[Selected(i, CAM_A) + r], z[Selected(i, CAM_B) + r])
    BY <1>6, ResultOf
  <2> HIDE DEF y, i
  <2>2. QED
    BY <1>4, <1>5, <2>1 DEF y
<1>7. CASE m.cmd = SET
  <2>1. \A z : RowResult(m, z, r) = z[Selected(i, m.col)]
    BY <1>7, ResultOf
  <2>2. \A q \in Row : RowResult(m, x, q) = x[Selected(i, m.col)]
    BY <1>7, ResultOf
  <2>3. Selected(i, m.col) \in Nat /\ Selected(i, m.col) \in CamAddr
    BY <1>1, <1>4, SelectedColumn
  <2>4. y[Selected(i, m.col)] = x[Selected(i, m.col)]
    BY <1>2, <1>7, <2>2, <2>3 DEF Computed
  <2> HIDE DEF y, i
  <2>5. QED
    BY <2>1, <2>4 DEF y
<1>8. CASE m.cmd = SEARCH
  <2>1. \A z : RowResult(m, z, r)
                 = IF z[Selected(i, CAM_A) + r] = z[Selected(i, CAM_B) + 0] THEN 1 ELSE 0
    BY <1>8, ResultOf
  <2>2. CAM_B # t
    BY <1>2, <1>8 DEF SET, SEARCH
  <2>3. y[Selected(i, CAM_B) + 0] = x[Selected(i, CAM_B) + 0]
    BY <1>3, <1>4, <2>2
  <2> HIDE DEF y, i
  <2>4. QED
    BY <1>4, <1>5, <2>1, <2>3 DEF y
<1>9. CASE m.cmd = ADD_D
  <2>1. \A z : RowResult(m, z, r) = (z[Selected(i, CAM_A) + r] + z[Selected(i, CAM_C) + r]) % ByteMod
    BY <1>9, ResultOf
  <2> HIDE DEF y, i
  <2>2. QED
    BY <1>4, <1>5, <2>1 DEF y
<1>10. QED
  BY <1>1, <1>6, <1>7, <1>8, <1>9 DEF OR, MULT, SET, SEARCH, ADD_D

\* So a command may compute its rows one by one, in any order.
LEMMA ComputedMore ==
  ASSUME NEW c \in ControlReg, NEW m \in ModeReg, NEW x \in Memory, NEW S \in SUBSET Row,
         NEW r \in Row, r \notin S
  PROVE  Computed(c, m, Computed(c, m, x, S), {r}) = Computed(c, m, x, S \cup {r})
<1> DEFINE d == Destination(c, m)
           y == Computed(c, m, x, S)
<1>1. RowResult(m, y, r) = RowResult(m, x, r)
  BY ResultStays
<1>2. \A a \in CamAddr : y[a] = IF a - d \in S THEN RowResult(m, x, a - d) ELSE x[a]
  BY DEF Computed
<1>3. Computed(c, m, y, {r}) = [a \in CamAddr |-> IF a - d \in {r} THEN RowResult(m, y, a - d) ELSE y[a]]
  BY DEF Computed
<1>4. Computed(c, m, x, S \cup {r})
        = [a \in CamAddr |-> IF a - d \in S \cup {r} THEN RowResult(m, x, a - d) ELSE x[a]]
  BY DEF Computed
<1> HIDE DEF d, y
<1>5. ASSUME NEW a \in CamAddr
      PROVE  (IF a - d \in {r} THEN RowResult(m, y, a - d) ELSE y[a])
               = IF a - d \in S \cup {r} THEN RowResult(m, x, a - d) ELSE x[a]
  <2>1. CASE a - d = r
    BY <1>1, <2>1
  <2>2. CASE a - d # r
    BY <1>2, <2>2
  <2>3. QED
    BY <2>1, <2>2
<1>6. QED
  BY <1>3, <1>4, <1>5 DEF y

\* One value in a whole column.
Fill(base, v, x) == [a \in CamAddr |-> IF a - base \in Row THEN v ELSE x[a]]

LEMMA FlushFills ==
  ASSUME NEW bit \in APCollunm, NEW m, NEW x
  PROVE  Flushed({bit}, m, x) = Fill(Selected(m.internal_col, bit), 0, x)
  BY DEF Flushed, Fill

\* Store a value in row 0 and SET copies it down the column.
LEMMA SetFills ==
  ASSUME NEW c \in ControlReg, NEW m \in ModeReg, m.cmd = SET, NEW x \in Memory, NEW v \in Byte
  PROVE  Computed(c, m, Stored(Selected(m.internal_col, m.col), v, x), Row)
           = Fill(Selected(m.internal_col, m.col), v, x)
<1> DEFINE d == Selected(m.internal_col, m.col)
           y == Stored(d, v, x)
<1>1. m.internal_col \in InternalCol /\ m.col \in APCollunm /\ 0 \in Row
  BY ColSizeAssumption DEF ModeReg, Row
<1>2. d \in Nat /\ d \in CamAddr
  BY <1>1, SelectedColumn
<1>3. y = [x EXCEPT ![d] = v] /\ y[d] = v /\ \A a \in CamAddr : a # d => y[a] = x[a]
  BY <1>2 DEF Stored, Memory
<1>4. Destination(c, m) = d
  BY DEF Destination
<1>5. \A r : RowResult(m, y, r) = v
  BY <1>3, ResultOf
<1>6. Computed(c, m, y, Row) = [a \in CamAddr |-> IF a - d \in Row THEN RowResult(m, y, a - d) ELSE y[a]]
  BY <1>4 DEF Computed
<1> HIDE DEF d, y
<1>7. ASSUME NEW a \in CamAddr, a - d \notin Row PROVE y[a] = x[a]
  <2>1. a \in Int /\ (a = d => a - d = 0)
    BY <1>2 DEF CamAddr
  <2>2. QED
    BY <1>1, <1>3, <1>7, <2>1
<1>8. QED
  BY <1>5, <1>6, <1>7 DEF Fill, d, y

-----------------------------------------------------------------------------
(* The promise's own operators, in the terms used here. *)

LEMMA Addresses ==
  /\ \A col \in APCollunm : Selected(LEFT, col) = CamBase(col, 0)
  /\ \A col \in APCollunm : Selected(RIGHT, col) = CamBase(col, 1)
  /\ \A col \in APCollunm : VectorBase(col, LEFT) = CamBase(col, 0)
  /\ LEFT # RIGHT /\ LEFT # 1
<1>1. ASSUME NEW col \in APCollunm
      PROVE  Half(LEFT, col) = 0 /\ Half(RIGHT, col) = 1
  <2>1. CASE col = 0
    BY <2>1 DEF Half, LEFT, RIGHT, CAM_A
  <2>2. CASE col = 1
    BY <2>2 DEF Half, LEFT, RIGHT, CAM_A, CAM_B
  <2>3. CASE col = 2
    BY <2>3 DEF Half, LEFT, RIGHT, CAM_A, CAM_B, CAM_C
  <2>4. QED
    BY <2>1, <2>2, <2>3 DEF APCollunm, CAM_A, CAM_C
<1>2. \A col \in APCollunm : VectorBase(col, LEFT) = CamBase(col, 0)
  BY DEF VectorBase, CamBase, LEFT
<1>3. QED
  BY <1>1, <1>2 DEF Selected, LEFT, RIGHT

LEMMA PromiseIs ==
  /\ \A col, h : Promise!CamBase(col, h) = CamBase(col, h)
  /\ \A v, x : \A col \in APCollunm, h \in {0, 1} :
       Promise!Filled(col, h, v, x) = Fill(CamBase(col, h), v, x)
  /\ \A base, V, x : Promise!Written(base, V, x) = Put(base, V, x)
  /\ \A to, from, n, x : Promise!Moved(to, from, n, x) = Shift(to, from, n, x)
  /\ \A op, i, t, x : Promise!Operated(op, i, t, x)
       = Computed(set_control_reg(STATIC, t, TRUE, {}), set_mode_reg(i, CAM_A, HORIZONTAL, op), x, Row)
<1>1. \A col, h : Promise!CamBase(col, h) = CamBase(col, h)
  BY DEF Promise!CamBase, CamBase
<1>2. Promise!CamAddr = CamAddr /\ Promise!Row = Row
  BY DEF Promise!CamAddr, CamAddr, Promise!Row, Row
<1>3. ASSUME NEW col \in APCollunm, NEW h \in {0, 1}, NEW v, NEW x
      PROVE  Promise!Filled(col, h, v, x) = Fill(CamBase(col, h), v, x)
  <2>1. CamBase(col, h) \in Nat
    BY BaseIsAddress
  <2>2. ASSUME NEW a \in CamAddr
        PROVE  a \in Promise!Column(col, h) <=> a - CamBase(col, h) \in Row
    <3>1. a \in Int
      BY DEF CamAddr
    <3>2. Promise!Column(col, h) = {CamBase(col, h) + r : r \in Row}
      BY <1>1, <1>2 DEF Promise!Column
    <3>3. \A r \in Row : r \in Int
      BY DEF Row
    <3>4. QED
      BY <2>1, <3>1, <3>2, <3>3
  <2>3. QED
    BY <1>2, <2>2 DEF Promise!Filled, Fill
<1>4. ASSUME NEW base, NEW V, NEW x PROVE Promise!Written(base, V, x) = Put(base, V, x)
  BY <1>2 DEF Promise!Written, Put
<1>5. ASSUME NEW to, NEW from, NEW n, NEW x PROVE Promise!Moved(to, from, n, x) = Shift(to, from, n, x)
  BY <1>2 DEF Promise!Moved, Shift
<1>6. ASSUME NEW op, NEW i, NEW t, NEW x
      PROVE  Promise!Operated(op, i, t, x)
               = Computed(set_control_reg(STATIC, t, TRUE, {}),
                          set_mode_reg(i, CAM_A, HORIZONTAL, op), x, Row)
  <2> DEFINE c == set_control_reg(STATIC, t, TRUE, {})
             m == set_mode_reg(i, CAM_A, HORIZONTAL, op)
  <2>1. \A j, col : Promise!Selected(j, col) = Selected(j, col)
    BY <1>1 DEF Promise!Selected, Selected, Promise!Half, Half, Promise!CAM_A, CAM_A,
       Promise!CAM_B, CAM_B, Promise!CAM_C, CAM_C
  <2>2. Promise!Destination(c, m) = Destination(c, m)
    BY <2>1 DEF Promise!Destination, Destination, Promise!SET, SET, Promise!TARGET_A, TARGET_A,
       Promise!CAM_A, CAM_A, Promise!CAM_C, CAM_C
  <2>3. \A r : Promise!RowResult(m, x, r) = RowResult(m, x, r)
    BY <2>1 DEF Promise!RowResult, RowResult, Promise!SET, SET, Promise!CAM_A, CAM_A,
       Promise!CAM_C, CAM_C, Promise!CAM_B, CAM_B, Promise!OR, OR, Promise!MULT, MULT,
       Promise!SEARCH, SEARCH, Promise!ADD_D, ADD_D
  <2>4. c = Promise!set_control_reg(Promise!STATIC, t, TRUE, {})
    BY DEF set_control_reg, Promise!set_control_reg, STATIC, Promise!STATIC
  <2>5. m = Promise!set_mode_reg(i, Promise!CAM_A, Promise!HORIZONTAL, op)
    BY DEF set_mode_reg, Promise!set_mode_reg, CAM_A, Promise!CAM_A, HORIZONTAL, Promise!HORIZONTAL
  <2> HIDE DEF c, m
  <2>6. Promise!Computed(c, m, x, Row) = Computed(c, m, x, Row)
    BY <1>2, <2>2, <2>3 DEF Promise!Computed, Computed
  <2>7. QED
    BY <1>2, <2>4, <2>5, <2>6 DEF Promise!Operated, c, m
<1>7. QED
  BY <1>1, <1>3, <1>4, <1>5, <1>6

\* The bytes read back from the columns.
LEMMA PromiseBytes ==
  ASSUME NEW base, NEW n, NEW x, \A i \in 1 .. n : base + i - 1 \in CamAddr
  PROVE  Promise!Bytes(base, n, x) = Bytes(base, n, x)
  BY DEF Promise!Bytes, Bytes, Fetch

-----------------------------------------------------------------------------
(* The flushes, the engine reset and the start-up. *)

LEMMA FillIsMemory ==
  ASSUME NEW base, NEW v \in Byte, NEW x \in Memory
  PROVE  Fill(base, v, x) \in Memory
  BY DEF Fill, Memory

LEMMA FlushRuns ==
  ASSUME NEW exact \in BOOLEAN, NEW c \in ControlReg, NEW m \in ModeReg, NEW x \in Memory,
         NEW b \in Seq(Byte), NEW f \in BOOLEAN, NEW i \in InternalCol, NEW col \in APCollunm
  PROVE  /\ Runs(exact, Flush(col, i), Idle(c, m, x, b, f),
                 Idle(Released, ModeZero, Fill(Selected(i, col), 0, x), b, FALSE))
         /\ Runs(exact,
                 << Control(STATIC, TARGET_C, FALSE, {}), Mode(i, col, HORIZONTAL, OR),
                    Control(STATIC, TARGET_C, FALSE, {col}), Control(STATIC, TARGET_C, FALSE, {}),
                    Release >>,
                 Idle(c, m, x, b, f),
                 Idle(Released, set_mode_reg(i, col, HORIZONTAL, OR),
                      Fill(Selected(i, col), 0, x), b, FALSE))
<1> DEFINE k == set_control_reg(STATIC, TARGET_C, FALSE, {col})
           y == Fill(Selected(i, col), 0, x)
<1>1. /\ {col} \in SUBSET Bits /\ OR \in APOperations /\ CAM_A \in APCollunm
      /\ 0 \in Byte
  BY ByteModAssumption DEF Bits, APCollunm, CAM_A, CAM_C, APOperations, OR, ADD_D, Byte
<1>2. k \in ControlReg /\ y \in Memory
  BY <1>1, RegisterValues, FillIsMemory
<1>3. \A e \in APCollunm : set_mode_reg(i, e, HORIZONTAL, OR) \in ModeReg
  BY <1>1, RegisterValues
<1>4. \A e \in APCollunm : Flushed({col}, set_mode_reg(i, e, HORIZONTAL, OR), x) = y
  BY FlushFills DEF set_mode_reg
<1>5. \A e \in APCollunm :
        Runs(exact,
             << Control(STATIC, TARGET_C, FALSE, {}), Mode(i, e, HORIZONTAL, OR),
                Control(STATIC, TARGET_C, FALSE, {col}) >>,
             Idle(c, m, x, b, f), Idle(k, set_mode_reg(i, e, HORIZONTAL, OR), y, b, FALSE))
  BY <1>4, PulseRuns
<1>6. /\ Control(STATIC, TARGET_C, FALSE, {}) \in Access /\ Control(STATIC, TARGET_C, FALSE, {col}) \in Access
      /\ Release \in Access /\ ZeroMode \in Access
      /\ \A e \in APCollunm : Mode(i, e, HORIZONTAL, OR) \in Access
  BY <1>1, RegisterAccess
<1> HIDE DEF k, y
<1>7. \A e \in APCollunm :
        /\ Runs(exact, << Release, ZeroMode >>, Idle(k, set_mode_reg(i, e, HORIZONTAL, OR), y, b, FALSE),
                Idle(Released, ModeZero, y, b, FALSE))
        /\ Runs(exact, << Control(STATIC, TARGET_C, FALSE, {}), Release >>,
                Idle(k, set_mode_reg(i, e, HORIZONTAL, OR), y, b, FALSE),
                Idle(Released, set_mode_reg(i, e, HORIZONTAL, OR), y, b, FALSE))
  BY <1>2, <1>3, RestoreRuns
<1>8. Runs(exact, Flush(col, i), Idle(c, m, x, b, f), Idle(Released, ModeZero, y, b, FALSE))
  BY <1>1, <1>5, <1>6, <1>7, RunsFive DEF Flush
<1>9. Runs(exact,
           << Control(STATIC, TARGET_C, FALSE, {}), Mode(i, col, HORIZONTAL, OR),
              Control(STATIC, TARGET_C, FALSE, {col}), Control(STATIC, TARGET_C, FALSE, {}), Release >>,
           Idle(c, m, x, b, f), Idle(Released, set_mode_reg(i, col, HORIZONTAL, OR), y, b, FALSE))
  BY <1>5, <1>6, <1>7, RunsFive
<1>10. QED
  BY <1>8, <1>9 DEF y

\* The flush that selects before it locks; the engine reset.
LEMMA FlushCRuns ==
  ASSUME NEW exact \in BOOLEAN, NEW c \in ControlReg, NEW m \in ModeReg, NEW x \in Memory,
         NEW b \in Seq(Byte), NEW f \in BOOLEAN
  PROVE  Runs(exact,
              << ZeroMode, Control(STATIC, TARGET_C, FALSE, {}),
                 Control(STATIC, TARGET_C, FALSE, {CAM_C}), Release >>,
              Idle(c, m, x, b, f), Idle(Released, ModeZero, Fill(CamBase(CAM_C, 0), 0, x), b, FALSE))
<1> DEFINE c1 == set_control_reg(STATIC, TARGET_C, FALSE, {})
           c2 == set_control_reg(STATIC, TARGET_C, FALSE, {CAM_C})
           y == Fill(CamBase(CAM_C, 0), 0, x)
<1>1. {CAM_C} \in SUBSET Bits /\ CAM_C \in APCollunm /\ 0 \in Byte
  BY ByteModAssumption DEF Bits, APCollunm, CAM_A, CAM_C, Byte
<1>2. c1 \in ControlReg /\ c2 \in ControlReg /\ ModeZero \in ModeReg /\ Released \in ControlReg /\ y \in Memory
  BY <1>1, RegisterValues, FillIsMemory
<1>3. Flushed({CAM_C}, ModeZero, x) = y
  BY <1>1, FlushFills, Addresses DEF ModeZero, set_mode_reg
<1>4. /\ ZeroMode \in Access /\ Control(STATIC, TARGET_C, FALSE, {}) \in Access
      /\ Control(STATIC, TARGET_C, FALSE, {CAM_C}) \in Access /\ Release \in Access
  BY <1>1, RegisterAccess
<1> HIDE DEF c1, c2, y
<1>5. /\ Idle(c, m, x, b, f) \in State /\ Idle(c, ModeZero, x, b, f) \in State
      /\ Idle(c1, ModeZero, x, b, FALSE) \in State /\ Idle(c2, ModeZero, y, b, FALSE) \in State
      /\ Idle(Released, ModeZero, y, b, FALSE) \in State
  BY <1>2, StIsState
<1>6. Step(exact, ZeroMode, Idle(c, m, x, b, f), Idle(c, ModeZero, x, b, f))
  BY ModeStep
<1>7. Step(exact, Control(STATIC, TARGET_C, FALSE, {}), Idle(c, ModeZero, x, b, f),
           Idle(c1, ModeZero, x, b, FALSE))
  BY <1>2, ControlStep DEF c1
<1>8. Step(exact, Control(STATIC, TARGET_C, FALSE, {CAM_C}), Idle(c1, ModeZero, x, b, FALSE),
           Idle(c2, ModeZero, y, b, FALSE))
  BY <1>1, <1>2, <1>3, ControlStep DEF c2
<1>9. Step(exact, Release, Idle(c2, ModeZero, y, b, FALSE), Idle(Released, ModeZero, y, b, FALSE))
  BY <1>2, ControlStep
<1>10. QED
  BY <1>4, <1>5, <1>6, <1>7, <1>8, <1>9, RunsFour DEF y

LEMMA ResetRuns ==
  ASSUME NEW exact \in BOOLEAN, NEW c \in ControlReg, NEW m \in ModeReg, NEW x \in Memory,
         NEW b \in Seq(Byte), NEW f \in BOOLEAN
  PROVE  Runs(exact,
              << Control(STATIC, TARGET_C, FALSE, {3}), Control(STATIC, TARGET_C, FALSE, {}),
                 Release, ZeroMode >>,
              Idle(c, m, x, b, f), Idle(Released, ModeZero, x, b, FALSE))
<1> DEFINE c1 == set_control_reg(STATIC, TARGET_C, FALSE, {3})
           c2 == set_control_reg(STATIC, TARGET_C, FALSE, {})
<1>0. {} \in SUBSET Bits /\ {3} \in SUBSET Bits
  BY DEF Bits
<1>1. c1 \in ControlReg /\ c2 \in ControlReg /\ ModeZero \in ModeReg /\ Released \in ControlReg
  BY <1>0, RegisterValues
<1>2. /\ Control(STATIC, TARGET_C, FALSE, {3}) \in Access /\ Control(STATIC, TARGET_C, FALSE, {}) \in Access
      /\ Release \in Access /\ ZeroMode \in Access
  BY <1>0, RegisterAccess
<1> HIDE DEF c1, c2
<1>3. /\ Idle(c, m, x, b, f) \in State /\ Idle(c1, m, x, b, FALSE) \in State
      /\ Idle(c2, m, x, b, FALSE) \in State /\ Idle(Released, m, x, b, FALSE) \in State
      /\ Idle(Released, ModeZero, x, b, FALSE) \in State
  BY <1>1, StIsState
<1>4. Step(exact, Control(STATIC, TARGET_C, FALSE, {3}), Idle(c, m, x, b, f), Idle(c1, m, x, b, FALSE))
  BY ControlStep DEF c1
<1>5. Step(exact, Control(STATIC, TARGET_C, FALSE, {}), Idle(c1, m, x, b, FALSE), Idle(c2, m, x, b, FALSE))
  BY <1>1, ControlStep DEF c2
<1>6. Step(exact, Release, Idle(c2, m, x, b, FALSE), Idle(Released, m, x, b, FALSE))
  BY <1>1, ControlStep
<1>7. Step(exact, ZeroMode, Idle(Released, m, x, b, FALSE), Idle(Released, ModeZero, x, b, FALSE))
  BY <1>1, ModeStep
<1>8. QED
  BY <1>2, <1>3, <1>4, <1>5, <1>6, <1>7, RunsFour

\* Every address is in a column, and the start-up flushes both sides of every CAM.
LEMMA EveryAddress ==
  ASSUME NEW a \in CamAddr
  PROVE  \E col \in APCollunm, h \in {0, 1} : a - CamBase(col, h) \in Row
<1>1. AP_COL_SIZE \in Nat /\ AP_COL_SIZE > 0 /\ a \in Nat /\ a < 6 * AP_COL_SIZE
  BY ColSizeAssumption DEF CamAddr
<1>2. \A n \in {0, 1, 2} : CamBase(n, 0) = AP_COL_SIZE * 2 * n /\ CamBase(n, 1) = AP_COL_SIZE * 2 * n + AP_COL_SIZE
  BY <1>1 DEF CamBase
<1>3. /\ CamBase(0, 0) = 0 /\ CamBase(0, 1) = AP_COL_SIZE
      /\ CamBase(1, 0) = 2 * AP_COL_SIZE /\ CamBase(1, 1) = 3 * AP_COL_SIZE
      /\ CamBase(2, 0) = 4 * AP_COL_SIZE /\ CamBase(2, 1) = 5 * AP_COL_SIZE
  BY <1>1, <1>2
<1>4. 0 \in APCollunm /\ 1 \in APCollunm /\ 2 \in APCollunm
  BY DEF APCollunm, CAM_A, CAM_C
<1>5. \/ a - CamBase(0, 0) \in Row \/ a - CamBase(0, 1) \in Row
      \/ a - CamBase(1, 0) \in Row \/ a - CamBase(1, 1) \in Row
      \/ a - CamBase(2, 0) \in Row \/ a - CamBase(2, 1) \in Row
  BY <1>1, <1>3 DEF Row
<1>6. QED
  BY <1>4, <1>5

Blank == [a \in CamAddr |-> 0]

LEMMA BothSidesFlushed ==
  ASSUME NEW x \in Memory, NEW m \in ModeReg, NEW n \in ModeReg,
         m.internal_col = LEFT, n.internal_col = RIGHT
  PROVE  Flushed({0, 1, 2}, n, Flushed({0, 1, 2}, m, x)) = Blank
<1> DEFINE y == Flushed({0, 1, 2}, m, x)
<1>1. {0, 1, 2} \cap APCollunm = APCollunm
  BY DEF APCollunm, CAM_A, CAM_C
<1>2. ASSUME NEW a \in CamAddr, \A col \in APCollunm : a - CamBase(col, 1) \notin Row
      PROVE  y[a] = 0
  <2>1. \E col \in APCollunm : a - CamBase(col, 0) \in Row
    BY <1>2, EveryAddress
  <2>2. QED
    BY <1>1, <2>1, Addresses DEF Flushed
<1> HIDE DEF y
<1>3. Flushed({0, 1, 2}, n, y)
        = [a \in CamAddr |->
             IF \E col \in APCollunm : a - CamBase(col, 1) \in Row THEN 0 ELSE y[a]]
  BY <1>1, Addresses DEF Flushed
<1>4. QED
  BY <1>2, <1>3 DEF Blank, y

LEMMA WarmupRuns ==
  ASSUME NEW exact \in BOOLEAN, NEW c \in ControlReg, NEW m \in ModeReg, NEW x \in Memory,
         NEW b \in Seq(Byte), NEW f \in BOOLEAN
  PROVE  Blank \in Memory /\ Runs(exact, Warmup, Idle(c, m, x, b, f), Idle(Released, ModeZero, Blank, b, FALSE))
<1> DEFINE lock == set_control_reg(STATIC, TARGET_C, FALSE, {})
           flush == set_control_reg(STATIC, TARGET_C, FALSE, {0, 1, 2})
           reset == set_control_reg(STATIC, TARGET_C, FALSE, {3})
           right == set_mode_reg(RIGHT, CAM_A, HORIZONTAL, OR)
           Lock == Control(STATIC, TARGET_C, FALSE, {})
           FlushAll == Control(STATIC, TARGET_C, FALSE, {0, 1, 2})
           ResetAll == Control(STATIC, TARGET_C, FALSE, {3})
           ModeRight == Mode(RIGHT, CAM_A, HORIZONTAL, OR)
           y == Flushed({0, 1, 2}, ModeZero, x)
<1>1. /\ {} \in SUBSET Bits /\ {0, 1, 2} \in SUBSET Bits /\ {3} \in SUBSET Bits /\ RIGHT \in InternalCol /\ CAM_A \in APCollunm /\ OR \in APOperations
  BY DEF Bits, RIGHT, InternalCol, CAM_A, CAM_C, APCollunm, OR, ADD_D, APOperations
<1>2. /\ lock \in ControlReg /\ flush \in ControlReg /\ reset \in ControlReg /\ right \in ModeReg
      /\ Released \in ControlReg /\ ModeZero \in ModeReg
  BY <1>1, RegisterValues
<1>3. /\ Lock \in Access /\ FlushAll \in Access /\ ResetAll \in Access /\ ModeRight \in Access
      /\ Release \in Access /\ ZeroMode \in Access
  BY <1>1, RegisterAccess
<1>4. y \in Memory /\ Blank \in Memory
  BY FlushedIsMemory, ByteModAssumption DEF Blank, Memory, Byte
<1>5. Flushed({0, 1, 2}, right, y) = Blank
  BY <1>2, BothSidesFlushed DEF set_mode_reg, ModeZero
<1>6. ASSUME NEW k \in ControlReg, NEW n \in ModeReg, NEW z \in Memory, NEW g \in BOOLEAN
      PROVE  /\ Idle(k, n, z, b, g) \in State
             /\ Step(exact, Release, Idle(k, n, z, b, g), Idle(Released, n, z, b, FALSE))
             /\ Step(exact, ZeroMode, Idle(k, n, z, b, g), Idle(k, ModeZero, z, b, g))
             /\ Step(exact, Lock, Idle(k, n, z, b, g), Idle(lock, n, z, b, FALSE))
             /\ Step(exact, ResetAll, Idle(k, n, z, b, g), Idle(reset, n, z, b, FALSE))
             /\ Step(exact, FlushAll, Idle(k, n, z, b, g), Idle(flush, n, Flushed({0, 1, 2}, n, z), b, FALSE))
             /\ Step(exact, ModeRight, Idle(k, n, z, b, g), Idle(k, right, z, b, g))
  <2>1. Idle(k, n, z, b, g) \in State
    BY StIsState
  <2>2. /\ Step(exact, Release, Idle(k, n, z, b, g), Idle(Released, n, z, b, FALSE))
        /\ Step(exact, Lock, Idle(k, n, z, b, g), Idle(lock, n, z, b, FALSE))
        /\ Step(exact, ResetAll, Idle(k, n, z, b, g), Idle(reset, n, z, b, FALSE))
    BY ControlStep
  <2>3. Step(exact, FlushAll, Idle(k, n, z, b, g), Idle(flush, n, Flushed({0, 1, 2}, n, z), b, FALSE))
    BY <1>1, ControlStep
  <2>4. Step(exact, ZeroMode, Idle(k, n, z, b, g), Idle(k, ModeZero, z, b, g))
    BY ModeStep
  <2>5. Step(exact, ModeRight, Idle(k, n, z, b, g), Idle(k, right, z, b, g))
    BY <1>1, ModeStep
  <2>6. QED
    BY <2>1, <2>2, <2>3, <2>4, <2>5
<1> HIDE DEF lock, flush, reset, right, Lock, FlushAll, ResetAll, ModeRight, y
<1>7. Runs(exact, << Release, ZeroMode, Lock, FlushAll >>, Idle(c, m, x, b, f),
           Idle(flush, ModeZero, y, b, FALSE))
  <2>1. /\ Step(exact, Release, Idle(c, m, x, b, f), Idle(Released, m, x, b, FALSE))
        /\ Step(exact, ZeroMode, Idle(Released, m, x, b, FALSE), Idle(Released, ModeZero, x, b, FALSE))
        /\ Step(exact, Lock, Idle(Released, ModeZero, x, b, FALSE), Idle(lock, ModeZero, x, b, FALSE))
        /\ Step(exact, FlushAll, Idle(lock, ModeZero, x, b, FALSE), Idle(flush, ModeZero, y, b, FALSE))
    BY <1>2, <1>6 DEF y
  <2>2. /\ Idle(c, m, x, b, f) \in State /\ Idle(Released, m, x, b, FALSE) \in State
        /\ Idle(Released, ModeZero, x, b, FALSE) \in State /\ Idle(lock, ModeZero, x, b, FALSE) \in State
        /\ Idle(flush, ModeZero, y, b, FALSE) \in State
    BY <1>2, <1>4, <1>6
  <2>3. QED
    BY <1>3, <2>1, <2>2, RunsFour
<1>8. Runs(exact, << Lock, ResetAll, Lock, ModeRight >>, Idle(flush, ModeZero, y, b, FALSE),
           Idle(lock, right, y, b, FALSE))
  <2>1. /\ Step(exact, Lock, Idle(flush, ModeZero, y, b, FALSE), Idle(lock, ModeZero, y, b, FALSE))
        /\ Step(exact, ResetAll, Idle(lock, ModeZero, y, b, FALSE), Idle(reset, ModeZero, y, b, FALSE))
        /\ Step(exact, Lock, Idle(reset, ModeZero, y, b, FALSE), Idle(lock, ModeZero, y, b, FALSE))
        /\ Step(exact, ModeRight, Idle(lock, ModeZero, y, b, FALSE), Idle(lock, right, y, b, FALSE))
    BY <1>2, <1>4, <1>6
  <2>2. /\ Idle(flush, ModeZero, y, b, FALSE) \in State /\ Idle(lock, ModeZero, y, b, FALSE) \in State
        /\ Idle(reset, ModeZero, y, b, FALSE) \in State /\ Idle(lock, right, y, b, FALSE) \in State
    BY <1>2, <1>4, <1>6
  <2>3. QED
    BY <1>3, <2>1, <2>2, RunsFour
<1>9. Runs(exact, << FlushAll, Lock, Release, ZeroMode >>, Idle(lock, right, y, b, FALSE),
           Idle(Released, ModeZero, Blank, b, FALSE))
  <2>1. /\ Step(exact, FlushAll, Idle(lock, right, y, b, FALSE), Idle(flush, right, Blank, b, FALSE))
        /\ Step(exact, Lock, Idle(flush, right, Blank, b, FALSE), Idle(lock, right, Blank, b, FALSE))
        /\ Step(exact, Release, Idle(lock, right, Blank, b, FALSE), Idle(Released, right, Blank, b, FALSE))
        /\ Step(exact, ZeroMode, Idle(Released, right, Blank, b, FALSE), Idle(Released, ModeZero, Blank, b, FALSE))
    BY <1>2, <1>4, <1>5, <1>6
  <2>2. /\ Idle(lock, right, y, b, FALSE) \in State /\ Idle(flush, right, Blank, b, FALSE) \in State
        /\ Idle(lock, right, Blank, b, FALSE) \in State /\ Idle(Released, right, Blank, b, FALSE) \in State
        /\ Idle(Released, ModeZero, Blank, b, FALSE) \in State
    BY <1>2, <1>4, <1>6
  <2>3. QED
    BY <1>3, <2>1, <2>2, RunsFour
<1>10. Runs(exact, << Release, ZeroMode, Lock, FlushAll, Lock, ResetAll, Lock, ModeRight,
                      FlushAll, Lock, Release, ZeroMode >>,
            Idle(c, m, x, b, f), Idle(Released, ModeZero, Blank, b, FALSE))
  BY <1>3, <1>7, <1>8, <1>9, RunsTwelve
<1>11. QED
  BY <1>4, <1>10 DEF Warmup, Lock, FlushAll, ResetAll, ModeRight

-----------------------------------------------------------------------------
(* What the promise says of each function. *)

LEMMA SideIs ==
  /\ Promise!Side(LEFT) = 0 /\ Promise!Side(RIGHT) = 1 /\ Promise!Side(1) = 1
  /\ \A i \in {LEFT, RIGHT}, col \in APCollunm : Selected(i, col) = CamBase(col, Promise!Side(i))
  /\ \A i : Promise!Side(i) \in {0, 1}
<1>1. /\ Promise!Side(LEFT) = 0 /\ Promise!Side(RIGHT) = 1 /\ Promise!Side(1) = 1
      /\ \A i : Promise!Side(i) \in {0, 1}
  BY DEF Promise!Side, Promise!LEFT, LEFT, RIGHT
<1>2. QED
  BY <1>1, Addresses

LEMMA EffectOfMoves ==
  ASSUME NEW c, NEW x
  PROVE  /\ c.fn = "ap_write_vector" =>
              Promise!Effect(c, x) = IF Len(c.V) > AP_COL_SIZE THEN x
                                     ELSE Put(CamBase(c.col, Promise!Side(c.internal_col)), c.V, x)
         /\ c.fn = "ap_read_vector" => Promise!Effect(c, x) = x
         /\ c.fn = "ap_memcpy_in" => Promise!Effect(c, x) = Put(c.to, c.V, x)
         /\ c.fn = "ap_memcpy_out" => Promise!Effect(c, x) = x
         /\ c.fn = "ap_memcpy" => Promise!Effect(c, x) = Shift(c.to, c.from, c.bytes, x)
<1>1. ASSUME c.fn = "ap_write_vector"
      PROVE  Promise!Effect(c, x) = IF Len(c.V) > AP_COL_SIZE THEN x
               ELSE Promise!Written(Promise!CamBase(c.col, Promise!Side(c.internal_col)), c.V, x)
  BY <1>1 DEF Promise!Effect
<1>2. ASSUME c.fn = "ap_memcpy_in" PROVE Promise!Effect(c, x) = Promise!Written(c.to, c.V, x)
  BY <1>2 DEF Promise!Effect
<1>3. ASSUME c.fn = "ap_memcpy"
      PROVE  Promise!Effect(c, x) = Promise!Moved(c.to, c.from, c.bytes, x)
  BY <1>3 DEF Promise!Effect
<1>4. ASSUME c.fn \in {"ap_read_vector", "ap_memcpy_out"} PROVE Promise!Effect(c, x) = x
  BY <1>4 DEF Promise!Effect
<1>5. QED
  BY <1>1, <1>2, <1>3, <1>4, PromiseIs

LEMMA EffectOfResets ==
  ASSUME NEW c, NEW x
  PROVE  /\ c.fn = "warmup_ap" => Promise!Effect(c, x) = Blank
         /\ c.fn = "reset_ap_engine" => Promise!Effect(c, x) = x
         /\ c.fn = "release_ap_if" => Promise!Effect(c, x) = x
         /\ c.fn = "ap_flush_a_1" => Promise!Effect(c, x) = Fill(CamBase(CAM_A, 1), 0, x)
         /\ c.fn = "ap_flush_b_0" => Promise!Effect(c, x) = Fill(CamBase(CAM_B, 0), 0, x)
         /\ c.fn = "ap_flush_b_1" => Promise!Effect(c, x) = Fill(CamBase(CAM_B, 1), 0, x)
         /\ c.fn = "ap_flush_c_0" => Promise!Effect(c, x) = Fill(CamBase(CAM_C, 0), 0, x)
         /\ c.fn = "ap_flush_c_1" => Promise!Effect(c, x) = Fill(CamBase(CAM_C, 1), 0, x)
         /\ c.fn = "ap_flush_col" /\ c.col \in APCollunm =>
              Promise!Effect(c, x) = Fill(CamBase(c.col, Promise!Side(c.internal_col)), 0, x)
<1>1. CAM_A \in APCollunm /\ CAM_B \in APCollunm /\ CAM_C \in APCollunm
  BY Parameters
<1>2. ASSUME c.fn = "warmup_ap" PROVE Promise!Effect(c, x) = Blank
  <2>1. Promise!Effect(c, x) = [a \in Promise!CamAddr |-> 0]
    BY <1>2 DEF Promise!Effect
  <2>2. QED
    BY <2>1 DEF Promise!CamAddr, CamAddr, Blank
<1>3. ASSUME c.fn \in {"reset_ap_engine", "release_ap_if"} PROVE Promise!Effect(c, x) = x
  BY <1>3 DEF Promise!Effect
<1>4. ASSUME c.fn = "ap_flush_a_1" PROVE Promise!Effect(c, x) = Promise!Filled(CAM_A, 1, 0, x)
  BY <1>4 DEF Promise!Effect, Promise!CAM_A, CAM_A
<1>5. ASSUME c.fn = "ap_flush_b_0" PROVE Promise!Effect(c, x) = Promise!Filled(CAM_B, 0, 0, x)
  BY <1>5 DEF Promise!Effect, Promise!CAM_B, CAM_B
<1>6. ASSUME c.fn = "ap_flush_b_1" PROVE Promise!Effect(c, x) = Promise!Filled(CAM_B, 1, 0, x)
  BY <1>6 DEF Promise!Effect, Promise!CAM_B, CAM_B
<1>7. ASSUME c.fn = "ap_flush_c_0" PROVE Promise!Effect(c, x) = Promise!Filled(CAM_C, 0, 0, x)
  BY <1>7 DEF Promise!Effect, Promise!CAM_C, CAM_C
<1>8. ASSUME c.fn = "ap_flush_c_1" PROVE Promise!Effect(c, x) = Promise!Filled(CAM_C, 1, 0, x)
  BY <1>8 DEF Promise!Effect, Promise!CAM_C, CAM_C
<1>9. ASSUME c.fn = "ap_flush_col"
      PROVE  Promise!Effect(c, x) = Promise!Filled(c.col, Promise!Side(c.internal_col), 0, x)
  BY <1>9 DEF Promise!Effect
<1>10. QED
  BY <1>1, <1>2, <1>3, <1>4, <1>5, <1>6, <1>7, <1>8, <1>9, PromiseIs, SideIs

\* One horizontal command over the selected columns, from CAM A on.
Operate(op, i, t, x) ==
  Computed(set_control_reg(STATIC, t, TRUE, {}), set_mode_reg(i, CAM_A, HORIZONTAL, op), x, Row)

LEMMA EffectOfCommands ==
  ASSUME NEW c, NEW x
  PROVE  /\ c.fn = "ap_trigger_computing_w_wait" =>
              Promise!Effect(c, x) = Operate(c.op, c.internal_col, TARGET_C, x)
         /\ c.fn = "ap_trigger_computing_w_wait_target_a" =>
              Promise!Effect(c, x) = Operate(c.op, c.internal_col, TARGET_A, x)
         /\ c.fn = "ap_trigger_computing" =>
              Promise!Effect(c, x) = Operate(c.op, c.internal_col, c.target, x)
         /\ c.fn = "ap_computing_horizontal_test" =>
              Promise!Effect(c, x)
                = Operate(c.op, c.internal_col, TARGET_C,
                          Put(CamBase(CAM_B, Promise!Side(c.internal_col)), c.B,
                              Put(CamBase(CAM_A, Promise!Side(c.internal_col)), c.A, x)))
         /\ c.fn = "op_target_setup" =>
              Promise!Effect(c, x)
                = Operate(ADD, 1, TARGET_A,
                          Put(CamBase(CAM_C, 1), c.V, Put(CamBase(CAM_B, 1), c.V, x)))
         /\ c.fn = "ap_set_value" /\ c.col \in APCollunm =>
              Promise!Effect(c, x) = Fill(CamBase(c.col, Promise!Side(c.internal_col)), c.value, x)
         /\ c.fn = "ap_set_value_cam_a_left" =>
              Promise!Effect(c, x) = Fill(CamBase(CAM_A, 0), c.value, x)
         /\ c.fn = "ap_search" =>
              Promise!Effect(c, x)
                = Operate(SEARCH, c.internal_col, c.target,
                          Put(CamBase(CAM_B, Promise!Side(c.internal_col)), << c.value >>, x))
<1>1. /\ Promise!TARGET_C = TARGET_C /\ Promise!TARGET_A = TARGET_A /\ Promise!CAM_A = CAM_A
      /\ Promise!CAM_B = CAM_B /\ Promise!CAM_C = CAM_C /\ Promise!ADD = ADD /\ Promise!SEARCH = SEARCH
  BY DEF Promise!TARGET_C, TARGET_C, Promise!TARGET_A, TARGET_A, Promise!CAM_A, CAM_A,
         Promise!CAM_B, CAM_B, Promise!CAM_C, CAM_C, Promise!ADD, ADD, Promise!SEARCH, SEARCH
<1>2. CAM_A \in APCollunm
  BY Parameters
<1>3. ASSUME c.fn = "ap_trigger_computing_w_wait"
      PROVE  Promise!Effect(c, x) = Promise!Operated(c.op, c.internal_col, Promise!TARGET_C, x)
  BY <1>3 DEF Promise!Effect
<1>4. ASSUME c.fn = "ap_trigger_computing_w_wait_target_a"
      PROVE  Promise!Effect(c, x) = Promise!Operated(c.op, c.internal_col, Promise!TARGET_A, x)
  BY <1>4 DEF Promise!Effect
<1>5. ASSUME c.fn = "ap_trigger_computing"
      PROVE  Promise!Effect(c, x) = Promise!Operated(c.op, c.internal_col, c.target, x)
  BY <1>5 DEF Promise!Effect
<1>6. ASSUME c.fn = "ap_computing_horizontal_test"
      PROVE  Promise!Effect(c, x)
               = Promise!Operated(c.op, c.internal_col, Promise!TARGET_C,
                   Promise!Written(Promise!CamBase(Promise!CAM_B, Promise!Side(c.internal_col)), c.B,
                     Promise!Written(Promise!CamBase(Promise!CAM_A, Promise!Side(c.internal_col)), c.A, x)))
  BY <1>6 DEF Promise!Effect
<1>7. ASSUME c.fn = "op_target_setup"
      PROVE  Promise!Effect(c, x)
               = Promise!Operated(Promise!ADD, 1, Promise!TARGET_A,
                   Promise!Written(Promise!CamBase(Promise!CAM_C, 1), c.V,
                     Promise!Written(Promise!CamBase(Promise!CAM_B, 1), c.V, x)))
  BY <1>7 DEF Promise!Effect
<1>8. ASSUME c.fn = "ap_set_value"
      PROVE  Promise!Effect(c, x) = Promise!Filled(c.col, Promise!Side(c.internal_col), c.value, x)
  BY <1>8 DEF Promise!Effect
<1>9. ASSUME c.fn = "ap_set_value_cam_a_left"
      PROVE  Promise!Effect(c, x) = Promise!Filled(Promise!CAM_A, 0, c.value, x)
  BY <1>9 DEF Promise!Effect
<1>10. ASSUME c.fn = "ap_search"
       PROVE  Promise!Effect(c, x)
                = Promise!Operated(Promise!SEARCH, c.internal_col, c.target,
                    Promise!Written(Promise!CamBase(Promise!CAM_B, Promise!Side(c.internal_col)),
                                    << c.value >>, x))
  BY <1>10 DEF Promise!Effect
<1>11. \A op, i, t, z : Promise!Operated(op, i, t, z) = Operate(op, i, t, z)
  BY PromiseIs DEF Operate
<1>12. QED
  BY <1>1, <1>2, <1>3, <1>4, <1>5, <1>6, <1>7, <1>8, <1>9, <1>10, <1>11, PromiseIs, SideIs

\* The bytes a call hands back.
Loading == {"ap_read_vector", "ap_memcpy_out", "ap_computing_horizontal_test"}

LEMMA OutputOf ==
  ASSUME NEW c, NEW x
  PROVE  /\ c.fn \notin Loading => Promise!Output(c, x) = << >>
         /\ c.fn = "ap_read_vector" =>
              Promise!Output(c, x)
                = IF c.size > AP_COL_SIZE THEN << >>
                  ELSE Promise!Bytes(CamBase(c.col, Promise!Side(c.internal_col)), c.size, x)
         /\ c.fn = "ap_memcpy_out" => Promise!Output(c, x) = Promise!Bytes(c.from, c.bytes, x)
         /\ c.fn = "ap_computing_horizontal_test" =>
              Promise!Output(c, x) = Promise!Bytes(CamBase(CAM_C, 0), AP_COL_SIZE, Promise!Effect(c, x))
<1>1. ASSUME c.fn \notin Loading PROVE Promise!Output(c, x) = << >>
  BY <1>1 DEF Promise!Output, Loading
<1>2. ASSUME c.fn = "ap_read_vector"
      PROVE  Promise!Output(c, x)
               = IF c.size > AP_COL_SIZE THEN << >>
                 ELSE Promise!Bytes(Promise!CamBase(c.col, Promise!Side(c.internal_col)), c.size, x)
  BY <1>2 DEF Promise!Output
<1>3. ASSUME c.fn = "ap_memcpy_out" PROVE Promise!Output(c, x) = Promise!Bytes(c.from, c.bytes, x)
  BY <1>3 DEF Promise!Output
<1>4. ASSUME c.fn = "ap_computing_horizontal_test"
      PROVE  Promise!Output(c, x)
               = Promise!Bytes(Promise!CamBase(Promise!CAM_C, 0), AP_COL_SIZE, Promise!Effect(c, x))
  BY <1>4 DEF Promise!Output
<1>5. Promise!CAM_C = CAM_C
  BY DEF Promise!CAM_C, CAM_C
<1>6. QED
  BY <1>1, <1>2, <1>3, <1>4, <1>5, PromiseIs

-----------------------------------------------------------------------------
(* Every function keeps its promise on the sequential machine. *)

\* The functions that scale internal_col itself into an address, which is right
\* for LEFT; the calls whose effect is promised; the two that reset the engine.
Scaling == {"ap_write_vector", "ap_read_vector", "ap_set_value", "ap_computing_horizontal_test",
            "ap_search"}
Kept(c) == c.fn \notin VerticalFns /\ (c.fn \in Scaling => c.internal_col = LEFT)
Restarts == {"warmup_ap", "reset_ap_engine"}

\* From registers c0 and m0, columns x and flag f, program s ends idle; with the
\* promised columns and bytes if they are claimed; and released, if it resets the
\* engine or began released. (ap_search does not release.)
Outcome(c, s, exact, c0, m0, x, f) ==
  \E c1 \in ControlReg, m1 \in ModeReg, y \in Memory, b \in Seq(Byte), g \in BOOLEAN :
    /\ Runs(exact, s, Idle(c0, m0, x, << >>, f), Idle(c1, m1, y, b, g))
    /\ exact => y = Promise!Effect(c, x) /\ b = Promise!Output(c, x)
    /\ c.fn # "ap_search" /\ (c.fn \in Restarts \/ (c0 = Released /\ ~ f)) =>
         c1 = Released /\ ~ g

\* Only register writes that do not trigger, one of them resetting the engine.
Restarting(s) ==
  /\ \A i \in 1 .. Len(s) : s[i].kind \in {"control", "mode"} /\ ~ Triggers(s[i])
  /\ \E i \in 1 .. Len(s) : s[i].kind = "control" /\ 3 \in s[i].control.rst

Does(c, s) ==
  /\ s \in Seq(Access)
  /\ c.fn # "none"
  /\ c.fn \in Restarts => Restarting(s)
  /\ \A exact \in BOOLEAN, c0 \in ControlReg, m0 \in ModeReg, x \in Memory, f \in BOOLEAN :
       (exact => Kept(c)) => Outcome(c, s, exact, c0, m0, x, f)

\* A function is shown to do its work by its run from an arbitrary idle state.
LEMMA DoesByRun ==
  ASSUME NEW c, NEW s \in Seq(Access), c.fn # "none", c.fn \notin Restarts,
         \A exact \in BOOLEAN, c0 \in ControlReg, m0 \in ModeReg, x \in Memory, f \in BOOLEAN :
           (exact => Kept(c)) => Outcome(c, s, exact, c0, m0, x, f)
  PROVE  Does(c, s)
  BY DEF Does

LEMMA OutcomeIs ==
  ASSUME NEW c, NEW s, NEW exact \in BOOLEAN, NEW c0 \in ControlReg, NEW m0 \in ModeReg,
         NEW x \in Memory, NEW f \in BOOLEAN,
         NEW c1 \in ControlReg, NEW m1 \in ModeReg, NEW y \in Memory, NEW b \in Seq(Byte),
         NEW g \in BOOLEAN,
         Runs(exact, s, Idle(c0, m0, x, << >>, f), Idle(c1, m1, y, b, g)),
         exact => y = Promise!Effect(c, x) /\ b = Promise!Output(c, x),
         c.fn # "ap_search" /\ (c.fn \in Restarts \/ (c0 = Released /\ ~ f)) => c1 = Released /\ ~ g
  PROVE  Outcome(c, s, exact, c0, m0, x, f)
  BY DEF Outcome

\* The same for the calls that hand back no bytes and leave no lock behind.
LEMMA SilentOutcome ==
  ASSUME NEW c, NEW s, NEW exact \in BOOLEAN, NEW c0 \in ControlReg, NEW m0 \in ModeReg,
         NEW x \in Memory, NEW f \in BOOLEAN,
         NEW c1 \in ControlReg, NEW m1 \in ModeReg, NEW y \in Memory, NEW g \in BOOLEAN,
         Runs(exact, s, Idle(c0, m0, x, << >>, f), Idle(c1, m1, y, << >>, g)),
         exact => y = Promise!Effect(c, x), c.fn \notin Loading, c.fn \notin Restarts,
         c0 = Released /\ ~ f => c1 = Released /\ ~ g
  PROVE  Outcome(c, s, exact, c0, m0, x, f)
<1> DEFINE b == << >>
<1>1. b \in Seq(Byte) /\ b = Promise!Output(c, x)
  BY OutputOf
<1>2. Runs(exact, s, Idle(c0, m0, x, << >>, f), Idle(c1, m1, y, b, g))
  OBVIOUS
<1> HIDE DEF b
<1>3. QED
  BY <1>1, <1>2, OutcomeIs

\* The calls that end released.
LEMMA ReleasedOutcome ==
  ASSUME NEW c, NEW s, NEW exact \in BOOLEAN, NEW c0 \in ControlReg, NEW m0 \in ModeReg,
         NEW x \in Memory, NEW f \in BOOLEAN, NEW m1 \in ModeReg, NEW y \in Memory, NEW b \in Seq(Byte),
         Runs(exact, s, Idle(c0, m0, x, << >>, f), Idle(Released, m1, y, b, FALSE)),
         exact => y = Promise!Effect(c, x) /\ b = Promise!Output(c, x)
  PROVE  Outcome(c, s, exact, c0, m0, x, f)
<1> DEFINE g == FALSE
           k == Released
<1>1. g \in BOOLEAN /\ ~ g /\ k \in ControlReg /\ k = Released
  BY RegisterValues
<1>2. Runs(exact, s, Idle(c0, m0, x, << >>, f), Idle(k, m1, y, b, g))
  OBVIOUS
<1> HIDE DEF g, k
<1>3. QED
  BY <1>1, <1>2, OutcomeIs

LEMMA SilentReleasedOutcome ==
  ASSUME NEW c, NEW s, NEW exact \in BOOLEAN, NEW c0 \in ControlReg, NEW m0 \in ModeReg,
         NEW x \in Memory, NEW f \in BOOLEAN, NEW m1 \in ModeReg, NEW y \in Memory,
         Runs(exact, s, Idle(c0, m0, x, << >>, f), Idle(Released, m1, y, << >>, FALSE)),
         exact => y = Promise!Effect(c, x), c.fn \notin Loading
  PROVE  Outcome(c, s, exact, c0, m0, x, f)
<1> DEFINE b == << >>
<1>1. b \in Seq(Byte) /\ b = Promise!Output(c, x)
  BY OutputOf
<1>2. Runs(exact, s, Idle(c0, m0, x, << >>, f), Idle(Released, m1, y, b, FALSE))
  OBVIOUS
<1> HIDE DEF b
<1>3. QED
  BY <1>1, <1>2, ReleasedOutcome

LEMMA EmptyRuns ==
  ASSUME NEW exact \in BOOLEAN, NEW c \in ControlReg, NEW m \in ModeReg, NEW x \in Memory,
         NEW b \in Seq(Byte), NEW f \in BOOLEAN
  PROVE  Runs(exact, << >>, Idle(c, m, x, b, f), Idle(c, m, x, b, f))
  BY StIsState, RunsEmpty

LEMMA WriteVectorDoes ==
  ASSUME NEW col \in APCollunm, NEW i \in Columns, NEW V \in Vectors, NEW c,
         c = [fn |-> "ap_write_vector", col |-> col, internal_col |-> i, V |-> V]
  PROVE  Does(c, IF Len(V) > AP_COL_SIZE THEN << >> ELSE StoreVector(VectorBase(col, i), V))
<1> DEFINE s == IF Len(V) > AP_COL_SIZE THEN << >> ELSE StoreVector(VectorBase(col, i), V)
<1>1. /\ c.fn = "ap_write_vector" /\ c.col = col /\ c.internal_col = i /\ c.V = V
      /\ VectorBase(col, i) \in Nat /\ V \in Seq(Byte)
  BY VectorAddress, ColumnsAssumption, VectorsAssumption
<1>2. s \in Seq(Access)
  BY <1>1, StoreVectorIsSound
<1>3. ASSUME NEW exact \in BOOLEAN, NEW c0 \in ControlReg, NEW m0 \in ModeReg, NEW x \in Memory,
             NEW f \in BOOLEAN, exact => Kept(c)
      PROVE  Outcome(c, s, exact, c0, m0, x, f)
  <2> DEFINE y == IF Len(V) > AP_COL_SIZE THEN x ELSE Put(VectorBase(col, i), V, x)
  <2>1. y \in Memory /\ Runs(exact, s, Idle(c0, m0, x, << >>, f), Idle(c0, m0, y, << >>, f))
    <3>1. << >> \in Seq(Byte)
      OBVIOUS
    <3>2. CASE Len(V) > AP_COL_SIZE
      BY <3>1, <3>2, EmptyRuns
    <3>3. CASE ~ (Len(V) > AP_COL_SIZE)
      BY <1>1, <3>1, <3>3, StoreVectorRuns
    <3>4. QED
      BY <3>2, <3>3
  <2>2. c.fn \notin Loading /\ (exact => y = Promise!Effect(c, x))
    <3>1. c.fn \in Scaling /\ c.fn \notin Loading
      BY <1>1 DEF Scaling, Loading
    <3>2. exact => i = LEFT
      BY <1>1, <1>3, <3>1 DEF Kept
    <3>3. exact => VectorBase(col, i) = CamBase(c.col, Promise!Side(c.internal_col))
      BY <1>1, <3>2, Addresses, SideIs
    <3>4. QED
      BY <1>1, <3>1, <3>3, EffectOfMoves
  <2> HIDE DEF s, y
  <2>3. c.fn \notin Restarts
    BY <1>1 DEF Restarts
  <2>4. QED
    BY <2>1, <2>2, <2>3, SilentOutcome
<1>4. c.fn # "none" /\ c.fn \notin Restarts
  BY <1>1 DEF Restarts
<1> HIDE DEF s
<1>5. Does(c, s)
  BY <1>2, <1>3, <1>4, DoesByRun
<1>6. QED
  BY <1>5 DEF s

LEMMA ReadVectorDoes ==
  ASSUME NEW col \in APCollunm, NEW i \in Columns, NEW n \in {AP_COL_SIZE, AP_COL_SIZE + 1}, NEW c,
         c = [fn |-> "ap_read_vector", col |-> col, internal_col |-> i, size |-> n]
  PROVE  Does(c, IF n > AP_COL_SIZE THEN << >> ELSE LoadVector(VectorBase(col, i), n))
<1> DEFINE s == IF n > AP_COL_SIZE THEN << >> ELSE LoadVector(VectorBase(col, i), n)
<1>1. /\ c.fn = "ap_read_vector" /\ c.col = col /\ c.internal_col = i /\ c.size = n
      /\ VectorBase(col, i) \in Nat /\ n \in Nat /\ AP_COL_SIZE \in Nat
  BY VectorAddress, ColumnsAssumption, ColSizeAssumption
<1>2. s \in Seq(Access)
  BY <1>1, LoadVectorIsSound
<1>3. ASSUME NEW exact \in BOOLEAN, NEW c0 \in ControlReg, NEW m0 \in ModeReg, NEW x \in Memory,
             NEW f \in BOOLEAN, exact => Kept(c)
      PROVE  Outcome(c, s, exact, c0, m0, x, f)
  <2> DEFINE b == IF n > AP_COL_SIZE THEN << >> ELSE Bytes(VectorBase(col, i), n, x)
  <2>1. exact => VectorBase(col, i) = CamBase(c.col, Promise!Side(c.internal_col)) /\ i = LEFT
    <3>1. c.fn \in Scaling
      BY <1>1 DEF Scaling
    <3>2. exact => i = LEFT
      BY <1>1, <1>3, <3>1 DEF Kept
    <3>3. QED
      BY <1>1, <3>2, Addresses, SideIs
  <2>2. exact /\ ~ (n > AP_COL_SIZE) => \A j \in 1 .. n : VectorBase(col, i) + j - 1 \in CamAddr
    <3>1. ASSUME exact, ~ (n > AP_COL_SIZE), NEW j \in 1 .. n PROVE VectorBase(col, i) + j - 1 \in CamAddr
      <4>1. j - 1 \in Row /\ VectorBase(col, i) + j - 1 = VectorBase(col, i) + (j - 1)
        BY <1>1, <3>1 DEF Row
      <4>2. VectorBase(col, i) = CamBase(col, 0)
        BY <2>1, <3>1, Addresses
      <4>3. QED
        BY <4>1, <4>2, ColumnAddress
    <3>2. QED
      BY <3>1
  <2>3. b \in Seq(Byte) /\ Runs(exact, s, Idle(c0, m0, x, << >>, f), Idle(c0, m0, x, b, f))
    <3>1. << >> \in Seq(Byte)
      OBVIOUS
    <3>2. CASE n > AP_COL_SIZE
      BY <3>1, <3>2, EmptyRuns
    <3>3. CASE ~ (n > AP_COL_SIZE)
      BY <1>1, <2>2, <3>3, LoadVectorRuns
    <3>4. QED
      BY <3>2, <3>3
  <2>4. exact => x = Promise!Effect(c, x) /\ b = Promise!Output(c, x)
    <3>1. Promise!Effect(c, x) = x
      BY <1>1, EffectOfMoves
    <3>2. exact /\ ~ (n > AP_COL_SIZE) =>
            Promise!Bytes(VectorBase(col, i), n, x) = Bytes(VectorBase(col, i), n, x)
      BY <2>2, PromiseBytes
    <3>3. QED
      BY <1>1, <2>1, <3>1, <3>2, OutputOf
  <2> HIDE DEF s, b
  <2>5. c.fn \notin Restarts
    BY <1>1 DEF Restarts
  <2>6. QED
    BY <2>3, <2>4, <2>5, OutcomeIs
<1>4. c.fn # "none" /\ c.fn \notin Restarts
  BY <1>1 DEF Restarts
<1> HIDE DEF s
<1>5. Does(c, s)
  BY <1>2, <1>3, <1>4, DoesByRun
<1>6. QED
  BY <1>5 DEF s

LEMMA MemcpyInDoes ==
  ASSUME NEW to \in Bases, NEW V \in Vectors, NEW c, c = [fn |-> "ap_memcpy_in", to |-> to, V |-> V]
  PROVE  Does(c, StoreVector(to, V))
<1>1. c.fn = "ap_memcpy_in" /\ c.to = to /\ c.V = V /\ to \in Nat /\ V \in Seq(Byte)
  BY BaseIsAddress, VectorsAssumption
<1>2. c.fn # "none" /\ c.fn \notin Restarts /\ c.fn \notin Loading
  BY <1>1 DEF Restarts, Loading
<1>3. StoreVector(to, V) \in Seq(Access)
  BY <1>1, StoreVectorIsSound
<1>4. ASSUME NEW exact \in BOOLEAN, NEW c0 \in ControlReg, NEW m0 \in ModeReg, NEW x \in Memory,
             NEW f \in BOOLEAN
      PROVE  Outcome(c, StoreVector(to, V), exact, c0, m0, x, f)
  <2>1. << >> \in Seq(Byte)
    OBVIOUS
  <2>2. /\ Put(to, V, x) \in Memory
        /\ Runs(exact, StoreVector(to, V), Idle(c0, m0, x, << >>, f), Idle(c0, m0, Put(to, V, x), << >>, f))
    BY <1>1, <2>1, StoreVectorRuns
  <2>3. Put(to, V, x) = Promise!Effect(c, x)
    BY <1>1, EffectOfMoves
  <2>4. QED
    BY <1>2, <2>2, <2>3, SilentOutcome
<1>5. QED
  BY <1>2, <1>3, <1>4, DoesByRun

\* The addresses of a whole column.
LEMMA WholeColumn ==
  ASSUME NEW base \in Bases
  PROVE  \A j \in 1 .. AP_COL_SIZE : base + j - 1 \in CamAddr
<1>1. PICK col \in APCollunm, h \in {0, 1} : base = CamBase(col, h)
  BY DEF Bases
<1>2. base \in Nat /\ AP_COL_SIZE \in Nat
  BY BaseIsAddress, ColSizeAssumption
<1>3. \A j \in 1 .. AP_COL_SIZE : j - 1 \in Row /\ base + j - 1 = base + (j - 1)
  BY <1>2 DEF Row
<1>4. \A r \in Row : base + r \in CamAddr
  BY <1>1, ColumnAddress
<1>5. QED
  BY <1>3, <1>4

LEMMA MemcpyOutDoes ==
  ASSUME NEW from \in Bases, NEW n \in Nat, n = AP_COL_SIZE, NEW c,
         c = [fn |-> "ap_memcpy_out", from |-> from, bytes |-> n]
  PROVE  Does(c, LoadVector(from, n))
<1>1. c.fn = "ap_memcpy_out" /\ c.from = from /\ c.bytes = n /\ from \in Nat
  BY BaseIsAddress
<1>2. c.fn # "none" /\ c.fn \notin Restarts
  BY <1>1 DEF Restarts
<1>3. LoadVector(from, n) \in Seq(Access)
  BY <1>1, LoadVectorIsSound
<1>4. ASSUME NEW exact \in BOOLEAN, NEW c0 \in ControlReg, NEW m0 \in ModeReg, NEW x \in Memory,
             NEW f \in BOOLEAN
      PROVE  Outcome(c, LoadVector(from, n), exact, c0, m0, x, f)
  <2> DEFINE b == Bytes(from, n, x)
  <2>1. \A j \in 1 .. n : from + j - 1 \in CamAddr
    BY WholeColumn
  <2>2. /\ b \in Seq(Byte)
        /\ Runs(exact, LoadVector(from, n), Idle(c0, m0, x, << >>, f), Idle(c0, m0, x, b, f))
    BY <1>1, <2>1, LoadVectorRuns
  <2>3. x = Promise!Effect(c, x) /\ b = Promise!Output(c, x)
    <3>1. Promise!Effect(c, x) = x
      BY <1>1, EffectOfMoves
    <3>2. Promise!Output(c, x) = Promise!Bytes(from, n, x)
      BY <1>1, OutputOf
    <3>3. Promise!Bytes(from, n, x) = Bytes(from, n, x)
      BY <2>1, PromiseBytes
    <3>4. QED
      BY <3>1, <3>2, <3>3
  <2> HIDE DEF b
  <2>4. QED
    BY <1>2, <2>2, <2>3, OutcomeIs
<1>5. QED
  BY <1>2, <1>3, <1>4, DoesByRun

LEMMA MemcpyDoes ==
  ASSUME NEW to \in Bases, NEW from \in Bases, to # from, NEW c,
         c = [fn |-> "ap_memcpy", to |-> to, from |-> from, bytes |-> AP_COL_SIZE]
  PROVE  Does(c, [i \in 1 .. AP_COL_SIZE |-> Copy(to + i - 1, from + i - 1)])
<1> DEFINE s == [i \in 1 .. AP_COL_SIZE |-> Copy(to + i - 1, from + i - 1)]
<1>1. /\ c.fn = "ap_memcpy" /\ c.to = to /\ c.from = from /\ c.bytes = AP_COL_SIZE
      /\ to \in Nat /\ from \in Nat /\ AP_COL_SIZE \in Nat
  BY BaseIsAddress, ColSizeAssumption
<1>2. c.fn # "none" /\ c.fn \notin Restarts /\ c.fn \notin Loading
  BY <1>1 DEF Restarts, Loading
<1>3. s \in Seq(Access)
  BY <1>1, CopyIsSound
<1>4. to + AP_COL_SIZE <= from \/ from + AP_COL_SIZE <= to
  <2>1. PICK a \in APCollunm, g \in {0, 1} : to = CamBase(a, g)
    BY DEF Bases
  <2>2. PICK b \in APCollunm, h \in {0, 1} : from = CamBase(b, h)
    BY DEF Bases
  <2>3. SUFFICES ASSUME to + AP_COL_SIZE > from, from + AP_COL_SIZE > to
                 PROVE  FALSE
    BY <1>1
  <2>4. CASE to <= from
    <3>1. from - to \in Row /\ 0 \in Row /\ to + (from - to) = from + 0
      BY <1>1, <2>3, <2>4 DEF Row
    <3>2. QED
      BY <2>1, <2>2, <3>1, ColumnsApart
  <2>5. CASE from < to
    <3>1. to - from \in Row /\ 0 \in Row /\ from + (to - from) = to + 0
      BY <1>1, <2>3, <2>5 DEF Row
    <3>2. QED
      BY <2>1, <2>2, <3>1, ColumnsApart
  <2>6. QED
    BY <1>1, <2>4, <2>5
<1>5. ASSUME NEW exact \in BOOLEAN, NEW c0 \in ControlReg, NEW m0 \in ModeReg, NEW x \in Memory,
             NEW f \in BOOLEAN
      PROVE  Outcome(c, s, exact, c0, m0, x, f)
  <2> DEFINE y == Shift(to, from, AP_COL_SIZE, x)
  <2>1. << >> \in Seq(Byte)
    OBVIOUS
  <2>2. \A i \in 1 .. AP_COL_SIZE : to + i - 1 \in CamAddr /\ from + i - 1 \in CamAddr
    BY WholeColumn
  <2>3. y \in Memory /\ Runs(exact, s, Idle(c0, m0, x, << >>, f), Idle(c0, m0, y, << >>, f))
    BY <1>1, <1>4, <2>1, <2>2, CopiesRun
  <2>4. y = Promise!Effect(c, x)
    BY <1>1, EffectOfMoves
  <2> HIDE DEF s, y
  <2>5. QED
    BY <1>2, <2>3, <2>4, SilentOutcome
<1> HIDE DEF s
<1>6. Does(c, s)
  BY <1>2, <1>3, <1>5, DoesByRun
<1>7. QED
  BY <1>6 DEF s

-----------------------------------------------------------------------------
(* Reset: the functions that flush, reset and release. *)

\* Register writes that do not trigger.
Plain == {a \in Access : a.kind \in {"control", "mode"} /\ ~ Triggers(a)}

LEMMA PlainAccess ==
  /\ \A rst \in SUBSET Bits : Control(STATIC, TARGET_C, FALSE, rst) \in Plain
  /\ \A i \in InternalCol, col \in APCollunm : Mode(i, col, HORIZONTAL, OR) \in Plain
  /\ Release \in Plain /\ ZeroMode \in Plain
<1>1. OR \in APOperations
  BY DEF APOperations, OR, ADD_D
<1>2. QED
  BY <1>1, RegisterAccess DEF Plain, Triggers

LEMMA PlainIsAccess ==
  ASSUME NEW s \in Seq(Plain)
  PROVE  s \in Seq(Access)
  BY DEF Plain

LEMMA RestartingLiteral ==
  ASSUME NEW s \in Seq(Plain),
         \E i \in 1 .. Len(s) : s[i] = Control(STATIC, TARGET_C, FALSE, {3})
  PROVE  s \in Seq(Access) /\ Restarting(s)
<1>1. \E i \in 1 .. Len(s) : s[i].kind = "control" /\ 3 \in s[i].control.rst
  BY DEF Control, set_control_reg
<1>2. \A j \in 1 .. Len(s) : s[j] \in Plain
  BY ElementOfSeq
<1>3. s \in Seq(Access)
  BY PlainIsAccess
<1>4. QED
  BY <1>1, <1>2, <1>3 DEF Restarting, Plain

LEMMA WarmupDoes ==
  ASSUME NEW c, c = [fn |-> "warmup_ap"]
  PROVE  Does(c, Warmup)
<1>1. c.fn = "warmup_ap"
  OBVIOUS
<1>2. c.fn # "none" /\ c.fn # "ap_search" /\ c.fn \notin Loading
  BY <1>1 DEF Loading
<1>3. Warmup \in Seq(Access) /\ Restarting(Warmup)
  <2>1. {} \in SUBSET Bits /\ {0, 1, 2} \in SUBSET Bits /\ {3} \in SUBSET Bits
    BY DEF Bits
  <2>2. Mode(RIGHT, CAM_A, HORIZONTAL, OR) \in Plain
    BY PlainAccess, Parameters DEF RIGHT, InternalCol
  <2>3. /\ Control(STATIC, TARGET_C, FALSE, {}) \in Plain
        /\ Control(STATIC, TARGET_C, FALSE, {0, 1, 2}) \in Plain
        /\ Control(STATIC, TARGET_C, FALSE, {3}) \in Plain
        /\ Release \in Plain /\ ZeroMode \in Plain
    BY <2>1, PlainAccess
  <2>6. Warmup \in Seq(Plain)
    BY <2>2, <2>3, LongLiteral DEF Warmup
  <2>4. Len(Warmup) = 12 /\ Warmup[6] = Control(STATIC, TARGET_C, FALSE, {3})
    BY DEF Warmup
  <2>5. QED
    <3> DEFINE k == Control(STATIC, TARGET_C, FALSE, {3})
    <3>1. 6 \in 1 .. Len(Warmup) /\ Warmup[6] = k
      BY <2>4
    <3> HIDE DEF k
    <3>2. \E i \in 1 .. Len(Warmup) : Warmup[i] = k
      BY <3>1
    <3>3. QED
      BY <2>6, <3>2, RestartingLiteral DEF k
<1>4. ASSUME NEW exact \in BOOLEAN, NEW c0 \in ControlReg, NEW m0 \in ModeReg, NEW x \in Memory,
             NEW f \in BOOLEAN
      PROVE  Outcome(c, Warmup, exact, c0, m0, x, f)
  <2>1. << >> \in Seq(Byte) /\ Blank = Promise!Effect(c, x)
    BY <1>1, EffectOfResets
  <2>2. /\ Blank \in Memory
        /\ Runs(exact, Warmup, Idle(c0, m0, x, << >>, f), Idle(Released, ModeZero, Blank, << >>, FALSE))
    BY <2>1, WarmupRuns
  <2>3. QED
    BY <1>2, <2>1, <2>2, RegisterValues, SilentReleasedOutcome
<1>5. QED
  BY <1>2, <1>3, <1>4 DEF Does

LEMMA ResetEngineDoes ==
  ASSUME NEW c, c = [fn |-> "reset_ap_engine"]
  PROVE  Does(c, << Control(STATIC, TARGET_C, FALSE, {3}), Control(STATIC, TARGET_C, FALSE, {}),
                    Release, ZeroMode >>)
<1> DEFINE s == << Control(STATIC, TARGET_C, FALSE, {3}), Control(STATIC, TARGET_C, FALSE, {}),
                   Release, ZeroMode >>
<1>1. c.fn = "reset_ap_engine"
  OBVIOUS
<1>2. c.fn # "none" /\ c.fn # "ap_search" /\ c.fn \notin Loading
  BY <1>1 DEF Loading
<1>3. s \in Seq(Access) /\ Restarting(s)
  <2>1. {} \in SUBSET Bits /\ {3} \in SUBSET Bits
    BY DEF Bits
  <2>5. /\ Control(STATIC, TARGET_C, FALSE, {}) \in Plain
        /\ Control(STATIC, TARGET_C, FALSE, {3}) \in Plain
        /\ Release \in Plain /\ ZeroMode \in Plain
    BY <2>1, PlainAccess
  <2>2. s \in Seq(Plain)
    BY <2>5, Literal
  <2>3. Len(s) = 4 /\ s[1] = Control(STATIC, TARGET_C, FALSE, {3})
    OBVIOUS
  <2> HIDE DEF s
  <2>4. QED
    <3> DEFINE k == Control(STATIC, TARGET_C, FALSE, {3})
    <3>1. 1 \in 1 .. Len(s) /\ s[1] = k
      BY <2>3
    <3> HIDE DEF k
    <3>2. \E i \in 1 .. Len(s) : s[i] = k
      BY <3>1
    <3>3. QED
      BY <2>2, <3>2, RestartingLiteral DEF k
<1>4. ASSUME NEW exact \in BOOLEAN, NEW c0 \in ControlReg, NEW m0 \in ModeReg, NEW x \in Memory,
             NEW f \in BOOLEAN
      PROVE  Outcome(c, s, exact, c0, m0, x, f)
  <2>1. << >> \in Seq(Byte) /\ x = Promise!Effect(c, x)
    BY <1>1, EffectOfResets
  <2>2. Runs(exact, s, Idle(c0, m0, x, << >>, f), Idle(Released, ModeZero, x, << >>, FALSE))
    BY <2>1, ResetRuns
  <2> HIDE DEF s
  <2>3. QED
    BY <1>2, <2>1, <2>2, RegisterValues, SilentReleasedOutcome
<1> HIDE DEF s
<1>5. Does(c, s)
  BY <1>2, <1>3, <1>4 DEF Does
<1>6. QED
  BY <1>5 DEF s

LEMMA ReleaseDoes ==
  ASSUME NEW c, c = [fn |-> "release_ap_if"]
  PROVE  Does(c, << Release >>)
<1>1. c.fn = "release_ap_if"
  OBVIOUS
<1>2. c.fn # "none" /\ c.fn \notin Restarts /\ c.fn \notin Loading
  BY <1>1 DEF Restarts, Loading
<1>3. Release \in Access /\ << Release >> \in Seq(Access)
  BY RegisterAccess
<1>4. ASSUME NEW exact \in BOOLEAN, NEW c0 \in ControlReg, NEW m0 \in ModeReg, NEW x \in Memory,
             NEW f \in BOOLEAN
      PROVE  Outcome(c, << Release >>, exact, c0, m0, x, f)
  <2>1. x = Promise!Effect(c, x) /\ << >> \in Seq(Byte)
    BY <1>1, EffectOfResets
  <2>2. Idle(c0, m0, x, << >>, f) \in State /\ Idle(Released, m0, x, << >>, FALSE) \in State
    BY <2>1, StIsState, RegisterValues
  <2>3. Step(exact, Release, Idle(c0, m0, x, << >>, f), Idle(Released, m0, x, << >>, FALSE))
    BY <2>1, ControlStep
  <2>4. Runs(exact, << Release >>, Idle(c0, m0, x, << >>, f), Idle(Released, m0, x, << >>, FALSE))
    BY <1>3, <2>2, <2>3, RunsOne
  <2>5. QED
    BY <1>2, <2>1, <2>4, SilentReleasedOutcome
<1>5. QED
  BY <1>2, <1>3, <1>4, DoesByRun

Flushes == {"ap_flush_a_1", "ap_flush_b_0", "ap_flush_b_1", "ap_flush_c_0", "ap_flush_c_1",
            "ap_flush_col"}

LEMMA FlushDoes ==
  ASSUME NEW c, c.fn \in Flushes, NEW col \in APCollunm, NEW i \in {LEFT, RIGHT},
         \A x : Promise!Effect(c, x) = Fill(CamBase(col, Promise!Side(i)), 0, x)
  PROVE  /\ Does(c, Flush(col, i))
         /\ Does(c, << Control(STATIC, TARGET_C, FALSE, {}), Mode(i, col, HORIZONTAL, OR),
                       Control(STATIC, TARGET_C, FALSE, {col}), Control(STATIC, TARGET_C, FALSE, {}),
                       Release >>)
<1> DEFINE s == << Control(STATIC, TARGET_C, FALSE, {}), Mode(i, col, HORIZONTAL, OR),
                   Control(STATIC, TARGET_C, FALSE, {col}), Control(STATIC, TARGET_C, FALSE, {}),
                   Release >>
<1>1. c.fn # "none" /\ c.fn \notin Restarts /\ c.fn \notin Loading
  BY DEF Flushes, Restarts, Loading
<1>2. i \in InternalCol /\ 0 \in Byte /\ << >> \in Seq(Byte) /\ OR \in APOperations
  BY ByteModAssumption DEF LEFT, RIGHT, InternalCol, Byte, OR, ADD_D, APOperations
<1>3. {} \in SUBSET Bits /\ {col} \in SUBSET Bits
  BY DEF Bits, APCollunm, CAM_A, CAM_C
<1>4. Flush(col, i) \in Seq(Access) /\ s \in Seq(Access)
  <2>1. /\ Control(STATIC, TARGET_C, FALSE, {}) \in Plain
        /\ Control(STATIC, TARGET_C, FALSE, {col}) \in Plain
        /\ Mode(i, col, HORIZONTAL, OR) \in Plain /\ Release \in Plain
    BY <1>2, <1>3, PlainAccess
  <2>2. s \in Seq(Plain)
    BY <2>1, Literal
  <2> HIDE DEF s
  <2>3. QED
    BY <2>2, FlushIsSound, PlainIsAccess
<1>5. Selected(i, col) = CamBase(col, Promise!Side(i))
  BY SideIs
<1>6. ModeZero \in ModeReg /\ set_mode_reg(i, col, HORIZONTAL, OR) \in ModeReg
  BY <1>2, RegisterValues
<1> HIDE DEF s
<1>7. ASSUME NEW exact \in BOOLEAN, NEW c0 \in ControlReg, NEW m0 \in ModeReg, NEW x \in Memory,
             NEW f \in BOOLEAN
      PROVE  /\ Outcome(c, Flush(col, i), exact, c0, m0, x, f)
             /\ Outcome(c, s, exact, c0, m0, x, f)
  <2> DEFINE y == Fill(Selected(i, col), 0, x)
             m == set_mode_reg(i, col, HORIZONTAL, OR)
  <2>1. y \in Memory /\ y = Promise!Effect(c, x)
    BY <1>2, <1>5, FillIsMemory
  <2>2. Runs(exact, Flush(col, i), Idle(c0, m0, x, << >>, f), Idle(Released, ModeZero, y, << >>, FALSE))
    BY <1>2, FlushRuns
  <2>5. Runs(exact, s, Idle(c0, m0, x, << >>, f), Idle(Released, m, y, << >>, FALSE))
    BY <1>2, FlushRuns DEF s
  <2> HIDE DEF y, m
  <2>3. m \in ModeReg
    BY <1>6 DEF m
  <2>6. Outcome(c, Flush(col, i), exact, c0, m0, x, f)
    BY <1>1, <1>6, <2>1, <2>2, SilentReleasedOutcome
  <2>7. Outcome(c, s, exact, c0, m0, x, f)
    BY <1>1, <2>1, <2>3, <2>5, SilentReleasedOutcome
  <2>4. QED
    BY <2>6, <2>7
<1>8. Does(c, Flush(col, i))
  BY <1>1, <1>4, <1>7, DoesByRun
<1>9. Does(c, s)
  BY <1>1, <1>4, <1>7, DoesByRun
<1>10. QED
  BY <1>8, <1>9 DEF s

LEMMA FlushCDoes ==
  ASSUME NEW c, c = [fn |-> "ap_flush_c_0"]
  PROVE  Does(c, << ZeroMode, Control(STATIC, TARGET_C, FALSE, {}),
                    Control(STATIC, TARGET_C, FALSE, {CAM_C}), Release >>)
<1> DEFINE s == << ZeroMode, Control(STATIC, TARGET_C, FALSE, {}),
                   Control(STATIC, TARGET_C, FALSE, {CAM_C}), Release >>
<1>1. c.fn = "ap_flush_c_0"
  OBVIOUS
<1>2. c.fn # "none" /\ c.fn \notin Restarts /\ c.fn \notin Loading
  BY <1>1 DEF Restarts, Loading
<1>3. 0 \in Byte /\ << >> \in Seq(Byte) /\ {} \in SUBSET Bits /\ {CAM_C} \in SUBSET Bits
  BY ByteModAssumption DEF Byte, Bits, CAM_C
<1>4. s \in Seq(Access)
  <2>1. /\ Control(STATIC, TARGET_C, FALSE, {}) \in Plain
        /\ Control(STATIC, TARGET_C, FALSE, {CAM_C}) \in Plain
        /\ ZeroMode \in Plain /\ Release \in Plain
    BY <1>3, PlainAccess
  <2>2. s \in Seq(Plain)
    BY <2>1, Literal
  <2> HIDE DEF s
  <2>3. QED
    BY <2>2, PlainIsAccess
<1>5. \A x : Promise!Effect(c, x) = Fill(CamBase(CAM_C, 0), 0, x)
  BY <1>1, EffectOfResets
<1> HIDE DEF s
<1>6. ASSUME NEW exact \in BOOLEAN, NEW c0 \in ControlReg, NEW m0 \in ModeReg, NEW x \in Memory,
             NEW f \in BOOLEAN
      PROVE  Outcome(c, s, exact, c0, m0, x, f)
  <2> DEFINE y == Fill(CamBase(CAM_C, 0), 0, x)
  <2>1. y \in Memory /\ y = Promise!Effect(c, x)
    BY <1>3, <1>5, FillIsMemory
  <2>2. Runs(exact, s, Idle(c0, m0, x, << >>, f), Idle(Released, ModeZero, y, << >>, FALSE))
    BY <1>3, FlushCRuns DEF s
  <2> HIDE DEF y
  <2>3. QED
    BY <1>2, <2>1, <2>2, RegisterValues, SilentReleasedOutcome
<1>7. Does(c, s)
  BY <1>2, <1>4, <1>6, DoesByRun
<1>8. QED
  BY <1>7 DEF s

-----------------------------------------------------------------------------
(* Compute: the functions that trigger the engine. *)

\* A run from any idle state shows that the program is one.
LEMMA DoesByOutcome ==
  ASSUME NEW c, NEW s, c.fn # "none", c.fn \notin Restarts,
         \A exact \in BOOLEAN, c0 \in ControlReg, m0 \in ModeReg, x \in Memory, f \in BOOLEAN :
           (exact => Kept(c)) => Outcome(c, s, exact, c0, m0, x, f)
  PROVE  Does(c, s)
<1> DEFINE no == FALSE
<1>1. no \in BOOLEAN /\ ~ no /\ Released \in ControlReg /\ ModeZero \in ModeReg /\ Blank \in Memory
  BY RegisterValues, ByteModAssumption DEF Blank, Memory, Byte
<1> HIDE DEF no
<1>2. Outcome(c, s, no, Released, ModeZero, Blank, no)
  BY <1>1
<1>3. s \in Seq(Access)
  BY <1>2, RunsStates DEF Outcome
<1>4. QED
  BY <1>3, DoesByRun

LEMMA StoreRuns ==
  ASSUME NEW exact \in BOOLEAN, NEW c \in ControlReg, NEW m \in ModeReg, NEW x \in Memory,
         NEW b \in Seq(Byte), NEW f \in BOOLEAN, NEW a \in Nat, NEW v \in Byte
  PROVE  /\ Stored(a, v, x) \in Memory
         /\ Runs(exact, << Store(a, v) >>, Idle(c, m, x, b, f), Idle(c, m, Stored(a, v, x), b, f))
<1>1. Stored(a, v, x) \in Memory
  BY StoredIsMemory
<1>2. Idle(c, m, x, b, f) \in State /\ Idle(c, m, Stored(a, v, x), b, f) \in State
  BY <1>1, StIsState
<1>3. Store(a, v) \in Access
  BY DEF Store, Access
<1>4. Step(exact, Store(a, v), Idle(c, m, x, b, f), Idle(c, m, Stored(a, v, x), b, f))
  BY DEF Step, Determined, Store, ByStore, Idle, St
<1>5. QED
  BY <1>1, <1>2, <1>3, <1>4, RunsOne

\* Lock, select, trigger; then what may follow.
LEMMA StartRuns ==
  ASSUME NEW exact \in BOOLEAN, NEW c \in ControlReg, NEW m \in ModeReg, NEW x \in Memory,
         NEW b \in Seq(Byte), NEW f \in BOOLEAN,
         NEW t \in {TARGET_C, TARGET_A}, NEW i \in InternalCol, NEW col \in APCollunm,
         NEW op \in APOperations
  PROVE  /\ Fired(STATIC, t) \in ControlReg
         /\ set_mode_reg(i, col, HORIZONTAL, op) \in ModeReg
         /\ Runs(exact, Trigger(t, Mode(i, col, HORIZONTAL, op)), Idle(c, m, x, b, f),
                 Pending(Fired(STATIC, t), set_mode_reg(i, col, HORIZONTAL, op), x, b))
<1>1. {} \in SUBSET Bits /\ STATIC \in {DYNAMIC, STATIC} /\ HORIZONTAL \in {HORIZONTAL, VERTICAL}
  BY DEF Bits
<1>2. Trigger(t, Mode(i, col, HORIZONTAL, op)) = Fire(STATIC, t, i, col, HORIZONTAL, op, STATIC, t)
  BY DEF Trigger, Fire
<1>3. Fired(STATIC, t) \in ControlReg /\ set_mode_reg(i, col, HORIZONTAL, op) \in ModeReg
  BY <1>1, RegisterValues DEF Fired
<1>4. QED
  BY <1>1, <1>2, <1>3, TriggerRuns

\* A released device; the state of a finished command that nobody released.
Freed(m, x, b) == Idle(Released, m, x, b, FALSE)
Finished(c, m, x, b) == Idle(c, m, x, b, TRUE)

LEMMA EndRuns ==
  ASSUME NEW exact \in BOOLEAN, NEW k \in ControlReg, NEW n \in ModeReg, NEW x \in Memory,
         NEW b \in Seq(Byte), NEW p, NEW go, Runs(exact, go, p, Pending(k, n, x, b)),
         NEW y, y = Computed(k, n, x, Row)
  PROVE  /\ y \in Memory
         /\ Runs(exact, go \o << Wait, Release >>, p, Freed(n, y, b))
         /\ Runs(exact, go \o << Wait, EndCycles, Release >>, p, Freed(n, y, b))
         /\ Runs(exact, go \o << Wait, EndCycles >>, p, Finished(k, n, y, b))
         /\ \A l \in Nat : Runs(exact, go \o << Poll(l) >>, p, Freed(ModeZero, y, b))
<1>1. y \in Memory
  BY ComputedIsMemory
<1>2. /\ Runs(exact, << Wait, Release >>, Pending(k, n, x, b), Idle(Released, n, y, b, FALSE))
      /\ Runs(exact, << Wait, EndCycles, Release >>, Pending(k, n, x, b),
              Idle(Released, n, y, b, FALSE))
      /\ Runs(exact, << Wait, EndCycles >>, Pending(k, n, x, b), Idle(k, n, y, b, TRUE))
      /\ \A l \in Nat : Runs(exact, << Poll(l) >>, Pending(k, n, x, b),
                             Idle(Released, ModeZero, y, b, FALSE))
  BY <1>1, WaitRuns
<1> DEFINE w1 == << Wait, Release >>
           w2 == << Wait, EndCycles, Release >>
           w3 == << Wait, EndCycles >>
           w4(l) == << Poll(l) >>
           r == Pending(k, n, x, b)
<1> HIDE DEF w1, w2, w3, w4, r
<1>3. Runs(exact, go \o w1, p, Freed(n, y, b))
  BY <1>2, RunsJoin DEF w1, Freed
<1>4. Runs(exact, go \o w2, p, Freed(n, y, b))
  BY <1>2, RunsJoin DEF w2, Freed
<1>5. Runs(exact, go \o w3, p, Finished(k, n, y, b))
  BY <1>2, RunsJoin DEF w3, Finished
<1>6. ASSUME NEW l \in Nat PROVE Runs(exact, go \o w4(l), p, Freed(ModeZero, y, b))
  BY <1>2, RunsJoin DEF w4, Freed
<1>7. QED
  BY <1>1, <1>3, <1>4, <1>5, <1>6 DEF w1, w2, w3, w4

\* A call that hands back no bytes and ends released.
LEMMA FreedOutcome ==
  ASSUME NEW c, NEW s, NEW exact \in BOOLEAN, NEW c0 \in ControlReg, NEW m0 \in ModeReg,
         NEW x \in Memory, NEW f \in BOOLEAN, NEW b, b = << >>, NEW m1 \in ModeReg, NEW y \in Memory,
         Runs(exact, s, Idle(c0, m0, x, b, f), Freed(m1, y, b)),
         exact => y = Promise!Effect(c, x), c.fn \notin Loading
  PROVE  Outcome(c, s, exact, c0, m0, x, f)
<1>1. Runs(exact, s, Idle(c0, m0, x, << >>, f), Idle(Released, m1, y, << >>, FALSE))
  BY DEF Freed
<1>2. QED
  BY <1>1, SilentReleasedOutcome

\* The functions that spell the trigger out.
FireAndWait(s, t, i, col, d, op, t2) ==
  << Control(s, t, FALSE, {}), Mode(i, col, d, op), Control(STATIC, t2, TRUE, {}), Wait, Release >>

LEMMA LiteralRuns ==
  ASSUME NEW exact \in BOOLEAN, NEW c \in ControlReg, NEW m \in ModeReg, NEW x \in Memory,
         NEW b \in Seq(Byte), NEW f \in BOOLEAN,
         NEW s \in {DYNAMIC, STATIC}, NEW t \in {TARGET_C, TARGET_A},
         NEW i \in InternalCol, NEW col \in APCollunm, NEW d \in {HORIZONTAL, VERTICAL},
         NEW op \in APOperations, exact => d = HORIZONTAL, NEW t2 \in {TARGET_C, TARGET_A},
         NEW y, y = Computed(Fired(STATIC, t2), set_mode_reg(i, col, d, op), x, Row)
  PROVE  Runs(exact, FireAndWait(s, t, i, col, d, op, t2),
              Idle(c, m, x, b, f), Freed(set_mode_reg(i, col, d, op), y, b))
<1> DEFINE k == Fired(STATIC, t2)
           n == set_mode_reg(i, col, d, op)
<1>1. {} \in SUBSET Bits
  BY DEF Bits
<1>2. k \in ControlReg /\ n \in ModeReg
  BY <1>1, RegisterValues DEF Fired
<1>3. /\ Control(s, t, FALSE, {}) \in Access /\ Mode(i, col, d, op) \in Access
      /\ Control(STATIC, t2, TRUE, {}) \in Access /\ Wait \in Access /\ Release \in Access
  BY <1>1, RegisterAccess
<1>4. Runs(exact, << Control(s, t, FALSE, {}), Mode(i, col, d, op), Control(STATIC, t2, TRUE, {}) >>,
           Idle(c, m, x, b, f), Pending(k, n, x, b))
  <2>1. STATIC \in {DYNAMIC, STATIC}
    OBVIOUS
  <2>2. Runs(exact, Fire(s, t, i, col, d, op, STATIC, t2), Idle(c, m, x, b, f), Pending(k, n, x, b))
    BY <2>1, TriggerRuns
  <2>3. QED
    BY <2>2 DEF Fire
<1> HIDE DEF k, n
<1>5. y = Computed(k, n, x, Row)
  BY DEF k, n
<1>6. y \in Memory
  BY <1>2, <1>5, ComputedIsMemory
<1>7. Runs(exact, << Wait, Release >>, Pending(k, n, x, b), Idle(Released, n, y, b, FALSE))
  BY <1>2, <1>5, <1>6, WaitRuns
<1>8. Runs(exact,
           << Control(s, t, FALSE, {}), Mode(i, col, d, op), Control(STATIC, t2, TRUE, {}),
              Wait, Release >>,
           Idle(c, m, x, b, f), Idle(Released, n, y, b, FALSE))
  BY <1>3, <1>4, <1>7, RunsFive
<1>9. QED
  BY <1>8 DEF n, FireAndWait, Freed

LEMMA TriggerDoes ==
  ASSUME NEW op \in Commands, NEW i \in Columns, NEW c,
         c = [fn |-> "ap_trigger_computing_w_wait", op |-> op, direction |-> HORIZONTAL,
              internal_col |-> i]
  PROVE  Does(c, Trigger(TARGET_C, Mode(i, CAM_A, HORIZONTAL, op)) \o << Wait, Release >>)
<1> DEFINE s == Trigger(TARGET_C, Mode(i, CAM_A, HORIZONTAL, op)) \o << Wait, Release >>
<1>1. c.fn = "ap_trigger_computing_w_wait" /\ c.op = op /\ c.internal_col = i
  OBVIOUS
<1>2. c.fn # "none" /\ c.fn \notin Restarts /\ c.fn \notin Loading
  BY <1>1 DEF Restarts, Loading
<1>3. ASSUME NEW exact \in BOOLEAN, NEW c0 \in ControlReg, NEW m0 \in ModeReg, NEW x \in Memory,
             NEW f \in BOOLEAN
      PROVE  Outcome(c, s, exact, c0, m0, x, f)
  <2> DEFINE k == Fired(STATIC, TARGET_C)
             n == set_mode_reg(i, CAM_A, HORIZONTAL, op)
             y == Computed(k, n, x, Row)
             go == Trigger(TARGET_C, Mode(i, CAM_A, HORIZONTAL, op))
             b == << >>
  <2>1. b \in Seq(Byte) /\ b = << >>
    OBVIOUS
  <2> HIDE DEF b
  <2>2. k \in ControlReg /\ n \in ModeReg /\ Runs(exact, go, Idle(c0, m0, x, b, f), Pending(k, n, x, b))
    BY <2>1, Parameters, StartRuns
  <2>3. y = Promise!Effect(c, x)
    BY <1>1, EffectOfCommands DEF Operate, Fired
  <2>4. s = go \o << Wait, Release >> /\ y = Computed(k, n, x, Row)
    OBVIOUS
  <2> HIDE DEF k, n, y, go, s
  <2>5. /\ y \in Memory
        /\ Runs(exact, go \o << Wait, Release >>, Idle(c0, m0, x, b, f), Freed(n, y, b))
    BY <2>1, <2>2, <2>4, EndRuns
  <2>6. Runs(exact, s, Idle(c0, m0, x, b, f), Freed(n, y, b))
    BY <2>4, <2>5
  <2>7. QED
    BY <1>2, <2>1, <2>2, <2>3, <2>5, <2>6, FreedOutcome
<1> HIDE DEF s
<1>4. Does(c, s)
  BY <1>2, <1>3, DoesByOutcome
<1>5. QED
  BY <1>4 DEF s

LEMMA TargetADoes ==
  ASSUME NEW op \in Commands, NEW i \in Selectors, NEW c,
         c = [fn |-> "ap_trigger_computing_w_wait_target_a", op |-> op, direction |-> HORIZONTAL,
              internal_col |-> i]
  PROVE  Does(c, << Control(STATIC, TARGET_C, FALSE, {}), Mode(i, CAM_A, HORIZONTAL, op),
                    Control(STATIC, TARGET_A, TRUE, {}), Wait, Release >>)
<1> DEFINE s == << Control(STATIC, TARGET_C, FALSE, {}), Mode(i, CAM_A, HORIZONTAL, op),
                   Control(STATIC, TARGET_A, TRUE, {}), Wait, Release >>
<1>1. c.fn = "ap_trigger_computing_w_wait_target_a" /\ c.op = op /\ c.internal_col = i
  OBVIOUS
<1>2. c.fn # "none" /\ c.fn \notin Restarts /\ c.fn \notin Loading
  BY <1>1 DEF Restarts, Loading
<1>3. ASSUME NEW exact \in BOOLEAN, NEW c0 \in ControlReg, NEW m0 \in ModeReg, NEW x \in Memory,
             NEW f \in BOOLEAN
      PROVE  Outcome(c, s, exact, c0, m0, x, f)
  <2> DEFINE n == set_mode_reg(i, CAM_A, HORIZONTAL, op)
             y == Computed(Fired(STATIC, TARGET_A), n, x, Row)
             b == << >>
  <2>1. /\ b \in Seq(Byte) /\ b = << >>
        /\ y = Computed(Fired(STATIC, TARGET_A), n, x, Row)
        /\ HORIZONTAL \in {HORIZONTAL, VERTICAL} /\ STATIC \in {DYNAMIC, STATIC}
    OBVIOUS
  <2>2. y = Promise!Effect(c, x)
    BY <1>1, EffectOfCommands DEF Operate, Fired
  <2> HIDE DEF y, b
  <2>3. s = FireAndWait(STATIC, TARGET_C, i, CAM_A, HORIZONTAL, op, TARGET_A)
    BY DEF FireAndWait
  <2>5. /\ i \in InternalCol /\ CAM_A \in APCollunm /\ op \in APOperations
        /\ TARGET_C \in {TARGET_C, TARGET_A} /\ TARGET_A \in {TARGET_C, TARGET_A}
    BY Parameters
  <2>6. Runs(exact, FireAndWait(STATIC, TARGET_C, i, CAM_A, HORIZONTAL, op, TARGET_A),
             Idle(c0, m0, x, b, f), Freed(n, y, b))
    BY <2>1, <2>5, LiteralRuns
  <2>7. n \in ModeReg /\ y \in Memory
    BY <2>1, <2>5, RegisterValues, ComputedIsMemory
  <2> HIDE DEF n, s
  <2>8. Runs(exact, s, Idle(c0, m0, x, b, f), Freed(n, y, b))
    BY <2>3, <2>6
  <2>9. QED
    BY <1>2, <2>1, <2>2, <2>7, <2>8, FreedOutcome
<1> HIDE DEF s
<1>4. Does(c, s)
  BY <1>2, <1>3, DoesByOutcome
<1>5. QED
  BY <1>4 DEF s

\* What a function stores first, and what it loads after.
LEMMA PrefixedRuns ==
  ASSUME NEW exact \in BOOLEAN, NEW c \in ControlReg, NEW m \in ModeReg, NEW x \in Memory,
         NEW b \in Seq(Byte), NEW f \in BOOLEAN,
         NEW t \in {TARGET_C, TARGET_A}, NEW i \in InternalCol, NEW col \in APCollunm,
         NEW op \in APOperations, NEW u, NEW p, Runs(exact, u, p, Idle(c, m, x, b, f))
  PROVE  Runs(exact, u \o Trigger(t, Mode(i, col, HORIZONTAL, op)), p,
              Pending(Fired(STATIC, t), set_mode_reg(i, col, HORIZONTAL, op), x, b))
<1> DEFINE go == Trigger(t, Mode(i, col, HORIZONTAL, op))
           r == Pending(Fired(STATIC, t), set_mode_reg(i, col, HORIZONTAL, op), x, b)
<1>1. Runs(exact, go, Idle(c, m, x, b, f), r)
  BY StartRuns
<1> HIDE DEF go, r
<1>2. Runs(exact, u \o go, p, r)
  BY <1>1, RunsJoin
<1>3. QED
  BY <1>2 DEF go, r

LEMMA FreedLoads ==
  ASSUME NEW exact \in BOOLEAN, NEW m \in ModeReg, NEW x \in Memory, NEW e, e = << >>,
         NEW s, NEW p, Runs(exact, s, p, Freed(m, x, e)), NEW base \in Nat, NEW n \in Nat,
         exact => \A i \in 1 .. n : base + i - 1 \in CamAddr
  PROVE  /\ Bytes(base, n, x) \in Seq(Byte)
         /\ Runs(exact, s \o LoadVector(base, n), p, Freed(m, x, Bytes(base, n, x)))
<1> DEFINE no == FALSE
           k == Released
<1>1. no \in BOOLEAN /\ no = FALSE /\ k \in ControlReg /\ k = Released
  BY RegisterValues
<1> HIDE DEF no, k
<1>2. /\ Bytes(base, n, x) \in Seq(Byte)
      /\ Runs(exact, LoadVector(base, n), Idle(k, m, x, << >>, no), Idle(k, m, x, Bytes(base, n, x), no))
  BY <1>1, LoadVectorRuns
<1>3. Runs(exact, LoadVector(base, n), Freed(m, x, e), Freed(m, x, Bytes(base, n, x)))
  BY <1>1, <1>2 DEF Freed
<1>4. QED
  BY <1>2, <1>3, RunsJoin

\* A call that ends released and hands back bytes; the search, which ends locked.
LEMMA BytesOutcome ==
  ASSUME NEW c, NEW s, NEW exact \in BOOLEAN, NEW c0 \in ControlReg, NEW m0 \in ModeReg,
         NEW x \in Memory, NEW f \in BOOLEAN, NEW e, e = << >>, NEW m1 \in ModeReg, NEW y \in Memory,
         NEW b \in Seq(Byte), Runs(exact, s, Idle(c0, m0, x, e, f), Freed(m1, y, b)),
         exact => y = Promise!Effect(c, x) /\ b = Promise!Output(c, x)
  PROVE  Outcome(c, s, exact, c0, m0, x, f)
<1>1. Runs(exact, s, Idle(c0, m0, x, << >>, f), Idle(Released, m1, y, b, FALSE))
  BY DEF Freed
<1>2. QED
  BY <1>1, ReleasedOutcome

LEMMA FinishedOutcome ==
  ASSUME NEW c, NEW s, NEW exact \in BOOLEAN, NEW c0 \in ControlReg, NEW m0 \in ModeReg,
         NEW x \in Memory, NEW f \in BOOLEAN, NEW b, b = << >>,
         NEW k \in ControlReg, NEW m1 \in ModeReg, NEW y \in Memory,
         Runs(exact, s, Idle(c0, m0, x, b, f), Finished(k, m1, y, b)),
         exact => y = Promise!Effect(c, x), c.fn = "ap_search"
  PROVE  Outcome(c, s, exact, c0, m0, x, f)
<1> DEFINE g == TRUE
<1>1. g \in BOOLEAN /\ b \in Seq(Byte)
  OBVIOUS
<1>2. b = Promise!Output(c, x)
  BY OutputOf DEF Loading
<1>3. Runs(exact, s, Idle(c0, m0, x, << >>, f), Idle(k, m1, y, b, g))
  BY DEF Finished
<1>4. c.fn # "ap_search" /\ (c.fn \in Restarts \/ (c0 = Released /\ ~ f)) => k = Released /\ ~ g
  OBVIOUS
<1>5. exact => y = Promise!Effect(c, x) /\ b = Promise!Output(c, x)
  BY <1>2
<1> HIDE DEF g
<1>6. QED
  BY <1>1, <1>3, <1>4, <1>5 DEF Outcome

LEMMA PollDoes ==
  ASSUME NEW op \in Commands, NEW i \in Columns, NEW t \in Targets, NEW c,
         c = [fn |-> "ap_trigger_computing", op |-> op, direction |-> HORIZONTAL,
              internal_col |-> i, target |-> t]
  PROVE  Does(c, Trigger(t, Mode(i, CAM_A, HORIZONTAL, op)) \o << Poll(5) >>)
<1> DEFINE s == Trigger(t, Mode(i, CAM_A, HORIZONTAL, op)) \o << Poll(5) >>
<1>1. c.fn = "ap_trigger_computing" /\ c.op = op /\ c.internal_col = i /\ c.target = t
  OBVIOUS
<1>2. c.fn # "none" /\ c.fn \notin Restarts /\ c.fn \notin Loading
  BY <1>1 DEF Restarts, Loading
<1>3. ASSUME NEW exact \in BOOLEAN, NEW c0 \in ControlReg, NEW m0 \in ModeReg, NEW x \in Memory,
             NEW f \in BOOLEAN
      PROVE  Outcome(c, s, exact, c0, m0, x, f)
  <2> DEFINE k == Fired(STATIC, t)
             n == set_mode_reg(i, CAM_A, HORIZONTAL, op)
             y == Computed(k, n, x, Row)
             go == Trigger(t, Mode(i, CAM_A, HORIZONTAL, op))
             b == << >>
  <2>1. b \in Seq(Byte) /\ b = << >>
    OBVIOUS
  <2> HIDE DEF b
  <2>2. k \in ControlReg /\ n \in ModeReg /\ Runs(exact, go, Idle(c0, m0, x, b, f), Pending(k, n, x, b))
    BY <2>1, Parameters, StartRuns DEF Targets
  <2>3. y = Promise!Effect(c, x)
    BY <1>1, EffectOfCommands DEF Operate, Fired
  <2>4. s = go \o << Poll(5) >> /\ y = Computed(k, n, x, Row)
    OBVIOUS
  <2> HIDE DEF k, n, y, go, s
  <2>5. y \in Memory /\ Runs(exact, go \o << Poll(5) >>, Idle(c0, m0, x, b, f), Freed(ModeZero, y, b))
    BY <2>1, <2>2, <2>4, EndRuns
  <2>6. Runs(exact, s, Idle(c0, m0, x, b, f), Freed(ModeZero, y, b))
    BY <2>4, <2>5
  <2>7. QED
    BY <1>2, <2>1, <2>3, <2>5, <2>6, RegisterValues, FreedOutcome
<1> HIDE DEF s
<1>4. Does(c, s)
  BY <1>2, <1>3, DoesByOutcome
<1>5. QED
  BY <1>4 DEF s

LEMMA TargetSetupDoes ==
  ASSUME NEW V \in Vectors, NEW c, c = [fn |-> "op_target_setup", V |-> V]
  PROVE  Does(c, StoreVector(CamBase(CAM_B, 1), V) \o StoreVector(CamBase(CAM_C, 1), V)
                   \o Trigger(TARGET_A, Mode(1, CAM_A, HORIZONTAL, ADD)) \o << Poll(3) >>)
<1> DEFINE u == StoreVector(CamBase(CAM_B, 1), V) \o StoreVector(CamBase(CAM_C, 1), V)
           s == u \o Trigger(TARGET_A, Mode(1, CAM_A, HORIZONTAL, ADD)) \o << Poll(3) >>
<1>1. c.fn = "op_target_setup" /\ c.V = V /\ V \in Seq(Byte)
  BY VectorsAssumption
<1>2. c.fn # "none" /\ c.fn \notin Restarts /\ c.fn \notin Loading
  BY <1>1 DEF Restarts, Loading
<1>3. CamBase(CAM_B, 1) \in Nat /\ CamBase(CAM_C, 1) \in Nat
  BY Parameters, BaseIsAddress
<1>4. ASSUME NEW exact \in BOOLEAN, NEW c0 \in ControlReg, NEW m0 \in ModeReg, NEW x \in Memory,
             NEW f \in BOOLEAN
      PROVE  Outcome(c, s, exact, c0, m0, x, f)
  <2> DEFINE k == Fired(STATIC, TARGET_A)
             n == set_mode_reg(1, CAM_A, HORIZONTAL, ADD)
             x1 == Put(CamBase(CAM_B, 1), V, x)
             x2 == Put(CamBase(CAM_C, 1), V, x1)
             y == Computed(k, n, x2, Row)
             go == u \o Trigger(TARGET_A, Mode(1, CAM_A, HORIZONTAL, ADD))
             b == << >>
  <2>1. b \in Seq(Byte) /\ b = << >>
    OBVIOUS
  <2> HIDE DEF b
  <2>2. /\ x1 \in Memory
        /\ Runs(exact, StoreVector(CamBase(CAM_B, 1), V), Idle(c0, m0, x, b, f), Idle(c0, m0, x1, b, f))
    BY <1>1, <1>3, <2>1, StoreVectorRuns
  <2>3. y = Promise!Effect(c, x)
    BY <1>1, EffectOfCommands DEF Operate, Fired
  <2> HIDE DEF x1
  <2>4. /\ x2 \in Memory
        /\ Runs(exact, StoreVector(CamBase(CAM_C, 1), V), Idle(c0, m0, x1, b, f), Idle(c0, m0, x2, b, f))
    BY <1>1, <1>3, <2>1, <2>2, StoreVectorRuns
  <2> HIDE DEF x2
  <2>5. Runs(exact, u, Idle(c0, m0, x, b, f), Idle(c0, m0, x2, b, f))
    BY <2>2, <2>4, RunsJoin
  <2>6. TARGET_A \in {TARGET_C, TARGET_A}
    OBVIOUS
  <2>7. k \in ControlReg /\ n \in ModeReg
    BY <2>1, <2>4, <2>6, Parameters, StartRuns
  <2> HIDE DEF u
  <2>8. Runs(exact, go, Idle(c0, m0, x, b, f), Pending(k, n, x2, b))
    BY <2>1, <2>4, <2>5, <2>6, Parameters, PrefixedRuns
  <2>9. s = go \o << Poll(3) >> /\ y = Computed(k, n, x2, Row)
    OBVIOUS
  <2> HIDE DEF k, n, y, go, s
  <2>10. y \in Memory /\ Runs(exact, go \o << Poll(3) >>, Idle(c0, m0, x, b, f), Freed(ModeZero, y, b))
    BY <2>1, <2>4, <2>7, <2>8, <2>9, EndRuns
  <2>11. Runs(exact, s, Idle(c0, m0, x, b, f), Freed(ModeZero, y, b))
    BY <2>9, <2>10
  <2>12. QED
    BY <1>2, <2>1, <2>3, <2>10, <2>11, RegisterValues, FreedOutcome
<1> HIDE DEF s
<1>5. Does(c, s)
  BY <1>2, <1>4, DoesByOutcome
<1>6. QED
  BY <1>5 DEF s

\* The effect of the two functions that fill a column.
LEMMA EffectOfSets ==
  ASSUME NEW c, NEW x
  PROVE  /\ c.fn = "ap_set_value" /\ c.col \in APCollunm /\ c.internal_col = LEFT =>
              Promise!Effect(c, x) = Fill(CamBase(c.col, 0), c.value, x)
         /\ c.fn = "ap_set_value_cam_a_left" =>
              Promise!Effect(c, x) = Fill(CamBase(CAM_A, 0), c.value, x)
<1>1. Promise!Side(LEFT) = 0
  BY SideIs
<1>2. /\ c.fn = "ap_set_value" /\ c.col \in APCollunm =>
           Promise!Effect(c, x) = Fill(CamBase(c.col, Promise!Side(c.internal_col)), c.value, x)
      /\ c.fn = "ap_set_value_cam_a_left" =>
           Promise!Effect(c, x) = Fill(CamBase(CAM_A, 0), c.value, x)
  BY EffectOfCommands, Zenon
<1>3. QED
  BY <1>1, <1>2

\* A store into the head of a column, and SET over it.
LEMMA SetResult ==
  ASSUME NEW x \in Memory, NEW a \in Nat, NEW v \in Byte, NEW i \in InternalCol,
         NEW col \in APCollunm, NEW n, n = set_mode_reg(i, col, HORIZONTAL, SET),
         NEW y, y = Computed(Fired(STATIC, TARGET_C), n, Stored(a, v, x), Row)
  PROVE  /\ n \in ModeReg /\ y \in Memory
         /\ a = Selected(i, col) => y = Fill(a, v, x)
<1>1. {} \in SUBSET Bits /\ SET \in APOperations
  BY DEF Bits, SET, APOperations, OR, ADD_D
<1>2. Fired(STATIC, TARGET_C) \in ControlReg /\ n \in ModeReg
  BY <1>1, RegisterValues DEF Fired
<1>3. Stored(a, v, x) \in Memory
  BY StoredIsMemory
<1>4. y \in Memory
  BY <1>2, <1>3, ComputedIsMemory
<1>5. n.cmd = SET /\ n.internal_col = i /\ n.col = col
  BY DEF set_mode_reg
<1>6. ASSUME a = Selected(i, col) PROVE y = Fill(a, v, x)
  BY <1>2, <1>5, <1>6, SetFills
<1>7. QED
  BY <1>2, <1>4, <1>6

LEMMA SetRuns ==
  ASSUME NEW exact \in BOOLEAN, NEW c \in ControlReg, NEW m \in ModeReg, NEW x \in Memory,
         NEW b \in Seq(Byte), NEW f \in BOOLEAN, NEW a \in Nat, NEW v \in Byte,
         NEW i \in InternalCol, NEW col \in APCollunm, NEW n, n = set_mode_reg(i, col, HORIZONTAL, SET),
         NEW y, y = Computed(Fired(STATIC, TARGET_C), n, Stored(a, v, x), Row)
  PROVE  /\ Runs(exact, << Store(a, v) >> \o Trigger(TARGET_C, Mode(i, col, HORIZONTAL, SET))
                          \o << Wait, EndCycles, Release >>, Idle(c, m, x, b, f), Freed(n, y, b))
         /\ Runs(exact, << Store(a, v) >> \o Trigger(TARGET_C, Mode(i, col, HORIZONTAL, SET))
                          \o << Wait, Release >>, Idle(c, m, x, b, f), Freed(n, y, b))
<1> DEFINE z == Stored(a, v, x)
           k == Fired(STATIC, TARGET_C)
           u == << Store(a, v) >>
           g == Trigger(TARGET_C, Mode(i, col, HORIZONTAL, SET))
           go == u \o g
<1>1. TARGET_C \in {TARGET_C, TARGET_A} /\ SET \in APOperations
  BY DEF SET, APOperations, OR, ADD_D
<1>2. z \in Memory /\ Runs(exact, u, Idle(c, m, x, b, f), Idle(c, m, z, b, f))
  BY StoreRuns
<1>3. k \in ControlReg /\ n \in ModeReg
  BY <1>1, StartRuns
<1> HIDE DEF z, u
<1>4. Runs(exact, go, Idle(c, m, x, b, f), Pending(k, n, z, b))
  BY <1>1, <1>2, PrefixedRuns
<1>5. y = Computed(k, n, z, Row)
  BY DEF z
<1> HIDE DEF k, go
<1>6. /\ Runs(exact, go \o << Wait, Release >>, Idle(c, m, x, b, f), Freed(n, y, b))
      /\ Runs(exact, go \o << Wait, EndCycles, Release >>, Idle(c, m, x, b, f), Freed(n, y, b))
  BY <1>2, <1>3, <1>4, <1>5, EndRuns
<1>7. QED
  BY <1>6 DEF go, u

LEMMA SetValueDoes ==
  ASSUME NEW col \in APCollunm, NEW i \in Columns, NEW v \in Byte, NEW c,
         c = [fn |-> "ap_set_value", col |-> col, internal_col |-> i, value |-> v]
  PROVE  Does(c, << Store(VectorBase(col, i), v) >> \o Trigger(TARGET_C, Mode(i, col, HORIZONTAL, SET))
                   \o << Wait, EndCycles, Release >>)
<1> DEFINE s == << Store(VectorBase(col, i), v) >> \o Trigger(TARGET_C, Mode(i, col, HORIZONTAL, SET))
                  \o << Wait, EndCycles, Release >>
<1>1. c.fn = "ap_set_value" /\ c.col = col /\ c.internal_col = i /\ c.value = v
  OBVIOUS
<1>2. c.fn # "none" /\ c.fn \notin Restarts /\ c.fn \notin Loading
  BY <1>1 DEF Restarts, Loading
<1>3. VectorBase(col, i) \in Nat /\ i \in InternalCol
  BY VectorAddress, ColumnsAssumption, Parameters
<1>4. ASSUME NEW exact \in BOOLEAN, NEW c0 \in ControlReg, NEW m0 \in ModeReg, NEW x \in Memory,
             NEW f \in BOOLEAN, exact => Kept(c)
      PROVE  Outcome(c, s, exact, c0, m0, x, f)
  <2> DEFINE n == set_mode_reg(i, col, HORIZONTAL, SET)
             a == VectorBase(col, i)
             y == Computed(Fired(STATIC, TARGET_C), n, Stored(a, v, x), Row)
             b == << >>
             w == << Store(a, v) >> \o Trigger(TARGET_C, Mode(i, col, HORIZONTAL, SET))
                    \o << Wait, EndCycles, Release >>
  <2>1. /\ b \in Seq(Byte) /\ b = << >> /\ n = set_mode_reg(i, col, HORIZONTAL, SET)
        /\ y = Computed(Fired(STATIC, TARGET_C), n, Stored(a, v, x), Row)
        /\ w = s /\ a \in Nat /\ a = VectorBase(col, i)
    BY <1>3
  <2> HIDE DEF s, n, y, b, a
  <2>2. n \in ModeReg /\ y \in Memory /\ (a = Selected(i, col) => y = Fill(a, v, x))
    BY <1>3, <2>1, SetResult
  <2>5. Runs(exact, w, Idle(c0, m0, x, b, f), Freed(n, y, b))
    BY <1>3, <2>1, SetRuns
  <2> HIDE DEF w
  <2>3. ASSUME exact PROVE y = Promise!Effect(c, x)
    <3>1. i = LEFT
      BY <1>1, <1>4, <2>3 DEF Kept, Scaling
    <3>2. a = CamBase(col, 0) /\ a = Selected(i, col)
      BY <2>1, <3>1, Addresses
    <3>3. Promise!Effect(c, x) = Fill(CamBase(col, 0), v, x)
      BY <1>1, <3>1, EffectOfSets
    <3>4. QED
      BY <2>2, <3>2, <3>3
  <2>6. Runs(exact, s, Idle(c0, m0, x, b, f), Freed(n, y, b)) /\ y \in Memory
    BY <2>1, <2>2, <2>5
  <2>4. QED
    BY <1>2, <2>1, <2>2, <2>3, <2>6, FreedOutcome
<1> HIDE DEF s
<1>5. Does(c, s)
  BY <1>2, <1>4, DoesByOutcome
<1>6. QED
  BY <1>5 DEF s

LEMMA SetLeftDoes ==
  ASSUME NEW v \in Byte, NEW c, c = [fn |-> "ap_set_value_cam_a_left", value |-> v]
  PROVE  Does(c, << Store(CamBase(CAM_A, 0), v) >> \o Trigger(TARGET_C, Mode(LEFT, CAM_A, HORIZONTAL, SET))
                   \o << Wait, Release >>)
<1> DEFINE s == << Store(CamBase(CAM_A, 0), v) >> \o Trigger(TARGET_C, Mode(LEFT, CAM_A, HORIZONTAL, SET))
                  \o << Wait, Release >>
<1>1. c.fn = "ap_set_value_cam_a_left" /\ c.value = v
  OBVIOUS
<1>2. c.fn # "none" /\ c.fn \notin Restarts /\ c.fn \notin Loading
  BY <1>1 DEF Restarts, Loading
<1>3. /\ CamBase(CAM_A, 0) \in Nat /\ LEFT \in InternalCol /\ CAM_A \in APCollunm
      /\ CamBase(CAM_A, 0) = Selected(LEFT, CAM_A)
  BY Parameters, BaseIsAddress, Addresses DEF LEFT, InternalCol
<1>4. ASSUME NEW exact \in BOOLEAN, NEW c0 \in ControlReg, NEW m0 \in ModeReg, NEW x \in Memory,
             NEW f \in BOOLEAN
      PROVE  Outcome(c, s, exact, c0, m0, x, f)
  <2> DEFINE a == CamBase(CAM_A, 0)
             n == set_mode_reg(LEFT, CAM_A, HORIZONTAL, SET)
             y == Computed(Fired(STATIC, TARGET_C), n, Stored(a, v, x), Row)
             b == << >>
             w == << Store(a, v) >> \o Trigger(TARGET_C, Mode(LEFT, CAM_A, HORIZONTAL, SET))
                    \o << Wait, Release >>
  <2>1. /\ b \in Seq(Byte) /\ b = << >> /\ n = set_mode_reg(LEFT, CAM_A, HORIZONTAL, SET)
        /\ y = Computed(Fired(STATIC, TARGET_C), n, Stored(a, v, x), Row)
        /\ w = s /\ a \in Nat /\ a = CamBase(CAM_A, 0)
    BY <1>3
  <2> HIDE DEF s, n, y, b, a
  <2>2. n \in ModeReg /\ y \in Memory /\ (a = Selected(LEFT, CAM_A) => y = Fill(a, v, x))
    BY <1>3, <2>1, SetResult
  <2>3. Runs(exact, w, Idle(c0, m0, x, b, f), Freed(n, y, b))
    BY <1>3, <2>1, SetRuns
  <2>4. Promise!Effect(c, x) = Fill(CamBase(CAM_A, 0), v, x)
    BY <1>1, EffectOfSets
  <2>5. y \in Memory /\ n \in ModeReg /\ y = Promise!Effect(c, x)
    BY <1>3, <2>1, <2>2, <2>4
  <2> HIDE DEF w
  <2>6. Runs(exact, s, Idle(c0, m0, x, b, f), Freed(n, y, b))
    BY <2>1, <2>3
  <2>7. QED
    BY <1>2, <2>1, <2>5, <2>6, FreedOutcome
<1> HIDE DEF s
<1>5. Does(c, s)
  BY <1>2, <1>4, DoesByOutcome
<1>6. QED
  BY <1>5 DEF s

\* A single store, as a vector of one byte.
LEMMA StoredIsPut ==
  ASSUME NEW a \in Nat, NEW v, NEW x \in Memory
  PROVE  Stored(a, v, x) = Put(a, << v >>, x)
<1>1. /\ Len(<< v >>) = 1 /\ << v >>[1] = v
      /\ x = [d \in CamAddr |-> x[d]]
  BY DEF Memory
<1>2. \A d \in CamAddr : d \in Int
  BY DEF CamAddr
<1>3. \A d \in CamAddr : d - a \in 0 .. 1 - 1 <=> d = a
  BY <1>2
<1>4. \A d \in CamAddr : d = a => << v >>[d - a + 1] = v
  <2>1. a - a + 1 = 1
    OBVIOUS
  <2>2. QED
    BY <1>1, <2>1
<1>5. Put(a, << v >>, x) = [d \in CamAddr |-> IF d = a THEN v ELSE x[d]]
  BY <1>1, <1>3, <1>4 DEF Put
<1>6. CASE a \in CamAddr
  BY <1>1, <1>5, <1>6 DEF Stored, Memory
<1>7. CASE a \notin CamAddr
  BY <1>1, <1>5, <1>7 DEF Stored
<1>8. QED
  BY <1>6, <1>7

LEMMA EffectOfSearch ==
  ASSUME NEW c, NEW x, c.fn = "ap_search", c.internal_col = LEFT
  PROVE  Promise!Effect(c, x)
           = Operate(SEARCH, c.internal_col, c.target, Put(CamBase(CAM_B, 0), << c.value >>, x))
<1>1. Promise!Side(c.internal_col) = 0
  BY SideIs
<1>2. Promise!Effect(c, x)
        = Operate(SEARCH, c.internal_col, c.target,
                  Put(CamBase(CAM_B, Promise!Side(c.internal_col)), << c.value >>, x))
  BY EffectOfCommands, Zenon
<1>3. QED
  BY <1>1, <1>2, Zenon

LEMMA SearchDoes ==
  ASSUME NEW v \in Byte, NEW i \in Columns, NEW t \in Targets, NEW a, NEW c,
         a = CamBase(CAM_B, IF i = 1 THEN 1 ELSE 0),
         c = [fn |-> "ap_search", value |-> v, internal_col |-> i, target |-> t]
  PROVE  Does(c, << Store(a, v) >> \o Trigger(t, Mode(i, CAM_A, HORIZONTAL, SEARCH))
                   \o << Wait, EndCycles >>)
<1> DEFINE s == << Store(a, v) >> \o Trigger(t, Mode(i, CAM_A, HORIZONTAL, SEARCH))
                  \o << Wait, EndCycles >>
<1>1. c.fn = "ap_search" /\ c.value = v /\ c.internal_col = i /\ c.target = t
  OBVIOUS
<1>2. c.fn # "none" /\ c.fn \notin Restarts /\ c.fn \notin Loading
  BY <1>1 DEF Restarts, Loading
<1>3. a \in Nat /\ (i = LEFT => a = CamBase(CAM_B, 0))
  BY Parameters, BaseIsAddress, Addresses
<1>4. i \in InternalCol /\ CAM_A \in APCollunm /\ SEARCH \in APOperations /\ t \in {TARGET_C, TARGET_A}
  BY Parameters DEF Targets
<1>5. ASSUME NEW exact \in BOOLEAN, NEW c0 \in ControlReg, NEW m0 \in ModeReg, NEW x \in Memory,
             NEW f \in BOOLEAN, exact => Kept(c)
      PROVE  Outcome(c, s, exact, c0, m0, x, f)
  <2> DEFINE k == Fired(STATIC, t)
             n == set_mode_reg(i, CAM_A, HORIZONTAL, SEARCH)
             z == Stored(a, v, x)
             y == Computed(k, n, z, Row)
             u == << Store(a, v) >>
             go == u \o Trigger(t, Mode(i, CAM_A, HORIZONTAL, SEARCH))
             b == << >>
  <2>1. b \in Seq(Byte) /\ b = << >>
    OBVIOUS
  <2> HIDE DEF b
  <2>2. z \in Memory /\ Runs(exact, u, Idle(c0, m0, x, b, f), Idle(c0, m0, z, b, f))
    BY <1>3, <2>1, StoreRuns
  <2>3. exact => y = Promise!Effect(c, x)
    <3>1. SUFFICES ASSUME exact
                   PROVE  y = Promise!Effect(c, x)
      OBVIOUS
    <3>2. i = LEFT
      BY <1>1, <1>5, <3>1 DEF Kept, Scaling
    <3>3. Promise!Effect(c, x) = Operate(SEARCH, i, t, Put(CamBase(CAM_B, 0), << v >>, x))
      BY <1>1, <3>2, EffectOfSearch
    <3>4. z = Put(CamBase(CAM_B, 0), << v >>, x)
      BY <1>3, <3>2, StoredIsPut
    <3> HIDE DEF z
    <3>5. QED
      BY <3>3, <3>4 DEF Operate, Fired
  <2> HIDE DEF z, u
  <2>4. k \in ControlReg /\ n \in ModeReg
    BY <1>4, <2>1, <2>2, StartRuns
  <2>5. Runs(exact, go, Idle(c0, m0, x, b, f), Pending(k, n, z, b))
    BY <1>4, <2>1, <2>2, PrefixedRuns
  <2>6. s = go \o << Wait, EndCycles >> /\ y = Computed(k, n, z, Row)
    BY DEF u
  <2> HIDE DEF k, n, y, go, s
  <2>7. /\ y \in Memory
        /\ Runs(exact, go \o << Wait, EndCycles >>, Idle(c0, m0, x, b, f), Finished(k, n, y, b))
    BY <2>1, <2>2, <2>4, <2>5, <2>6, EndRuns
  <2>8. Runs(exact, s, Idle(c0, m0, x, b, f), Finished(k, n, y, b))
    BY <2>6, <2>7
  <2>9. QED
    BY <1>1, <2>1, <2>3, <2>4, <2>7, <2>8, FinishedOutcome
<1> HIDE DEF s
<1>6. Does(c, s)
  BY <1>2, <1>5, DoesByOutcome
<1>7. QED
  BY <1>6 DEF s

LEMMA EffectOfTest ==
  ASSUME NEW c, NEW x, c.fn = "ap_computing_horizontal_test", c.internal_col = LEFT
  PROVE  /\ Promise!Effect(c, x)
              = Operate(c.op, c.internal_col, TARGET_C,
                        Put(CamBase(CAM_B, 0), c.B, Put(CamBase(CAM_A, 0), c.A, x)))
         /\ Promise!Output(c, x) = Promise!Bytes(CamBase(CAM_C, 0), AP_COL_SIZE, Promise!Effect(c, x))
<1>1. Promise!Side(c.internal_col) = 0
  BY SideIs
<1>2. Promise!Effect(c, x)
        = Operate(c.op, c.internal_col, TARGET_C,
                  Put(CamBase(CAM_B, Promise!Side(c.internal_col)), c.B,
                      Put(CamBase(CAM_A, Promise!Side(c.internal_col)), c.A, x)))
  BY EffectOfCommands, Zenon
<1>3. Promise!Output(c, x) = Promise!Bytes(CamBase(CAM_C, 0), AP_COL_SIZE, Promise!Effect(c, x))
  BY OutputOf, Zenon
<1>4. QED
  BY <1>1, <1>2, <1>3, Zenon

LEMMA TestDoes ==
  ASSUME NEW op \in Commands, NEW i \in Columns, NEW A \in Vectors, NEW B \in Vectors,
         NEW size \in Nat, size = AP_COL_SIZE, NEW c,
         c = [fn |-> "ap_computing_horizontal_test", op |-> op, A |-> A, B |-> B, internal_col |-> i]
  PROVE  Does(c, ap_computing(op, i, HORIZONTAL, A, B) \o << Wait, EndCycles, Release >>
                   \o LoadVector(CamBase(CAM_C, 0), size))
<1> DEFINE u == StoreVector(VectorBase(CAM_A, i), A) \o StoreVector(VectorBase(CAM_B, i), B)
           go == u \o Trigger(TARGET_C, Mode(i, CAM_A, HORIZONTAL, op))
           load == LoadVector(CamBase(CAM_C, 0), size)
           s == ap_computing(op, i, HORIZONTAL, A, B) \o << Wait, EndCycles, Release >> \o load
<1>1. /\ c.fn = "ap_computing_horizontal_test" /\ c.op = op /\ c.internal_col = i
      /\ c.A = A /\ c.B = B
  OBVIOUS
<1>2. c.fn # "none" /\ c.fn \notin Restarts
  BY <1>1 DEF Restarts
<1>3. /\ VectorBase(CAM_A, i) \in Nat /\ VectorBase(CAM_B, i) \in Nat
      /\ A \in Seq(Byte) /\ B \in Seq(Byte)
  BY Parameters, VectorAddress, ColumnsAssumption, VectorsAssumption
<1>4. /\ i \in InternalCol /\ CAM_A \in APCollunm /\ op \in APOperations
      /\ TARGET_C \in {TARGET_C, TARGET_A}
  BY Parameters
<1>5. CamBase(CAM_C, 0) \in Nat /\ \A j \in 1 .. size : CamBase(CAM_C, 0) + j - 1 \in CamAddr
  <2>1. CamBase(CAM_C, 0) \in Bases
    BY Parameters DEF Bases
  <2>2. QED
    BY <2>1, WholeColumn, BaseIsAddress
<1>6. s = go \o << Wait, EndCycles, Release >> \o load
  BY DEF ap_computing
<1>7. ASSUME NEW exact \in BOOLEAN, NEW c0 \in ControlReg, NEW m0 \in ModeReg, NEW x \in Memory,
             NEW f \in BOOLEAN, exact => Kept(c)
      PROVE  Outcome(c, s, exact, c0, m0, x, f)
  <2> DEFINE k == Fired(STATIC, TARGET_C)
             n == set_mode_reg(i, CAM_A, HORIZONTAL, op)
             x1 == Put(VectorBase(CAM_A, i), A, x)
             x2 == Put(VectorBase(CAM_B, i), B, x1)
             y == Computed(k, n, x2, Row)
             e == << >>
             b == Bytes(CamBase(CAM_C, 0), size, y)
             w == << Wait, EndCycles, Release >>
  <2>1. e \in Seq(Byte) /\ e = << >>
    OBVIOUS
  <2> HIDE DEF e, s, load
  <2>2. /\ x1 \in Memory
        /\ Runs(exact, StoreVector(VectorBase(CAM_A, i), A), Idle(c0, m0, x, e, f), Idle(c0, m0, x1, e, f))
    BY <1>3, <2>1, StoreVectorRuns
  <2> HIDE DEF b
  <2>3. exact => y = Promise!Effect(c, x)
    <3>1. SUFFICES ASSUME exact
                   PROVE  y = Promise!Effect(c, x)
      OBVIOUS
    <3>2. i = LEFT
      BY <1>1, <1>7, <3>1 DEF Kept, Scaling
    <3>3. Promise!Effect(c, x)
            = Operate(op, i, TARGET_C, Put(CamBase(CAM_B, 0), B, Put(CamBase(CAM_A, 0), A, x)))
      BY <1>1, <3>2, EffectOfTest
    <3>4. VectorBase(CAM_A, i) = CamBase(CAM_A, 0) /\ VectorBase(CAM_B, i) = CamBase(CAM_B, 0)
      BY <3>2, Addresses, Parameters
    <3>5. QED
      BY <3>3, <3>4 DEF Operate, Fired
  <2> HIDE DEF x1
  <2>4. /\ x2 \in Memory
        /\ Runs(exact, StoreVector(VectorBase(CAM_B, i), B), Idle(c0, m0, x1, e, f), Idle(c0, m0, x2, e, f))
    BY <1>3, <2>1, <2>2, StoreVectorRuns
  <2> HIDE DEF x2
  <2>5. Runs(exact, u, Idle(c0, m0, x, e, f), Idle(c0, m0, x2, e, f))
    BY <2>2, <2>4, RunsJoin
  <2> HIDE DEF u
  <2>6. k \in ControlReg /\ n \in ModeReg
    BY <1>4, <2>1, <2>4, StartRuns
  <2>7. Runs(exact, go, Idle(c0, m0, x, e, f), Pending(k, n, x2, e))
    BY <1>4, <2>1, <2>4, <2>5, PrefixedRuns
  <2>8. y = Computed(k, n, x2, Row) /\ w = << Wait, EndCycles, Release >>
    OBVIOUS
  <2> HIDE DEF k, n, y, go, w
  <2>9. y \in Memory /\ Runs(exact, go \o << Wait, EndCycles, Release >>, Idle(c0, m0, x, e, f), Freed(n, y, e))
    BY <2>1, <2>4, <2>6, <2>7, <2>8, EndRuns
  <2>10. Runs(exact, go \o w, Idle(c0, m0, x, e, f), Freed(n, y, e))
    BY <2>8, <2>9
  <2>11. /\ b \in Seq(Byte)
         /\ Runs(exact, go \o w \o load, Idle(c0, m0, x, e, f), Freed(n, y, b))
    BY <1>5, <2>1, <2>6, <2>9, <2>10, FreedLoads DEF load, b
  <2>12. exact => b = Promise!Output(c, x)
    <3>1. SUFFICES ASSUME exact
                   PROVE  b = Promise!Output(c, x)
      OBVIOUS
    <3>2. i = LEFT
      BY <1>1, <1>7, <3>1 DEF Kept, Scaling
    <3>3. Promise!Output(c, x) = Promise!Bytes(CamBase(CAM_C, 0), size, y)
      BY <1>1, <2>3, <3>1, <3>2, EffectOfTest
    <3>4. QED
      BY <1>5, <3>3, PromiseBytes DEF b
  <2>13. Runs(exact, s, Idle(c0, m0, x, e, f), Freed(n, y, b))
    BY <1>6, <2>8, <2>11
  <2>14. QED
    BY <2>1, <2>3, <2>6, <2>9, <2>11, <2>12, <2>13, BytesOutcome
<1> HIDE DEF s
<1>8. Does(c, s)
  BY <1>2, <1>7, DoesByOutcome
<1>9. QED
  BY <1>8 DEF s, load

-----------------------------------------------------------------------------
(* Vertical: legacy functions. Nothing is promised of the columns they leave. *)

LEMMA VerticalStartRuns ==
  ASSUME NEW exact \in BOOLEAN, ~ exact, NEW c \in ControlReg, NEW m \in ModeReg, NEW x \in Memory,
         NEW b \in Seq(Byte), NEW f \in BOOLEAN, NEW i \in InternalCol, NEW col \in APCollunm,
         NEW op \in APOperations
  PROVE  /\ Fired(DYNAMIC, TARGET_A) \in ControlReg
         /\ set_mode_reg(i, col, VERTICAL, op) \in ModeReg
         /\ Runs(exact, VerticalTrigger(op, col, i), Idle(c, m, x, b, f),
                 Pending(Fired(DYNAMIC, TARGET_A), set_mode_reg(i, col, VERTICAL, op), x, b))
<1>1. /\ {} \in SUBSET Bits /\ DYNAMIC \in {DYNAMIC, STATIC} /\ VERTICAL \in {HORIZONTAL, VERTICAL}
      /\ TARGET_A \in {TARGET_C, TARGET_A}
  BY DEF Bits
<1>2. VerticalTrigger(op, col, i) = Fire(DYNAMIC, TARGET_A, i, col, VERTICAL, op, DYNAMIC, TARGET_A)
  BY DEF VerticalTrigger, Fire
<1>3. Fired(DYNAMIC, TARGET_A) \in ControlReg /\ set_mode_reg(i, col, VERTICAL, op) \in ModeReg
  BY <1>1, RegisterValues DEF Fired
<1>4. QED
  BY <1>1, <1>2, <1>3, TriggerRuns

\* What they do share: they wait for the engine and end released.
LEMMA VerticalDoes ==
  ASSUME NEW c, NEW s, c.fn \in VerticalFns,
         \A exact \in BOOLEAN, c0 \in ControlReg, m0 \in ModeReg, x \in Memory, f \in BOOLEAN :
           ~ exact => Outcome(c, s, exact, c0, m0, x, f)
  PROVE  Does(c, s)
<1>1. c.fn # "none" /\ c.fn \notin Restarts /\ ~ Kept(c)
  BY DEF VerticalFns, Restarts, Kept
<1>2. QED
  BY <1>1, DoesByOutcome

LEMMA VerticalTestDoes ==
  ASSUME NEW op \in Commands, NEW i \in Columns, NEW V \in Vectors, NEW size \in Nat, NEW c,
         c = [fn |-> "ap_computing_vertical_test", op |-> op, internal_col |-> i, V |-> V]
  PROVE  Does(c, ap_vertical_computing(op, CAM_B, i, V) \o << Wait, Release >>
                   \o LoadVector(VectorBase(CAM_C, i), size))
<1> DEFINE u == StoreVector(VectorBase(CAM_B, i), V)
           g == VerticalTrigger(op, CAM_B, i)
           go == u \o g
           load == LoadVector(VectorBase(CAM_C, i), size)
           s == ap_vertical_computing(op, CAM_B, i, V) \o << Wait, Release >> \o load
<1>1. c.fn \in VerticalFns
  BY DEF VerticalFns
<1>2. VectorBase(CAM_B, i) \in Nat /\ VectorBase(CAM_C, i) \in Nat /\ V \in Seq(Byte)
  BY Parameters, VectorAddress, ColumnsAssumption, VectorsAssumption
<1>3. i \in InternalCol /\ CAM_B \in APCollunm /\ op \in APOperations
  BY Parameters
<1>4. s = go \o << Wait, Release >> \o load
  BY DEF ap_vertical_computing
<1>5. ASSUME NEW exact \in BOOLEAN, ~ exact, NEW c0 \in ControlReg, NEW m0 \in ModeReg,
             NEW x \in Memory, NEW f \in BOOLEAN
      PROVE  Outcome(c, s, exact, c0, m0, x, f)
  <2> DEFINE k == Fired(DYNAMIC, TARGET_A)
             n == set_mode_reg(i, CAM_B, VERTICAL, op)
             z == Put(VectorBase(CAM_B, i), V, x)
             y == Computed(k, n, z, Row)
             e == << >>
             b == Bytes(VectorBase(CAM_C, i), size, y)
             w == << Wait, Release >>
  <2>1. e \in Seq(Byte) /\ e = << >>
    OBVIOUS
  <2> HIDE DEF e, s, load, b
  <2>2. z \in Memory /\ Runs(exact, u, Idle(c0, m0, x, e, f), Idle(c0, m0, z, e, f))
    BY <1>2, <2>1, StoreVectorRuns
  <2> HIDE DEF z, u
  <2>3. k \in ControlReg /\ n \in ModeReg
    BY <1>3, <1>5, <2>1, <2>2, VerticalStartRuns
  <2>4. Runs(exact, g, Idle(c0, m0, z, e, f), Pending(k, n, z, e))
    BY <1>3, <1>5, <2>1, <2>2, VerticalStartRuns
  <2> HIDE DEF k, n, g
  <2>5. Runs(exact, go, Idle(c0, m0, x, e, f), Pending(k, n, z, e))
    BY <2>2, <2>4, RunsJoin
  <2>6. y = Computed(k, n, z, Row) /\ w = << Wait, Release >>
    OBVIOUS
  <2> HIDE DEF y, go, w
  <2>7. y \in Memory /\ Runs(exact, go \o << Wait, Release >>, Idle(c0, m0, x, e, f), Freed(n, y, e))
    BY <2>1, <2>2, <2>3, <2>5, <2>6, EndRuns
  <2>8. Runs(exact, go \o w, Idle(c0, m0, x, e, f), Freed(n, y, e))
    BY <2>6, <2>7
  <2>9. /\ b \in Seq(Byte)
        /\ Runs(exact, go \o w \o load, Idle(c0, m0, x, e, f), Freed(n, y, b))
    BY <1>2, <1>5, <2>1, <2>3, <2>7, <2>8, FreedLoads DEF load, b
  <2>10. Runs(exact, s, Idle(c0, m0, x, e, f), Freed(n, y, b))
    BY <1>4, <2>6, <2>9
  <2>11. QED
    BY <1>5, <2>1, <2>3, <2>7, <2>9, <2>10, BytesOutcome
<1> HIDE DEF s
<1>6. Does(c, s)
  BY <1>1, <1>5, VerticalDoes
<1>7. QED
  BY <1>6 DEF s, load

LEMMA VerticalWaitDoes ==
  ASSUME NEW op \in Commands, NEW i \in Columns, NEW c,
         c = [fn |-> "ap_trigger_vertical_computing_w_wait", op |-> op, col |-> CAM_A,
              internal_col |-> i]
  PROVE  Does(c, VerticalTrigger(op, CAM_A, i) \o << Wait, Release >>)
<1> DEFINE go == VerticalTrigger(op, CAM_A, i)
           s == go \o << Wait, Release >>
<1>1. c.fn \in VerticalFns /\ c.fn \notin Loading
  BY DEF VerticalFns, Loading
<1>2. i \in InternalCol /\ CAM_A \in APCollunm /\ op \in APOperations
  BY Parameters
<1>3. ASSUME NEW exact \in BOOLEAN, ~ exact, NEW c0 \in ControlReg, NEW m0 \in ModeReg,
             NEW x \in Memory, NEW f \in BOOLEAN
      PROVE  Outcome(c, s, exact, c0, m0, x, f)
  <2> DEFINE k == Fired(DYNAMIC, TARGET_A)
             n == set_mode_reg(i, CAM_A, VERTICAL, op)
             y == Computed(k, n, x, Row)
             e == << >>
  <2>1. e \in Seq(Byte) /\ e = << >>
    OBVIOUS
  <2> HIDE DEF e
  <2>2. k \in ControlReg /\ n \in ModeReg
    BY <1>2, <1>3, <2>1, VerticalStartRuns
  <2>3. Runs(exact, go, Idle(c0, m0, x, e, f), Pending(k, n, x, e))
    BY <1>2, <1>3, <2>1, VerticalStartRuns
  <2>4. y = Computed(k, n, x, Row) /\ s = go \o << Wait, Release >>
    OBVIOUS
  <2> HIDE DEF k, n, y, go, s
  <2>5. y \in Memory /\ Runs(exact, go \o << Wait, Release >>, Idle(c0, m0, x, e, f), Freed(n, y, e))
    BY <2>1, <2>2, <2>3, <2>4, EndRuns
  <2>6. Runs(exact, s, Idle(c0, m0, x, e, f), Freed(n, y, e))
    BY <2>4, <2>5
  <2>7. QED
    BY <1>1, <1>3, <2>1, <2>2, <2>5, <2>6, FreedOutcome
<1> HIDE DEF s
<1>4. Does(c, s)
  BY <1>1, <1>3, VerticalDoes
<1>5. QED
  BY <1>4 DEF s, go

LEMMA VerticalTargetDoes ==
  ASSUME NEW op \in Commands, NEW i \in Columns, NEW t \in Targets, NEW c,
         c = [fn |-> "ap_trigger_vertical_computing_target", op |-> op, col |-> CAM_A,
              internal_col |-> i, target |-> t]
  PROVE  Does(c, << Control(DYNAMIC, TARGET_A, FALSE, {}), Mode(i, CAM_A, VERTICAL, op),
                    Control(STATIC, t, TRUE, {}), Wait, Release >>)
<1> DEFINE s == << Control(DYNAMIC, TARGET_A, FALSE, {}), Mode(i, CAM_A, VERTICAL, op),
                   Control(STATIC, t, TRUE, {}), Wait, Release >>
<1>1. c.fn \in VerticalFns /\ c.fn \notin Loading
  BY DEF VerticalFns, Loading
<1>2. /\ i \in InternalCol /\ CAM_A \in APCollunm /\ op \in APOperations
      /\ TARGET_A \in {TARGET_C, TARGET_A} /\ t \in {TARGET_C, TARGET_A}
      /\ DYNAMIC \in {DYNAMIC, STATIC} /\ STATIC \in {DYNAMIC, STATIC}
      /\ VERTICAL \in {HORIZONTAL, VERTICAL} /\ {} \in SUBSET Bits
  BY Parameters DEF Targets, Bits
<1>3. ASSUME NEW exact \in BOOLEAN, ~ exact, NEW c0 \in ControlReg, NEW m0 \in ModeReg,
             NEW x \in Memory, NEW f \in BOOLEAN
      PROVE  Outcome(c, s, exact, c0, m0, x, f)
  <2> DEFINE n == set_mode_reg(i, CAM_A, VERTICAL, op)
             y == Computed(Fired(STATIC, t), n, x, Row)
             b == << >>
  <2>1. /\ b \in Seq(Byte) /\ b = << >> /\ y = Computed(Fired(STATIC, t), n, x, Row)
    OBVIOUS
  <2>2. n \in ModeReg /\ Fired(STATIC, t) \in ControlReg
    BY <1>2, RegisterValues DEF Fired
  <2>3. y \in Memory
    BY <2>2, ComputedIsMemory
  <2> HIDE DEF y, b
  <2>4. s = FireAndWait(DYNAMIC, TARGET_A, i, CAM_A, VERTICAL, op, t)
    BY DEF FireAndWait
  <2>5. Runs(exact, FireAndWait(DYNAMIC, TARGET_A, i, CAM_A, VERTICAL, op, t),
             Idle(c0, m0, x, b, f), Freed(n, y, b))
    BY <1>2, <1>3, <2>1, LiteralRuns
  <2> HIDE DEF n, s
  <2>6. Runs(exact, s, Idle(c0, m0, x, b, f), Freed(n, y, b))
    BY <2>4, <2>5
  <2>7. QED
    BY <1>1, <1>3, <2>1, <2>2, <2>3, <2>6, FreedOutcome
<1> HIDE DEF s
<1>4. Does(c, s)
  BY <1>1, <1>3, VerticalDoes
<1>5. QED
  BY <1>4 DEF s

-----------------------------------------------------------------------------
(* A call that begins, whichever it is, begins a program that does its work. *)

Begun ==
  \E c, s : /\ Begin(c, s) /\ Does(c, s)
            /\ c.fn \in Scaling => c.internal_col \in Columns

LEMMA MoveBegins ==
  ASSUME Move
  PROVE  Begun
<1>1. ASSUME NEW col \in APCollunm, NEW i \in Columns, NEW V \in Vectors,
             ap_write_vector(col, i, V)
      PROVE  Begun
  <2> DEFINE c == [fn |-> "ap_write_vector", col |-> col, internal_col |-> i, V |-> V]
             s == IF Len(V) > AP_COL_SIZE THEN << >> ELSE StoreVector(VectorBase(col, i), V)
  <2>1. Does(c, s)
    BY WriteVectorDoes
  <2>2. Begin(c, s)
    BY <1>1 DEF ap_write_vector
  <2>3. c.internal_col \in Columns
    OBVIOUS
  <2> HIDE DEF c, s
  <2>4. QED
    BY <2>1, <2>2, <2>3 DEF Begun
<1>2. ASSUME NEW col \in APCollunm, NEW i \in Columns,
             NEW n \in {AP_COL_SIZE, AP_COL_SIZE + 1}, ap_read_vector(col, i, n)
      PROVE  Begun
  <2> DEFINE c == [fn |-> "ap_read_vector", col |-> col, internal_col |-> i, size |-> n]
             s == IF n > AP_COL_SIZE THEN << >> ELSE LoadVector(VectorBase(col, i), n)
  <2>1. Does(c, s)
    BY ReadVectorDoes
  <2>2. Begin(c, s)
    BY <1>2 DEF ap_read_vector
  <2>3. c.internal_col \in Columns
    OBVIOUS
  <2> HIDE DEF c, s
  <2>4. QED
    BY <2>1, <2>2, <2>3 DEF Begun
<1>3. ASSUME NEW to \in Bases, NEW V \in Vectors, ap_memcpy_in(to, V)
      PROVE  Begun
  <2> DEFINE c == [fn |-> "ap_memcpy_in", to |-> to, V |-> V]
             s == StoreVector(to, V)
  <2>1. Does(c, s)
    BY MemcpyInDoes
  <2>2. Begin(c, s)
    BY <1>3 DEF ap_memcpy_in
  <2>3. c.fn \notin Scaling
    BY DEF Scaling
  <2> HIDE DEF c, s
  <2>4. QED
    BY <2>1, <2>2, <2>3 DEF Begun
<1>4. ASSUME NEW from \in Bases, ap_memcpy_out(from, AP_COL_SIZE)
      PROVE  Begun
  <2> DEFINE c == [fn |-> "ap_memcpy_out", from |-> from, bytes |-> AP_COL_SIZE]
             s == LoadVector(from, AP_COL_SIZE)
  <2>1. Does(c, s)
    BY ColSizeAssumption, MemcpyOutDoes
  <2>2. Begin(c, s)
    BY <1>4 DEF ap_memcpy_out
  <2>3. c.fn \notin Scaling
    BY DEF Scaling
  <2> HIDE DEF c, s
  <2>4. QED
    BY <2>1, <2>2, <2>3 DEF Begun
<1>5. ASSUME NEW to \in Bases, NEW from \in Bases, ap_memcpy(to, from, AP_COL_SIZE)
      PROVE  Begun
  <2> DEFINE c == [fn |-> "ap_memcpy", to |-> to, from |-> from, bytes |-> AP_COL_SIZE]
             s == [i \in 1 .. AP_COL_SIZE |-> Copy(to + i - 1, from + i - 1)]
  <2>1. to # from
    BY <1>5 DEF ap_memcpy
  <2>2. Does(c, s)
    BY <2>1, MemcpyDoes
  <2>3. Begin(c, s)
    BY <1>5 DEF ap_memcpy
  <2>4. c.fn \notin Scaling
    BY DEF Scaling
  <2> HIDE DEF c, s
  <2>5. QED
    BY <2>2, <2>3, <2>4 DEF Begun
<1>6. QED
  BY <1>1, <1>2, <1>3, <1>4, <1>5 DEF Move

LEMMA ResetBegins ==
  ASSUME Reset
  PROVE  Begun
<1> USE Parameters
<1>1. ASSUME warmup_ap
      PROVE  Begun
  <2> DEFINE c == [fn |-> "warmup_ap"]
             s == Warmup
  <2>1. Does(c, s)
    BY WarmupDoes
  <2>2. Begin(c, s)
    BY <1>1 DEF warmup_ap
  <2>3. c.fn \notin Scaling
    BY DEF Scaling
  <2> HIDE DEF c, s
  <2>4. QED
    BY <2>1, <2>2, <2>3 DEF Begun
<1>2. ASSUME reset_ap_engine
      PROVE  Begun
  <2> DEFINE c == [fn |-> "reset_ap_engine"]
             s == << Control(STATIC, TARGET_C, FALSE, {3}), Control(STATIC, TARGET_C, FALSE, {}),
                     Release, ZeroMode >>
  <2>1. Does(c, s)
    BY ResetEngineDoes
  <2>2. Begin(c, s)
    BY <1>2 DEF reset_ap_engine
  <2>3. c.fn \notin Scaling
    BY DEF Scaling
  <2> HIDE DEF c, s
  <2>4. QED
    BY <2>1, <2>2, <2>3 DEF Begun
<1>3. ASSUME release_ap_if
      PROVE  Begun
  <2> DEFINE c == [fn |-> "release_ap_if"]
             s == << Release >>
  <2>1. Does(c, s)
    BY ReleaseDoes
  <2>2. Begin(c, s)
    BY <1>3 DEF release_ap_if
  <2>3. c.fn \notin Scaling
    BY DEF Scaling
  <2> HIDE DEF c, s
  <2>4. QED
    BY <2>1, <2>2, <2>3 DEF Begun
<1>4. ASSUME ap_flush_a_1
      PROVE  Begun
  <2> DEFINE c == [fn |-> "ap_flush_a_1"]
             s == Flush(CAM_A, RIGHT)
  <2>1. c.fn = "ap_flush_a_1" /\ c.fn \in Flushes /\ Promise!Side(RIGHT) = 1
    BY SideIs DEF Flushes
  <2>2. \A x : Promise!Effect(c, x) = Fill(CamBase(CAM_A, Promise!Side(RIGHT)), 0, x)
    BY <2>1, EffectOfResets
  <2>3. Does(c, s)
    BY <2>1, <2>2, FlushDoes
  <2>4. Begin(c, s)
    BY <1>4 DEF ap_flush_a_1
  <2>5. c.fn \notin Scaling
    BY DEF Scaling
  <2> HIDE DEF c, s
  <2>6. QED
    BY <2>3, <2>4, <2>5 DEF Begun
<1>5. ASSUME ap_flush_b_0
      PROVE  Begun
  <2> DEFINE c == [fn |-> "ap_flush_b_0"]
             s == Flush(CAM_B, LEFT)
  <2>1. c.fn = "ap_flush_b_0" /\ c.fn \in Flushes /\ Promise!Side(LEFT) = 0
    BY SideIs DEF Flushes
  <2>2. \A x : Promise!Effect(c, x) = Fill(CamBase(CAM_B, Promise!Side(LEFT)), 0, x)
    BY <2>1, EffectOfResets
  <2>3. Does(c, s)
    BY <2>1, <2>2, FlushDoes
  <2>4. Begin(c, s)
    BY <1>5 DEF ap_flush_b_0
  <2>5. c.fn \notin Scaling
    BY DEF Scaling
  <2> HIDE DEF c, s
  <2>6. QED
    BY <2>3, <2>4, <2>5 DEF Begun
<1>6. ASSUME ap_flush_b_1
      PROVE  Begun
  <2> DEFINE c == [fn |-> "ap_flush_b_1"]
             s == Flush(CAM_B, RIGHT)
  <2>1. c.fn = "ap_flush_b_1" /\ c.fn \in Flushes /\ Promise!Side(RIGHT) = 1
    BY SideIs DEF Flushes
  <2>2. \A x : Promise!Effect(c, x) = Fill(CamBase(CAM_B, Promise!Side(RIGHT)), 0, x)
    BY <2>1, EffectOfResets
  <2>3. Does(c, s)
    BY <2>1, <2>2, FlushDoes
  <2>4. Begin(c, s)
    BY <1>6 DEF ap_flush_b_1
  <2>5. c.fn \notin Scaling
    BY DEF Scaling
  <2> HIDE DEF c, s
  <2>6. QED
    BY <2>3, <2>4, <2>5 DEF Begun
<1>7. ASSUME ap_flush_c_1
      PROVE  Begun
  <2> DEFINE c == [fn |-> "ap_flush_c_1"]
             s == Flush(CAM_C, RIGHT)
  <2>1. c.fn = "ap_flush_c_1" /\ c.fn \in Flushes /\ Promise!Side(RIGHT) = 1
    BY SideIs DEF Flushes
  <2>2. \A x : Promise!Effect(c, x) = Fill(CamBase(CAM_C, Promise!Side(RIGHT)), 0, x)
    BY <2>1, EffectOfResets
  <2>3. Does(c, s)
    BY <2>1, <2>2, FlushDoes
  <2>4. Begin(c, s)
    BY <1>7 DEF ap_flush_c_1
  <2>5. c.fn \notin Scaling
    BY DEF Scaling
  <2> HIDE DEF c, s
  <2>6. QED
    BY <2>3, <2>4, <2>5 DEF Begun
<1>8. ASSUME ap_flush_c_0
      PROVE  Begun
  <2> DEFINE c == [fn |-> "ap_flush_c_0"]
             s == << ZeroMode, Control(STATIC, TARGET_C, FALSE, {}),
                     Control(STATIC, TARGET_C, FALSE, {CAM_C}), Release >>
  <2>1. Does(c, s)
    BY FlushCDoes
  <2>2. Begin(c, s)
    BY <1>8 DEF ap_flush_c_0
  <2>3. c.fn \notin Scaling
    BY DEF Scaling
  <2> HIDE DEF c, s
  <2>4. QED
    BY <2>1, <2>2, <2>3 DEF Begun
<1>9. ASSUME NEW col \in APCollunm, NEW i \in Columns, ap_flush_col(col, i)
      PROVE  Begun
  <2> DEFINE c == [fn |-> "ap_flush_col", col |-> col, internal_col |-> i]
             s == << Control(STATIC, TARGET_C, FALSE, {}), Mode(i, col, HORIZONTAL, OR),
                     Control(STATIC, TARGET_C, FALSE, {col}), Control(STATIC, TARGET_C, FALSE, {}),
                     Release >>
  <2>1. c.fn = "ap_flush_col" /\ c.fn \in Flushes /\ c.col = col /\ c.internal_col = i
    BY DEF Flushes
  <2>2. \A x : Promise!Effect(c, x) = Fill(CamBase(col, Promise!Side(i)), 0, x)
    BY <2>1, EffectOfResets
  <2>3. Does(c, s)
    BY <2>1, <2>2, ColumnsAssumption, FlushDoes
  <2>4. Begin(c, s)
    BY <1>9 DEF ap_flush_col
  <2>5. c.fn \notin Scaling
    BY DEF Scaling
  <2> HIDE DEF c, s
  <2>6. QED
    BY <2>3, <2>4, <2>5 DEF Begun
<1>10. QED
  BY <1>1, <1>2, <1>3, <1>4, <1>5, <1>6, <1>7, <1>8, <1>9 DEF Reset

LEMMA ComputeBegins ==
  ASSUME Compute
  PROVE  Begun
<1>1. ASSUME NEW op \in Commands, NEW i \in Columns,
             ap_trigger_computing_w_wait(op, HORIZONTAL, i)
      PROVE  Begun
  <2> DEFINE c == [fn |-> "ap_trigger_computing_w_wait", op |-> op, direction |-> HORIZONTAL,
                   internal_col |-> i]
             s == Trigger(TARGET_C, Mode(i, CAM_A, HORIZONTAL, op)) \o << Wait, Release >>
  <2>1. Does(c, s)
    BY TriggerDoes
  <2>2. Begin(c, s)
    BY <1>1 DEF ap_trigger_computing_w_wait
  <2>3. c.fn \notin Scaling
    BY DEF Scaling
  <2> HIDE DEF c, s
  <2>4. QED
    BY <2>1, <2>2, <2>3 DEF Begun
<1>2. ASSUME NEW op \in Commands, NEW i \in Columns, NEW A \in Vectors, NEW B \in Vectors,
             ap_computing_horizontal_test(op, i, A, B)
      PROVE  Begun
  <2> DEFINE c == [fn |-> "ap_computing_horizontal_test", op |-> op, A |-> A, B |-> B,
                   internal_col |-> i]
             s == ap_computing(op, i, HORIZONTAL, A, B) \o << Wait, EndCycles, Release >>
                     \o LoadVector(CamBase(CAM_C, 0), AP_COL_SIZE)
  <2>1. Does(c, s)
    BY ColSizeAssumption, TestDoes
  <2>2. Begin(c, s)
    BY <1>2 DEF ap_computing_horizontal_test
  <2>3. c.internal_col \in Columns
    OBVIOUS
  <2> HIDE DEF c, s
  <2>4. QED
    BY <2>1, <2>2, <2>3 DEF Begun
<1>3. ASSUME NEW op \in Commands, NEW i \in Columns, NEW t \in Targets,
             ap_trigger_computing(op, CAM_A, i, HORIZONTAL, t)
      PROVE  Begun
  <2> DEFINE c == [fn |-> "ap_trigger_computing", op |-> op, direction |-> HORIZONTAL,
                   internal_col |-> i, target |-> t]
             s == Trigger(t, Mode(i, CAM_A, HORIZONTAL, op)) \o << Poll(5) >>
  <2>1. Does(c, s)
    BY PollDoes
  <2>2. Begin(c, s)
    BY <1>3 DEF ap_trigger_computing
  <2>3. c.fn \notin Scaling
    BY DEF Scaling
  <2> HIDE DEF c, s
  <2>4. QED
    BY <2>1, <2>2, <2>3 DEF Begun
<1>4. ASSUME NEW op \in Commands, NEW i \in Selectors,
             ap_trigger_computing_w_wait_target_a(op, HORIZONTAL, i)
      PROVE  Begun
  <2> DEFINE c == [fn |-> "ap_trigger_computing_w_wait_target_a", op |-> op, direction |-> HORIZONTAL,
                   internal_col |-> i]
             s == << Control(STATIC, TARGET_C, FALSE, {}), Mode(i, CAM_A, HORIZONTAL, op),
                     Control(STATIC, TARGET_A, TRUE, {}), Wait, Release >>
  <2>1. Does(c, s)
    BY TargetADoes
  <2>2. Begin(c, s)
    BY <1>4 DEF ap_trigger_computing_w_wait_target_a
  <2>3. c.fn \notin Scaling
    BY DEF Scaling
  <2> HIDE DEF c, s
  <2>4. QED
    BY <2>1, <2>2, <2>3 DEF Begun
<1>5. ASSUME NEW V \in Vectors, op_target_setup(V)
      PROVE  Begun
  <2> DEFINE c == [fn |-> "op_target_setup", V |-> V]
             s == StoreVector(CamBase(CAM_B, 1), V) \o StoreVector(CamBase(CAM_C, 1), V)
                     \o Trigger(TARGET_A, Mode(1, CAM_A, HORIZONTAL, ADD)) \o << Poll(3) >>
  <2>1. Does(c, s)
    BY TargetSetupDoes
  <2>2. Begin(c, s)
    BY <1>5 DEF op_target_setup
  <2>3. c.fn \notin Scaling
    BY DEF Scaling
  <2> HIDE DEF c, s
  <2>4. QED
    BY <2>1, <2>2, <2>3 DEF Begun
<1>6. ASSUME NEW col \in APCollunm, NEW i \in Columns, NEW v \in Byte, ap_set_value(col, i, v)
      PROVE  Begun
  <2> DEFINE c == [fn |-> "ap_set_value", col |-> col, internal_col |-> i, value |-> v]
             s == << Store(VectorBase(col, i), v) >> \o Trigger(TARGET_C, Mode(i, col, HORIZONTAL, SET))
                     \o << Wait, EndCycles, Release >>
  <2>1. Does(c, s)
    BY SetValueDoes
  <2>2. Begin(c, s)
    BY <1>6 DEF ap_set_value
  <2>3. c.internal_col \in Columns
    OBVIOUS
  <2> HIDE DEF c, s
  <2>4. QED
    BY <2>1, <2>2, <2>3 DEF Begun
<1>7. ASSUME NEW v \in Byte, ap_set_value_cam_a_left(v)
      PROVE  Begun
  <2> DEFINE c == [fn |-> "ap_set_value_cam_a_left", value |-> v]
             s == << Store(CamBase(CAM_A, 0), v) >> \o Trigger(TARGET_C, Mode(LEFT, CAM_A, HORIZONTAL, SET))
                     \o << Wait, Release >>
  <2>1. Does(c, s)
    BY SetLeftDoes
  <2>2. Begin(c, s)
    BY <1>7 DEF ap_set_value_cam_a_left
  <2>3. c.fn \notin Scaling
    BY DEF Scaling
  <2> HIDE DEF c, s
  <2>4. QED
    BY <2>1, <2>2, <2>3 DEF Begun
<1>8. ASSUME NEW v \in Byte, NEW i \in Columns, NEW t \in Targets, ap_search(v, i, t)
      PROVE  Begun
  <2> DEFINE c == [fn |-> "ap_search", value |-> v, internal_col |-> i, target |-> t]
             s == << Store(CamBase(CAM_B, IF i = 1 THEN 1 ELSE 0), v) >>
                     \o Trigger(t, Mode(i, CAM_A, HORIZONTAL, SEARCH)) \o << Wait, EndCycles >>
  <2>1. Does(c, s)
    BY SearchDoes
  <2>2. Begin(c, s)
    BY <1>8 DEF ap_search
  <2>3. c.internal_col \in Columns
    OBVIOUS
  <2> HIDE DEF c, s
  <2>4. QED
    BY <2>1, <2>2, <2>3 DEF Begun
<1>9. QED
  BY <1>1, <1>2, <1>3, <1>4, <1>5, <1>6, <1>7, <1>8 DEF Compute

LEMMA VerticalBegins ==
  ASSUME Vertical
  PROVE  Begun
<1>1. ASSUME NEW op \in Commands, NEW i \in Columns, NEW V \in Vectors,
             ap_computing_vertical_test(op, i, V)
      PROVE  Begun
  <2> DEFINE c == [fn |-> "ap_computing_vertical_test", op |-> op, internal_col |-> i, V |-> V]
             s == ap_vertical_computing(op, CAM_B, i, V) \o << Wait, Release >>
                     \o LoadVector(VectorBase(CAM_C, i), AP_COL_SIZE)
  <2>1. Does(c, s)
    BY ColSizeAssumption, VerticalTestDoes
  <2>2. Begin(c, s)
    BY <1>1 DEF ap_computing_vertical_test
  <2>3. c.fn \notin Scaling
    BY DEF Scaling
  <2> HIDE DEF c, s
  <2>4. QED
    BY <2>1, <2>2, <2>3 DEF Begun
<1>2. ASSUME NEW op \in Commands, NEW i \in Columns,
             ap_trigger_vertical_computing_w_wait(op, CAM_A, i)
      PROVE  Begun
  <2> DEFINE c == [fn |-> "ap_trigger_vertical_computing_w_wait", op |-> op, col |-> CAM_A,
                   internal_col |-> i]
             s == VerticalTrigger(op, CAM_A, i) \o << Wait, Release >>
  <2>1. Does(c, s)
    BY VerticalWaitDoes
  <2>2. Begin(c, s)
    BY <1>2 DEF ap_trigger_vertical_computing_w_wait
  <2>3. c.fn \notin Scaling
    BY DEF Scaling
  <2> HIDE DEF c, s
  <2>4. QED
    BY <2>1, <2>2, <2>3 DEF Begun
<1>3. ASSUME NEW op \in Commands, NEW i \in Columns, NEW t \in Targets,
             ap_trigger_vertical_computing_target(op, CAM_A, i, t)
      PROVE  Begun
  <2> DEFINE c == [fn |-> "ap_trigger_vertical_computing_target", op |-> op, col |-> CAM_A,
                   internal_col |-> i, target |-> t]
             s == << Control(DYNAMIC, TARGET_A, FALSE, {}), Mode(i, CAM_A, VERTICAL, op),
                     Control(STATIC, t, TRUE, {}), Wait, Release >>
  <2>1. Does(c, s)
    BY VerticalTargetDoes
  <2>2. Begin(c, s)
    BY <1>3 DEF ap_trigger_vertical_computing_target
  <2>3. c.fn \notin Scaling
    BY DEF Scaling
  <2> HIDE DEF c, s
  <2>4. QED
    BY <2>1, <2>2, <2>3 DEF Begun
<1>4. QED
  BY <1>1, <1>2, <1>3 DEF Vertical

-----------------------------------------------------------------------------
(* The device in step with the machine. *)

\* The device is where the machine is; of a command it has been given it may
\* have computed some rows already.
Follows(exact, p) ==
  /\ p.control = control /\ p.mode = mode
  /\ p.run => /\ (busy /\ ~ irq) \/ (~ busy /\ irq /\ left = {})
              /\ exact => /\ mode.op_direction = HORIZONTAL
                          /\ cam = Computed(control, mode, p.mem, Row \ left)
  /\ ~ p.run => ~ busy /\ irq = p.flag /\ (exact => cam = p.mem)
  /\ exact => buf = p.buf

LEMMA ControlFollows ==
  ASSUME NEW exact \in BOOLEAN, NEW p \in State, NEW r \in State, TypeOK,
         Follows(exact, p), Step(exact, Head(todo), p, r), CpuControl
  PROVE  Follows(exact, r)'
<1> DEFINE c == Head(todo).control
<1>1. Head(todo).kind = "control"
  BY DEF CpuControl, IsNext
<1>2. /\ ~ p.run /\ r = ByControl(Head(todo), p)
      /\ c.trigger => ~ p.control.trigger /\ 3 \notin c.rst
      /\ exact => (c.trigger => p.mode.op_direction = HORIZONTAL)
  BY <1>1 DEF Step, Determined
<1>3. /\ r.control = c /\ r.mode = p.mode /\ r.mem = Flushed(c.rst, p.mode, p.mem)
      /\ r.buf = p.buf /\ r.run = c.trigger /\ r.flag = FALSE
  BY <1>2 DEF ByControl, St
<1>4. control' = c /\ mode' = mode /\ buf' = buf /\ cam' = Flushed(c.rst, mode, cam)
  BY DEF CpuControl
<1>5. /\ p.control = control /\ p.mode = mode /\ busy = FALSE
      /\ exact => cam = p.mem /\ buf = p.buf
  BY <1>2 DEF Follows, TypeOK
<1>6. r.mem \in Memory
  BY DEF State
<1>7. CASE c.trigger
  <2>1. busy' = TRUE /\ left' = Row /\ irq' = FALSE
    BY <1>2, <1>5, <1>7 DEF CpuControl
  <2>2. Row \ left' = {}
    BY <2>1
  <2>3. exact => cam' = Computed(control', mode', r.mem, Row \ left')
    BY <1>3, <1>4, <1>5, <1>6, <2>2, ComputedNothing
  <2>4. r.run
    BY <1>3, <1>7
  <2>5. r.control = control' /\ r.mode = mode' /\ busy' /\ ~ irq'
    BY <1>3, <1>4, <1>5, <2>1
  <2>6. exact => mode'.op_direction = HORIZONTAL /\ buf' = r.buf
    BY <1>2, <1>3, <1>4, <1>5, <1>7
  <2>7. QED
    BY <2>3, <2>4, <2>5, <2>6 DEF Follows
<1>8. CASE ~ c.trigger
  <2>1. busy' = FALSE /\ irq' = FALSE
    BY <1>5, <1>8 DEF CpuControl
  <2>2. ~ r.run
    BY <1>3, <1>8
  <2>3. QED
    BY <1>3, <1>4, <1>5, <2>1, <2>2 DEF Follows
<1>9. QED
  BY <1>7, <1>8

\* The accesses that leave the engine alone.
LEMMA PlainFollows ==
  ASSUME NEW exact \in BOOLEAN, NEW p \in State, NEW r \in State, TypeOK,
         Follows(exact, p), Step(exact, Head(todo), p, r),
         CpuMode \/ CpuStore \/ CpuLoad \/ CpuCopy \/ CpuEndCycles
  PROVE  Follows(exact, r)'
<1>1. CASE CpuMode
  <2>1. ~ p.run /\ r = ByMode(Head(todo), p)
    BY <1>1 DEF CpuMode, IsNext, Step
  <2>2. QED
    BY <1>1, <2>1 DEF CpuMode, Follows, ByMode, St
<1>2. CASE CpuStore
  <2>1. ~ p.run /\ r = ByStore(Head(todo), p)
    BY <1>2 DEF CpuStore, IsNext, Step
  <2>2. QED
    BY <1>2, <2>1 DEF CpuStore, Follows, ByStore, St
<1>3. CASE CpuLoad
  <2>1. ~ p.run /\ r = ByLoad(Head(todo), p) /\ (exact => Head(todo).addr \in CamAddr)
    BY <1>3 DEF CpuLoad, IsNext, Step, Determined
  <2>2. exact => buf' = Append(buf, cam[Head(todo).addr])
    BY <1>3, <2>1 DEF CpuLoad, Read
  <2>3. UNCHANGED device
    BY <1>3 DEF CpuLoad
  <2>4. QED
    BY <2>1, <2>2, <2>3 DEF device, Follows, ByLoad, St, Fetch
<1>4. CASE CpuCopy
  <2>1. ~ p.run /\ r = ByCopy(Head(todo), p) /\ (exact => Head(todo).addr \in CamAddr)
    BY <1>4 DEF CpuCopy, IsNext, Step, Determined
  <2>2. exact => cam' = Stored(Head(todo).to, cam[Head(todo).addr], cam)
    BY <1>4, <2>1 DEF CpuCopy, Read
  <2>3. UNCHANGED <<control, mode, irq, busy, left, buf>>
    BY <1>4 DEF CpuCopy
  <2>4. QED
    BY <2>1, <2>2, <2>3 DEF Follows, ByCopy, St, Fetch
<1>5. CASE CpuEndCycles
  <2>1. ~ p.run /\ r = p
    BY <1>5 DEF CpuEndCycles, IsNext, Step
  <2>2. QED
    BY <1>5, <2>1 DEF CpuEndCycles, device, Follows
<1>6. QED
  BY <1>1, <1>2, <1>3, <1>4, <1>5

\* The flag is up: all rows have been computed.
LEMMA FlagFollows ==
  ASSUME NEW exact \in BOOLEAN, NEW p \in State, TypeOK, Follows(exact, p), p.run, irq,
         NEW r, r = Idle(p.control, p.mode, Computed(p.control, p.mode, p.mem, Row), p.buf, irq)
  PROVE  /\ r \in State /\ Follows(exact, r)
         /\ r = ByWait(p)
         /\ \A q : \A n \in Nat : Step(exact, Poll(n), p, q) =>
              /\ q \in State /\ q.run = FALSE
              /\ Runs(exact, << Release, ZeroMode >>, r, q)
<1> DEFINE y == Computed(p.control, p.mode, p.mem, Row)
<1>1. p.control \in ControlReg /\ p.mode \in ModeReg /\ p.mem \in Memory /\ p.buf \in Seq(Byte)
  BY DEF State
<1>2. y \in Memory /\ irq \in BOOLEAN /\ irq = TRUE
  BY <1>1, ComputedIsMemory DEF TypeOK
<1>3. Row \ {} = Row
  OBVIOUS
<1>4. ~ busy /\ left = {}
  BY DEF Follows
<1> HIDE DEF y
<1>5. r = Idle(p.control, p.mode, y, p.buf, irq)
  BY DEF y
<1>6. r \in State
  BY <1>1, <1>2, <1>5, StIsState
<1>7. Follows(exact, r)
  <2>1. /\ r.control = p.control /\ r.mode = p.mode /\ r.mem = y /\ r.buf = p.buf
        /\ r.run = FALSE /\ r.flag = irq
    BY <1>5 DEF Idle, St
  <2>2. /\ p.control = control /\ p.mode = mode /\ (exact => buf = p.buf)
        /\ exact => cam = Computed(control, mode, p.mem, Row \ left)
    BY DEF Follows
  <2>3. exact => cam = y
    BY <1>3, <1>4, <2>2 DEF y
  <2>4. QED
    BY <1>4, <2>1, <2>2, <2>3 DEF Follows
<1>8. r = ByWait(p)
  BY <1>2, <1>5 DEF ByWait, Idle, y
<1>9. ASSUME NEW n \in Nat, NEW q, Step(exact, Poll(n), p, q)
      PROVE  q \in State /\ q.run = FALSE /\ Runs(exact, << Release, ZeroMode >>, r, q)
  <2> DEFINE u == Idle(Released, p.mode, y, p.buf, FALSE)
             v == Idle(Released, ModeZero, y, p.buf, FALSE)
  <2>1. q = ByPoll(p)
    BY <1>9 DEF Step, Poll
  <2>2. q = v
    BY <2>1 DEF ByPoll, Idle, y
  <2>8. Step(exact, Release, r, u)
    BY <1>1, <1>2, <1>5, ControlStep
  <2>9. Step(exact, ZeroMode, u, v)
    <3> DEFINE no == FALSE
               k == Released
    <3>1. no \in BOOLEAN /\ k \in ControlReg /\ u = Idle(k, p.mode, y, p.buf, no)
          /\ v = Idle(k, ModeZero, y, p.buf, no)
      BY RegisterValues
    <3> HIDE DEF no, k, u, v
    <3>2. Step(exact, ZeroMode, Idle(k, p.mode, y, p.buf, no), Idle(k, ModeZero, y, p.buf, no))
      BY <1>1, <1>2, <3>1, ModeStep
    <3>3. QED
      BY <3>1, <3>2
  <2>4. u \in State /\ v \in State
    BY <1>1, <1>2, RegisterValues, StIsState
  <2>5. v.run = FALSE
    BY DEF Idle, St
  <2> HIDE DEF u, v
  <2>6. Runs(exact, << Release, ZeroMode >>, r, v)
    BY <1>6, <2>4, <2>8, <2>9, RegisterAccess, RunsTwo
  <2>7. QED
    BY <2>2, <2>4, <2>5, <2>6
<1>10. QED
  BY <1>6, <1>7, <1>8, <1>9

\* The engine's own steps: one more row of the pending command, or the flag.
LEMMA EngineFollows ==
  ASSUME NEW exact \in BOOLEAN, NEW p \in State, TypeOK, Follows(exact, p), Engine
  PROVE  Follows(exact, p)'
<1>1. p.run /\ busy /\ ~ irq /\ control' = control /\ mode' = mode /\ buf' = buf
  BY DEF Engine, EngineRow, EngineDone, cpu, Follows, State, TypeOK
<1>2. /\ p.control = control /\ p.mode = mode /\ p.mem \in Memory
      /\ control \in ControlReg /\ mode \in ModeReg /\ left \subseteq Row
      /\ exact => buf = p.buf
      /\ exact => mode.op_direction = HORIZONTAL
      /\ exact => cam = Computed(control, mode, p.mem, Row \ left)
  BY <1>1 DEF Follows, State, TypeOK
<1>3. CASE EngineRow
  <2>1. PICK r \in left :
          /\ left' = left \ {r}
          /\ \/ cam' = Computed(control, mode, cam, {r})
             \/ mode.op_direction = VERTICAL
    BY <1>3 DEF EngineRow
  <2>2. r \in Row /\ r \notin Row \ left /\ (Row \ left) \cup {r} = Row \ left'
        /\ Row \ left \in SUBSET Row
    BY <1>2, <2>1
  <2>3. exact => cam' = Computed(control, mode, p.mem, Row \ left')
    BY <1>2, <2>1, <2>2, ComputedMore DEF HORIZONTAL, VERTICAL
  <2>4. busy' = busy /\ irq' = irq
    BY <1>3 DEF EngineRow
  <2>5. QED
    BY <1>1, <1>2, <2>3, <2>4 DEF Follows
<1>4. CASE EngineDone
  <2>1. ~ busy' /\ irq' /\ left' = {} /\ left' = left /\ cam' = cam
    BY <1>4 DEF EngineDone
  <2>2. QED
    BY <1>1, <1>2, <2>1 DEF Follows
<1>5. QED
  BY <1>3, <1>4 DEF Engine

LEMMA StillFollows ==
  ASSUME NEW exact, NEW p, Follows(exact, p), UNCHANGED <<device, buf>>
  PROVE  Follows(exact, p)'
  BY DEF Follows, device

\* A pending command, and the wait for it.
LEMMA WaitAdvances ==
  ASSUME NEW exact \in BOOLEAN, NEW p \in State, NEW q \in State, TypeOK, Follows(exact, p),
         Runs(exact, todo, p, q), CpuWait
  PROVE  \E r \in State : Follows(exact, r)' /\ Runs(exact, todo', r, q)
<1>1. UNCHANGED <<device, buf>> /\ Head(todo).kind = "wait" /\ todo # << >>
  BY DEF CpuWait, IsNext
<1>2. CASE ~ irq /\ todo' = todo
  <2>1. Follows(exact, p)'
    BY <1>1, StillFollows
  <2>2. QED
    BY <1>2, <2>1
<1>3. CASE irq /\ todo' = Tail(todo)
  <2>1. PICK u \in State : Step(exact, Head(todo), p, u) /\ Runs(exact, Tail(todo), u, q)
    BY <1>1, RunsFirst
  <2>2. p.run /\ u = ByWait(p)
    BY <1>1, <2>1 DEF Step
  <2>3. Follows(exact, u)
    BY <1>3, <2>2, FlagFollows
  <2>4. Follows(exact, u)'
    BY <1>1, <2>3, StillFollows
  <2>5. QED
    BY <1>3, <2>1, <2>4
<1>4. QED
  BY <1>2, <1>3 DEF CpuWait, Done

\* The bounded poll, as long as it does not give up.
LEMMA PollAdvances ==
  ASSUME NEW exact \in BOOLEAN, NEW p \in State, NEW q \in State, TypeOK, Follows(exact, p),
         Runs(exact, todo, p, q), CpuPoll, ~ suspect'
  PROVE  \E r \in State : Follows(exact, r)' /\ Runs(exact, todo', r, q)
<1> DEFINE n == Head(todo).loops
<1>1. UNCHANGED <<device, buf>> /\ Head(todo).kind = "poll" /\ todo # << >>
  BY DEF CpuPoll, IsNext
<1>2. n \in Nat
  BY <1>1, NextAccess DEF Access, Cpu
<1>3. PICK u \in State : Step(exact, Head(todo), p, u) /\ Runs(exact, Tail(todo), u, q)
  BY <1>1, RunsFirst
<1>4. p.run /\ u = ByPoll(p)
  BY <1>1, <1>3 DEF Step
<1>5. \A k : Step(exact, Poll(k), p, u)
  BY <1>4 DEF Step, Determined, Poll
<1>6. CASE n > 0 /\ irq /\ todo' = << Release, ZeroMode >> \o Tail(todo)
  <2> DEFINE two == << Release, ZeroMode >>
  <2>0. PICK r : r = Idle(p.control, p.mode, Computed(p.control, p.mode, p.mem, Row), p.buf, irq)
    OBVIOUS
  <2>1. /\ r \in State /\ Follows(exact, r)
        /\ \A v : \A k \in Nat : Step(exact, Poll(k), p, v) =>
             v \in State /\ v.run = FALSE /\ Runs(exact, two, r, v)
    BY <1>4, <1>6, <2>0, FlagFollows
  <2> HIDE DEF two
  <2>2. Runs(exact, two, r, u)
    BY <1>2, <1>5, <2>1
  <2>3. Runs(exact, two \o Tail(todo), r, q)
    BY <1>3, <2>2, RunsJoin
  <2>4. Follows(exact, r)'
    BY <1>1, <2>1, StillFollows
  <2>5. QED
    BY <1>6, <2>1, <2>3, <2>4 DEF two
<1>7. CASE n > 0 /\ ~ irq /\ todo' = << Poll(n - 1) >> \o Tail(todo)
  <2>1. n - 1 \in Nat /\ Poll(n - 1) \in Access
    BY <1>2, <1>7, PollAccess
  <2>2. Runs(exact, << Poll(n - 1) >> \o Tail(todo), p, q)
    BY <1>3, <1>5, <2>1, RunsCons
  <2>3. Follows(exact, p)'
    BY <1>1, StillFollows
  <2>4. QED
    BY <1>7, <2>2, <2>3
<1>8. QED
  BY <1>6, <1>7 DEF CpuPoll

\* So what is left of a program still ends where it ended.
LEMMA CpuAdvances ==
  ASSUME NEW exact \in BOOLEAN, NEW p \in State, NEW q \in State, TypeOK, Follows(exact, p),
         Runs(exact, todo, p, q), Cpu, ~ suspect'
  PROVE  \E r \in State : Follows(exact, r)' /\ Runs(exact, todo', r, q)
<1>1. CASE CpuWait
  BY <1>1, WaitAdvances
<1>2. CASE CpuPoll
  BY <1>2, PollAdvances
<1>3. CASE CpuControl \/ CpuMode \/ CpuStore \/ CpuLoad \/ CpuCopy \/ CpuEndCycles
  <2>1. todo # << >> /\ todo' = Tail(todo)
    BY <1>3 DEF CpuControl, CpuMode, CpuStore, CpuLoad, CpuCopy, CpuEndCycles, IsNext, Done
  <2>2. PICK r \in State : Step(exact, Head(todo), p, r) /\ Runs(exact, Tail(todo), r, q)
    BY <2>1, RunsFirst
  <2>3. Follows(exact, r)'
    BY <1>3, <2>2, ControlFollows, PlainFollows
  <2>4. QED
    BY <2>1, <2>2, <2>3
<1>4. QED
  BY <1>1, <1>2, <1>3 DEF Cpu

\* After a timeout only the registers are known, and a command may still be
\* running; the program that resets the engine is on its way there.
RegistersOnly == FALSE

Awaits(p) == p.control = control /\ p.mode = mode /\ ~ p.run /\ Restarting(todo)

LEMMA RestartingTail ==
  ASSUME NEW s \in Seq(Access), s # << >>, Restarting(s),
         ~ (Head(s).kind = "control" /\ 3 \in Head(s).control.rst)
  PROVE  Restarting(Tail(s))
<1>1. /\ Len(s) \in Nat /\ Len(Tail(s)) = Len(s) - 1 /\ Head(s) = s[1]
      /\ \A i \in 1 .. Len(Tail(s)) : Tail(s)[i] = s[i + 1]
  BY HeadTailProperties
<1>2. PICK k \in 1 .. Len(s) : s[k].kind = "control" /\ 3 \in s[k].control.rst
  BY DEF Restarting
<1>3. k # 1
  BY <1>1, <1>2
<1>4. k - 1 \in 1 .. Len(Tail(s)) /\ Tail(s)[k - 1] = s[k]
  BY <1>1, <1>3
<1>5. ASSUME NEW i \in 1 .. Len(Tail(s))
      PROVE  Tail(s)[i].kind \in {"control", "mode"} /\ ~ Triggers(Tail(s)[i])
  <2>1. i + 1 \in 1 .. Len(s) /\ Tail(s)[i] = s[i + 1]
    BY <1>1
  <2>2. QED
    BY <2>1 DEF Restarting
<1>6. QED
  BY <1>2, <1>4, <1>5 DEF Restarting

\* Each of its accesses is a register write; the one that resets the engine
\* brings the device back in step.
LEMMA CpuAwaits ==
  ASSUME NEW p \in State, NEW q \in State, TypeOK, Awaits(p), Runs(RegistersOnly, todo, p, q), Cpu
  PROVE  /\ suspect' = suspect
         /\ \E r \in State : /\ Follows(RegistersOnly, r)' \/ Awaits(r)'
                             /\ Runs(RegistersOnly, todo', r, q)
<1>1. todo # << >> /\ todo \in Seq(Access) /\ Head(todo) = todo[1] /\ 1 \in 1 .. Len(todo)
  BY NextAccess
<1>2. Head(todo).kind \in {"control", "mode"} /\ ~ Triggers(Head(todo))
  BY <1>1 DEF Awaits, Restarting
<1>3. CpuControl \/ CpuMode
  BY <1>2 DEF Cpu, CpuStore, CpuLoad, CpuCopy, CpuWait, CpuPoll, CpuEndCycles, IsNext
<1>4. todo' = Tail(todo) /\ suspect' = suspect
  BY <1>3 DEF CpuControl, CpuMode, Done
<1>5. PICK r \in State : Step(RegistersOnly, Head(todo), p, r) /\ Runs(RegistersOnly, Tail(todo), r, q)
  BY <1>1, RunsFirst
<1>6. CASE CpuMode
  <2>1. Head(todo).kind = "mode" /\ mode' = Head(todo).mode /\ control' = control
    BY <1>6 DEF CpuMode, IsNext
  <2>2. r = ByMode(Head(todo), p)
    BY <1>5, <2>1 DEF Step
  <2>3. r.control = control' /\ r.mode = mode' /\ ~ r.run
    BY <2>1, <2>2 DEF ByMode, St, Awaits
  <2>4. Restarting(Tail(todo))
    BY <1>1, <2>1, RestartingTail DEF Awaits
  <2>5. Awaits(r)'
    BY <1>4, <2>3, <2>4 DEF Awaits
  <2>6. QED
    BY <1>4, <1>5, <2>5
<1>7. CASE CpuControl
  <2> DEFINE c == Head(todo).control
  <2>1. Head(todo).kind = "control" /\ control' = c /\ mode' = mode /\ ~ c.trigger
    BY <1>2, <1>7 DEF CpuControl, IsNext, Triggers
  <2>2. r = ByControl(Head(todo), p)
    BY <1>5, <2>1 DEF Step
  <2>3. r.control = control' /\ r.mode = mode' /\ r.run = c.trigger /\ r.flag = FALSE
    BY <2>1, <2>2 DEF ByControl, St, Awaits
  <2>4. CASE 3 \in c.rst
    <3>1. busy' = FALSE /\ irq' = FALSE
      BY <1>7, <2>4 DEF CpuControl
    <3>2. Follows(RegistersOnly, r)'
      BY <2>1, <2>3, <3>1 DEF Follows, RegistersOnly
    <3>3. QED
      BY <1>4, <1>5, <3>2
  <2>5. CASE 3 \notin c.rst
    <3>1. Restarting(Tail(todo))
      BY <1>1, <2>5, RestartingTail DEF Awaits
    <3>2. Awaits(r)'
      BY <1>4, <2>1, <2>3, <3>1 DEF Awaits
    <3>3. QED
      BY <1>4, <1>5, <3>2
  <2>6. QED
    BY <2>4, <2>5
<1>8. QED
  BY <1>3, <1>6, <1>7

-----------------------------------------------------------------------------
(* The invariant: what is left of the call runs from here to its promised end. *)

\* The end q of a call c that began on columns x.
Ends(exact, c, x, q) ==
  /\ ~ q.run
  /\ exact => q.mem = Promise!Effect(c, x) /\ q.buf = Promise!Output(c, x)
  /\ "ap_search" \notin Callable => q.control = Released /\ ~ q.flag

Exec(exact, c, x) ==
  \E p, q \in State : Follows(exact, p) /\ Runs(exact, todo, p, q) /\ Ends(exact, c, x, q)

Recovering ==
  \E p, q \in State :
    /\ Follows(RegistersOnly, p) \/ Awaits(p)
    /\ Runs(RegistersOnly, todo, p, q)
    /\ ~ q.run /\ q.control = Released /\ ~ q.flag

CallKnown ==
  /\ call.fn # "none" /\ call.fn \in Callable \cup {"warmup_ap"}
  /\ call.fn \in Scaling => call.internal_col \in Columns

PromiseInv ==
  /\ TypeOK /\ CallKnown /\ old.suspect \in BOOLEAN
  /\ ~ suspect /\ ~ old.suspect => Exec(Kept(call), call, old.cam)
  /\ ~ suspect /\ old.suspect => Recovering

\* A program that does its work, from the idle state of its call.
LEMMA DoesRun ==
  ASSUME NEW c, NEW s, Does(c, s), NEW exact \in BOOLEAN, exact => Kept(c),
         NEW c0 \in ControlReg, NEW m0 \in ModeReg, NEW x \in Memory, NEW f \in BOOLEAN
  PROVE  \E q \in State :
           /\ Runs(exact, s, Idle(c0, m0, x, << >>, f), q) /\ ~ q.run
           /\ exact => q.mem = Promise!Effect(c, x) /\ q.buf = Promise!Output(c, x)
           /\ c.fn # "ap_search" /\ (c.fn \in Restarts \/ (c0 = Released /\ ~ f)) =>
                q.control = Released /\ ~ q.flag
<1>1. Outcome(c, s, exact, c0, m0, x, f)
  BY DEF Does
<1>2. PICK c1 \in ControlReg, m1 \in ModeReg, y \in Memory, b \in Seq(Byte), g \in BOOLEAN :
        /\ Runs(exact, s, Idle(c0, m0, x, << >>, f), Idle(c1, m1, y, b, g))
        /\ exact => y = Promise!Effect(c, x) /\ b = Promise!Output(c, x)
        /\ c.fn # "ap_search" /\ (c.fn \in Restarts \/ (c0 = Released /\ ~ f)) =>
             c1 = Released /\ ~ g
  BY <1>1 DEF Outcome
<1>3. PICK q : q = Idle(c1, m1, y, b, g)
  OBVIOUS
<1>4. q \in State
  BY <1>3, StIsState
<1>5. q.control = c1 /\ q.mem = y /\ q.buf = b /\ q.flag = g /\ q.run = FALSE
  BY <1>3 DEF Idle, St
<1>6. Runs(exact, s, Idle(c0, m0, x, << >>, f), q)
  BY <1>2, <1>3
<1>7. QED
  BY <1>2, <1>4, <1>5, <1>6

\* Between two calls the engine is idle and, without ap_search, released.
LEMMA ReturnIsIdle ==
  ASSUME PromiseInv, todo = << >>, ~ suspect
  PROVE  ~ busy /\ ("ap_search" \notin Callable => control = Released /\ ~ irq)
<1>1. old.suspect \in BOOLEAN
  BY DEF PromiseInv
<1>2. CASE ~ old.suspect
  <2>1. PICK e : e = Kept(call)
    OBVIOUS
  <2>2. PICK p \in State, q \in State :
          Follows(e, p) /\ Runs(e, todo, p, q) /\ Ends(e, call, old.cam, q)
    BY <1>2, <2>1 DEF PromiseInv, Exec
  <2>3. p = q
    BY <2>2, RunsEmpty
  <2>4. QED
    BY <2>2, <2>3 DEF Ends, Follows
<1>3. CASE old.suspect
  <2>1. PICK p \in State, q \in State :
          /\ Follows(RegistersOnly, p) \/ Awaits(p)
          /\ Runs(RegistersOnly, todo, p, q)
          /\ ~ q.run /\ q.control = Released /\ ~ q.flag
    BY <1>3 DEF PromiseInv, Recovering
  <2>2. p = q
    BY <2>1, RunsEmpty
  <2>3. ~ Awaits(p)
    BY DEF Awaits, Restarting
  <2>4. QED
    BY <2>1, <2>2, <2>3 DEF Follows
<1>4. QED
  BY <1>1, <1>2, <1>3

\* A call begins; if the last one timed out, and this one does not reset the
\* engine, nothing is claimed of it.
LEMMA BeginKeepsPromise ==
  ASSUME PromiseInv, Begun
  PROVE  PromiseInv'
<1>1. PICK c, s : /\ Begin(c, s) /\ Does(c, s)
                  /\ c.fn \in Scaling => c.internal_col \in Columns
  BY DEF Begun
<1>2. /\ todo = << >> /\ c.fn \in Callable /\ call' = c /\ todo' = s /\ buf' = << >>
      /\ old' = [cam |-> cam, call |-> call, buf |-> buf, suspect |-> suspect]
      /\ suspect' = (suspect /\ c.fn \notin Restarts)
      /\ control' = control /\ mode' = mode /\ irq' = irq /\ busy' = busy /\ left' = left /\ cam' = cam
  BY <1>1 DEF Begin, device, Restarts
<1>3. old'.cam = cam /\ old'.suspect = suspect
  BY <1>2
<1>4. TypeOK'
  <2>1. s \in Seq(Access)
    BY <1>1 DEF Does
  <2>2. calls' \in 0 .. MaxCalls /\ suspect' \in BOOLEAN
    BY <1>1, BoundsAssumption DEF PromiseInv, TypeOK, Begin
  <2>3. results_size' = results_size
    BY <1>1 DEF Begin
  <2>4. QED
    BY <1>2, <2>1, <2>2, <2>3 DEF PromiseInv, TypeOK
<1>5. CallKnown'
  BY <1>1, <1>2 DEF CallKnown, Does
<1>6. control \in ControlReg /\ mode \in ModeReg /\ cam \in Memory /\ irq \in BOOLEAN
      /\ suspect \in BOOLEAN
  BY DEF PromiseInv, TypeOK
<1>7. PICK p : p = Idle(control, mode, cam, << >>, irq)
  OBVIOUS
<1>8. /\ p \in State /\ p.control = control /\ p.mode = mode /\ p.mem = cam /\ p.buf = << >>
       /\ p.run = FALSE /\ p.flag = irq
  <2> DEFINE b == << >>
  <2>1. b \in Seq(Byte) /\ p = Idle(control, mode, cam, b, irq)
    BY <1>7
  <2>2. /\ p.control = control /\ p.mode = mode /\ p.mem = cam /\ p.buf = << >>
        /\ p.run = FALSE /\ p.flag = irq
    BY <1>7 DEF Idle, St
  <2> HIDE DEF b
  <2>3. p \in State
    BY <1>6, <2>1, StIsState
  <2>4. QED
    BY <2>2, <2>3
<1>9. ASSUME ~ suspect
      PROVE  Exec(Kept(call), call, old.cam)'
  <2>1. ~ busy /\ ("ap_search" \notin Callable => control = Released /\ ~ irq)
    BY <1>2, <1>9, ReturnIsIdle
  <2>2. PICK e \in BOOLEAN : e = Kept(c)
    BY DEF Kept
  <2>3. PICK x : x = cam
    OBVIOUS
  <2>4. PICK q \in State :
          /\ Runs(e, s, p, q) /\ ~ q.run
          /\ e => q.mem = Promise!Effect(c, x) /\ q.buf = Promise!Output(c, x)
          /\ c.fn # "ap_search" /\ (c.fn \in Restarts \/ (control = Released /\ ~ irq)) =>
               q.control = Released /\ ~ q.flag
    BY <1>1, <1>6, <1>7, <2>2, <2>3, DoesRun
  <2>5. Ends(e, c, x, q)
    BY <1>2, <2>1, <2>4 DEF Ends
  <2>6. p \in State /\ Follows(e, p)'
    BY <1>2, <1>8, <2>1 DEF Follows
  <2>7. Exec(e, c, x)'
    BY <1>2, <2>4, <2>5, <2>6 DEF Exec
  <2>8. QED
    BY <1>2, <1>3, <2>2, <2>3, <2>7
<1>10. ASSUME suspect, c.fn \in Restarts
      PROVE  Recovering'
  <2>1. p \in State /\ p.control = control /\ p.mode = mode /\ ~ p.run
    BY <1>8
  <2>2. Restarting(s)
    BY <1>1, <1>10 DEF Does
  <2>3. Awaits(p)'
    BY <1>2, <2>1, <2>2 DEF Awaits
  <2>4. c.fn # "ap_search"
    BY <1>10 DEF Restarts
  <2>5. PICK e \in BOOLEAN : e = RegistersOnly
    BY DEF RegistersOnly
  <2>6. ~ e
    BY <2>5 DEF RegistersOnly
  <2>7. PICK q \in State :
          /\ Runs(e, s, p, q) /\ ~ q.run
          /\ c.fn # "ap_search" /\ (c.fn \in Restarts \/ (control = Released /\ ~ irq)) =>
               q.control = Released /\ ~ q.flag
    BY <1>1, <1>6, <1>7, <2>6, DoesRun
  <2>8. QED
    BY <1>2, <1>10, <2>1, <2>3, <2>4, <2>5, <2>7 DEF Recovering
<1>11. QED
  BY <1>2, <1>3, <1>4, <1>5, <1>6, <1>9, <1>10 DEF PromiseInv

LEMMA CpuKeepsPromise ==
  ASSUME PromiseInv, Cpu
  PROVE  PromiseInv'
<1>1. TypeOK /\ TypeOK'
  BY CpuKeepsType DEF PromiseInv
<1>2. call' = call /\ old' = old
  BY DEF Cpu, CpuControl, CpuMode, CpuStore, CpuLoad, CpuCopy, CpuWait, CpuPoll, CpuEndCycles
<1>3. ~ suspect' => ~ suspect
  BY DEF Cpu, CpuControl, CpuMode, CpuStore, CpuLoad, CpuCopy, CpuWait, CpuPoll, CpuEndCycles
<1>4. ASSUME ~ suspect', ~ old.suspect
      PROVE  Exec(Kept(call), call, old.cam)'
  <2>1. PICK e \in BOOLEAN : e = Kept(call)
    BY DEF Kept
  <2>2. PICK c, x : c = call /\ x = old.cam
    OBVIOUS
  <2>3. PICK p \in State, q \in State : Follows(e, p) /\ Runs(e, todo, p, q) /\ Ends(e, c, x, q)
    BY <1>3, <1>4, <2>1, <2>2 DEF PromiseInv, Exec
  <2>4. PICK r \in State : Follows(e, r)' /\ Runs(e, todo', r, q)
    BY <1>1, <1>4, <2>3, CpuAdvances
  <2>5. Exec(e, c, x)'
    BY <2>3, <2>4 DEF Exec
  <2>6. QED
    BY <1>2, <2>1, <2>2, <2>5
<1>5. ASSUME ~ suspect', old.suspect
      PROVE  Recovering'
  <2>1. PICK p \in State, q \in State :
          /\ Follows(RegistersOnly, p) \/ Awaits(p)
          /\ Runs(RegistersOnly, todo, p, q)
          /\ ~ q.run /\ q.control = Released /\ ~ q.flag
    BY <1>3, <1>5 DEF PromiseInv, Recovering
  <2>2. PICK e \in BOOLEAN : e = RegistersOnly
    BY DEF RegistersOnly
  <2>3. CASE Follows(e, p)
    <3>1. Runs(e, todo, p, q)
      BY <2>1, <2>2
    <3>2. PICK r \in State : Follows(e, r)' /\ Runs(e, todo', r, q)
      BY <1>1, <1>5, <2>3, <3>1, CpuAdvances
    <3>3. QED
      BY <2>1, <2>2, <3>2 DEF Recovering
  <2>4. CASE Awaits(p)
    <3>1. PICK r \in State : /\ Follows(RegistersOnly, r)' \/ Awaits(r)'
                             /\ Runs(RegistersOnly, todo', r, q)
      BY <1>1, <2>1, <2>4, CpuAwaits
    <3>2. QED
      BY <2>1, <3>1 DEF Recovering
  <2>5. QED
    BY <2>1, <2>2, <2>3, <2>4
<1>6. CallKnown' /\ old'.suspect \in BOOLEAN
  BY <1>2 DEF PromiseInv, CallKnown
<1>7. QED
  BY <1>1, <1>2, <1>4, <1>5, <1>6 DEF PromiseInv

LEMMA EngineKeepsPromise ==
  ASSUME PromiseInv, Engine
  PROVE  PromiseInv'
<1>1. TypeOK /\ TypeOK'
  BY EngineKeepsType DEF PromiseInv
<1>2. call' = call /\ old' = old /\ suspect' = suspect /\ todo' = todo
      /\ control' = control /\ mode' = mode
  BY DEF Engine, EngineRow, EngineDone, cpu
<1>3. ASSUME ~ suspect, ~ old.suspect
      PROVE  Exec(Kept(call), call, old.cam)'
  <2>1. PICK e \in BOOLEAN : e = Kept(call)
    BY DEF Kept
  <2>2. PICK c, x : c = call /\ x = old.cam
    OBVIOUS
  <2>3. PICK p \in State, q \in State : Follows(e, p) /\ Runs(e, todo, p, q) /\ Ends(e, c, x, q)
    BY <1>3, <2>1, <2>2 DEF PromiseInv, Exec
  <2>4. Follows(e, p)'
    BY <1>1, <2>3, EngineFollows
  <2>5. Exec(e, c, x)'
    BY <1>2, <2>3, <2>4 DEF Exec
  <2>6. QED
    BY <1>2, <2>1, <2>2, <2>5
<1>4. ASSUME ~ suspect, old.suspect
      PROVE  Recovering'
  <2>1. PICK p \in State, q \in State :
          /\ Follows(RegistersOnly, p) \/ Awaits(p)
          /\ Runs(RegistersOnly, todo, p, q)
          /\ ~ q.run /\ q.control = Released /\ ~ q.flag
    BY <1>4 DEF PromiseInv, Recovering
  <2>2. PICK e \in BOOLEAN : e = RegistersOnly
    BY DEF RegistersOnly
  <2>3. Follows(e, p) => Follows(e, p)'
    BY <1>1, EngineFollows
  <2>4. Awaits(p) => Awaits(p)'
    BY <1>2 DEF Awaits
  <2>5. Runs(RegistersOnly, todo', p, q)
    BY <1>2, <2>1
  <2>6. QED
    BY <2>1, <2>2, <2>3, <2>4, <2>5 DEF Recovering
<1>5. CallKnown' /\ old'.suspect \in BOOLEAN
  BY <1>2 DEF PromiseInv, CallKnown
<1>6. QED
  BY <1>1, <1>2, <1>3, <1>4, <1>5 DEF PromiseInv

LEMMA NextKeepsPromise ==
  ASSUME PromiseInv, [Next]_vars
  PROVE  PromiseInv'
<1>1. CASE UNCHANGED vars \/ Return
  <2>1. /\ UNCHANGED <<control, mode, irq, busy, left, cam, buf>>
        /\ UNCHANGED <<todo, call, suspect, results_size, old, calls>>
    BY <1>1 DEF Return, vars, device, cpu
  <2>2. QED
    BY <2>1 DEF PromiseInv, TypeOK, CallKnown, Exec, Recovering, Follows, Awaits
<1>2. CASE Move \/ Reset \/ Compute \/ Vertical
  BY <1>2, MoveBegins, ResetBegins, ComputeBegins, VerticalBegins, BeginKeepsPromise
<1>3. QED
  BY <1>1, <1>2, CpuKeepsPromise, EngineKeepsPromise DEF Next

LEMMA InitPromise == Init => PromiseInv
<1> SUFFICES ASSUME Init
             PROVE  PromiseInv
  OBVIOUS
<1>1. TypeOK
  BY InitType
<1>2. /\ control = Released /\ mode = ModeZero /\ irq = FALSE /\ busy = FALSE
      /\ call = [fn |-> "warmup_ap"] /\ todo = Warmup /\ buf = << >>
      /\ suspect = FALSE /\ old.suspect = FALSE /\ old.cam = cam
  BY DEF Init
<1>3. call.fn = "warmup_ap"
  BY <1>2
<1>4. CallKnown
  BY <1>3 DEF CallKnown, Scaling
<1>5. PICK c, x, s : c = call /\ x = cam /\ s = todo
  OBVIOUS
<1>6. Does(c, s)
  BY <1>2, <1>5, WarmupDoes
<1>7. PICK e \in BOOLEAN : e = Kept(c)
  BY DEF Kept
<1>8. control \in ControlReg /\ mode \in ModeReg /\ x \in Memory /\ irq \in BOOLEAN
  BY <1>1, <1>5 DEF TypeOK
<1>9. PICK p : p = Idle(control, mode, x, << >>, irq)
  OBVIOUS
<1>10. p \in State
  <2> DEFINE b == << >>
  <2>1. b \in Seq(Byte) /\ p = Idle(control, mode, x, b, irq)
    BY <1>9
  <2> HIDE DEF b
  <2>2. QED
    BY <1>8, <2>1, StIsState
<1>11. PICK q \in State :
          /\ Runs(e, s, p, q) /\ ~ q.run
          /\ e => q.mem = Promise!Effect(c, x) /\ q.buf = Promise!Output(c, x)
          /\ c.fn # "ap_search" /\ (c.fn \in Restarts \/ (control = Released /\ ~ irq)) =>
               q.control = Released /\ ~ q.flag
  BY <1>6, <1>7, <1>8, <1>9, DoesRun
<1>12. Ends(e, c, x, q)
  BY <1>2, <1>3, <1>5, <1>11 DEF Ends
<1>13. Follows(e, p)
  BY <1>2, <1>5, <1>9 DEF Follows, Idle, St
<1>14. Exec(e, c, x)
  BY <1>5, <1>10, <1>11, <1>12, <1>13 DEF Exec
<1>15. QED
  BY <1>1, <1>2, <1>4, <1>5, <1>7, <1>14 DEF PromiseInv

LEMMA PromiseInvariance == Spec => []PromiseInv
<1>1. PromiseInv /\ [Next]_vars => PromiseInv'
  BY NextKeepsPromise
<1>2. QED
  BY <1>1, InitPromise, PTL DEF Spec

-----------------------------------------------------------------------------
(* The theorems. *)

\* Without ap_search, which returns locked and with the flag up, every call that
\* returns hands back a released interface, an idle engine and a lowered flag,
\* also a bounded poll that succeeded and a reset after one that did not
\* (ap_hal.c:40, 218-225, 257, 277, 324).
THEOREM ReleasesAtReturn ==
  ASSUME "ap_search" \notin Callable
  PROVE  Spec => []ReleasedAtReturn
<1>1. PromiseInv => ReleasedAtReturn
  BY ReturnIsIdle DEF ReleasedAtReturn
<1>2. QED
  BY <1>1, PromiseInvariance, PTL

\* A client that passes LEFT to the functions that scale internal_col into an
\* address, whatever it passes to those that select with it.
ScalesLeft == call.fn \in Scaling => call.internal_col = LEFT

LEMMA KnownIsKept ==
  ASSUME ScalesLeft, call.fn \notin VerticalFns
  PROVE  Kept(call)
  BY DEF ScalesLeft, Kept

\* However the engine orders its rows and however often a bounded poll has given
\* up before, a call that returns with no timeout since the last reset has its
\* promised effect (ap_hal.c:51-57, 218-225).
THEOREM EffectAfterReset == Spec /\ []ScalesLeft => []PromiseKeptAfterReset
<1>1. PromiseInv /\ ScalesLeft => PromiseKeptAfterReset
  <2> SUFFICES ASSUME PromiseInv, ScalesLeft, todo = << >>, ~ suspect, ~ old.suspect,
                      call.fn \notin VerticalFns
               PROVE  cam = Promise!Effect(call, old.cam)
    BY DEF PromiseKeptAfterReset
  <2>1. Kept(call)
    BY KnownIsKept
  <2>2. PICK e : e = Kept(call)
    OBVIOUS
  <2>3. PICK p \in State, q \in State :
          Follows(e, p) /\ Runs(e, todo, p, q) /\ Ends(e, call, old.cam, q)
    BY <2>2 DEF PromiseInv, Exec
  <2>4. p = q
    BY <2>3, RunsEmpty
  <2>5. QED
    BY <2>1, <2>2, <2>3, <2>4 DEF Ends, Follows
<1>2. QED
  BY <1>1, PromiseInvariance, PTL

-----------------------------------------------------------------------------
(* The refinement. *)

\* The calls ApCalls speaks of, and none of them timed out.
InTime == Kept(call) /\ ~ suspect

AtomicInv == PromiseInv /\ InTime /\ ~ old.suspect

LEMMA NextKeepsAtomic ==
  ASSUME AtomicInv, InTime', [Next]_vars
  PROVE  AtomicInv'
<1>1. PromiseInv' /\ TypeOK /\ suspect = FALSE
  BY NextKeepsPromise DEF AtomicInv, InTime, PromiseInv, TypeOK
<1>2. CASE UNCHANGED old
  BY <1>1, <1>2 DEF AtomicInv
<1>3. CASE Move \/ Reset \/ Compute \/ Vertical
  <2>1. PICK c, s : Begin(c, s)
    BY <1>3, CallStarts DEF Started
  <2>2. old'.suspect = suspect
    BY <2>1 DEF Begin
  <2>3. QED
    BY <1>1, <2>2 DEF AtomicInv
<1>4. UNCHANGED vars \/ Return \/ Cpu \/ Engine => UNCHANGED old
  BY DEF vars, cpu, Return, Cpu, CpuControl, CpuMode, CpuStore, CpuLoad, CpuCopy, CpuWait, CpuPoll,
     CpuEndCycles, Engine, EngineRow, EngineDone
<1>5. QED
  BY <1>2, <1>3, <1>4 DEF Next

\* The step with which a call returns is the abstract call.
LEMMA ReturnIsCall ==
  ASSUME AtomicInv', todo' = << >>
  PROVE  /\ call'.fn # "none"
         /\ cam' = Promise!Effect(call', old'.cam)
         /\ buf' = Promise!Output(call', old'.cam)
<1>1. PromiseInv' /\ ~ suspect' /\ ~ old'.suspect
  BY DEF AtomicInv, InTime
<1>2. PICK c, x : c = call' /\ x = old'.cam
  OBVIOUS
<1>3. c.fn # "none"
  BY <1>1, <1>2 DEF PromiseInv, CallKnown
<1>4. Kept(c)
  BY <1>2 DEF AtomicInv, InTime
<1>5. PICK e \in BOOLEAN : e = Kept(c)
  BY DEF Kept
<1>6. Exec(e, c, x)'
  BY <1>1, <1>2, <1>5 DEF PromiseInv
<1>7. PICK p \in State, q \in State : Follows(e, p)' /\ Runs(e, todo', p, q) /\ Ends(e, c, x, q)
  BY <1>6 DEF Exec
<1>8. p = q
  BY <1>7, RunsEmpty
<1>9. cam' = p.mem /\ buf' = p.buf
  BY <1>4, <1>5, <1>7, <1>8 DEF Follows, Ends
<1>10. q.mem = Promise!Effect(c, x) /\ q.buf = Promise!Output(c, x)
  BY <1>4, <1>5, <1>7 DEF Ends
<1>11. QED
  BY <1>2, <1>3, <1>8, <1>9, <1>10

LEMMA StepIsCall ==
  ASSUME AtomicInv, AtomicInv', [Next]_vars
  PROVE  [Promise!Next]_(Promise!vars)
<1>1. CASE UNCHANGED vars \/ Return
  <2>1. UNCHANGED <<todo, cam, call, buf, old>>
    BY <1>1 DEF Return, vars, device, cpu
  <2>2. QED
    BY <2>1 DEF Promise!vars
<1>2. CASE Move \/ Reset \/ Compute \/ Vertical
  <2>1. PICK c, s : Begin(c, s)
    BY <1>2, CallStarts DEF Started
  <2>2. /\ todo = << >> /\ cam' = cam
        /\ old'.cam = cam /\ old'.call = call /\ old'.buf = buf
    BY <2>1 DEF Begin, device
  <2>3. CASE todo' = << >>
    BY <2>2, <2>3, ReturnIsCall DEF Promise!Next
  <2>4. CASE todo' # << >>
    BY <2>2, <2>4 DEF Promise!vars
  <2>5. QED
    BY <2>3, <2>4
<1>3. CASE Cpu \/ Engine
  <2>1. todo # << >>
    <3>1. CASE Cpu
      BY <3>1, NextAccess DEF AtomicInv, PromiseInv
    <3>2. CASE Engine
      BY <3>2, ReturnIsIdle DEF AtomicInv, InTime, Engine, EngineRow, EngineDone
    <3>3. QED
      BY <1>3, <3>1, <3>2
  <2>2. old' = old
    BY <1>3 DEF cpu, Cpu, CpuControl, CpuMode, CpuStore, CpuLoad, CpuCopy, CpuWait, CpuPoll,
       CpuEndCycles, Engine, EngineRow, EngineDone
  <2>3. CASE todo' = << >>
    BY <2>1, <2>2, <2>3, ReturnIsCall DEF Promise!Next
  <2>4. CASE todo' # << >>
    BY <2>1, <2>2, <2>4 DEF Promise!vars
  <2>5. QED
    BY <2>3, <2>4
<1>4. QED
  BY <1>1, <1>2, <1>3 DEF Next

\* Every call is one atomic operation on the columns, with the effect and the
\* bytes ApCalls gives it: for columns of any size, bytes of any width, any
\* program whose polls succeed and that computes horizontally, and an engine
\* that computes its rows in any order between the accesses (all of ap_hal.c).
THEOREM CallsAreAtomic == Spec /\ []InTime => PromiseKept
<1>1. Init /\ InTime => AtomicInv
  BY InitPromise DEF Init, AtomicInv
<1>2. AtomicInv /\ InTime' /\ [Next]_vars => AtomicInv'
  BY NextKeepsAtomic
<1>3. Init => Promise!Init
  <2>1. Init => /\ cam \in InitMemories /\ todo # << >> /\ old.cam = cam
                /\ old.call = [fn |-> "none"] /\ old.buf = << >>
    BY DEF Init, Warmup
  <2>2. QED
    BY <2>1 DEF Promise!Init
<1>4. AtomicInv /\ AtomicInv' /\ [Next]_vars => [Promise!Next]_(Promise!vars)
  BY StepIsCall
<1>5. QED
  BY <1>1, <1>2, <1>3, <1>4, PTL DEF Spec, PromiseKept, Promise!Spec

\* A program is such a one by what it may call: no poll, no vertical command,
\* and only LEFT where the column is scaled into an address (ap_hal.c:64-66).
THEOREM LeftProgramsAreAtomic ==
  ASSUME Callable \cap PollingFns = {}, Callable \cap VerticalFns = {},
         Callable \cap Scaling = {} \/ Columns \subseteq {LEFT}
  PROVE  Spec => PromiseKept
<1>1. IInv /\ PromiseInv => InTime
  <2> SUFFICES ASSUME IInv, PromiseInv
               PROVE  InTime
    OBVIOUS
  <2>1. call.fn \in Callable \cup {"warmup_ap"} /\ (call.fn \in Scaling => call.internal_col \in Columns)
    BY DEF PromiseInv, CallKnown
  <2>2. call.fn \notin VerticalFns
    BY <2>1 DEF VerticalFns
  <2>3. call.fn \in Scaling => call.internal_col = LEFT
    BY <2>1 DEF Scaling
  <2>4. QED
    BY <2>2, <2>3 DEF InTime, Kept, IInv
<1>2. QED
  BY <1>1, Invariance, PromiseInvariance, CallsAreAtomic, PTL
===============================================================================
