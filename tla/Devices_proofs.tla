----------------------------- MODULE Devices_proofs -----------------------------
(***************************************************************************)
(* Proofs about the drivers of the board's devices: the PLL, the SPI and   *)
(* its divider, the I2C, the watchdog, the memory protection, the          *)
(* performance counters, and the UARTs with their clock's callbacks, for   *)
(* any number of them.  Each has its own invariant; at the end they are    *)
(* put together, as Devices does.                                          *)
(***************************************************************************)
EXTENDS Devices, FiniteSets, FiniteSetTheorems, SequenceTheorems, WellFoundedInduction, TLAPS

-----------------------------------------------------------------------------
(* Arithmetic. *)

\* A set of numbers that has one has a least one.
LEMMA LeastNatural ==
  ASSUME NEW S, S \subseteq Nat, S # {}
  PROVE  \E n \in S : \A m \in S : n <= m
<1> DEFINE R == {s \in Nat \X Nat : s[1] < s[2]}
<1>1. R = OpToRel(<, Nat)
  BY DEF OpToRel
<1>2. IsWellFoundedOn(R, Nat)
  BY <1>1, NatLessThanWellFounded, Zenon
<1>3. PICK n \in S : \A m \in S : ~ (<<m, n>> \in R)
  BY <1>2, WFMin
<1>4. ASSUME NEW m \in S
      PROVE  n <= m
  <2>1. m \in Nat /\ n \in Nat
    OBVIOUS
  <2>2. m < n => <<m, n>> \in R
    BY <2>1
  <2>3. ~ (m < n)
    BY <1>3, <2>2
  <2>4. QED
    BY <2>1, <2>3
<1>5. QED
  BY <1>4

\* A number is put together from its halves.
LEMMA Halves ==
  ASSUME NEW B \in Nat \ {0}, NEW v \in Nat
  PROVE  /\ v \div B \in Nat /\ v % B \in 0 .. B - 1
         /\ v = B * (v \div B) + (v % B)
OBVIOUS

\* Rounding down keeps the order.
LEMMA DivMonotone ==
  ASSUME NEW B \in Nat \ {0}, NEW s \in Nat, NEW t \in Nat, s <= t
  PROVE  s \div B <= t \div B
BY Halves

\* Multiples of the base do not reach the low half.
LEMMA ModOfSum ==
  ASSUME NEW B \in Nat \ {0}, NEW m \in Nat, NEW t \in Nat
  PROVE  (B * m + t) % B = t % B /\ t % B <= t
<1>1. PICK q, r : q = t \div B /\ r = t % B
  OBVIOUS
<1>2. q \in Nat /\ r \in 0 .. B - 1 /\ t = B * q + r
  BY <1>1, Halves
<1>3. PICK p : p = B * m + t
  OBVIOUS
<1>4. p = B * (m + q) + r /\ p \in Nat
  <2>1. B * (m + q) = B * m + B * q /\ B * m \in Nat /\ B * q \in Nat
    BY <1>2
  <2>2. QED
    BY <1>2, <1>3, <2>1
<1>5. p % B = r
  BY <1>2, <1>4
<1>6. r <= t
  <2>1. B * q \in Nat
    BY <1>2
  <2>2. QED
    BY <1>2, <2>1
<1>7. QED
  BY <1>1, <1>3, <1>5, <1>6


-----------------------------------------------------------------------------
(* The PLL. *)

\* What the registers are, as far as the argument needs it.
Typed ==
  /\ DOMAIN pllcfg = {"sel", "refsel", "bypass", "r", "f", "q"}
  /\ pllcfg.sel \in BOOLEAN /\ pllcfg.bypass \in BOOLEAN
  /\ locked \in BOOLEAN /\ ticks \in Nat

\* While the driver is at work the core clock is off the PLL.
OffWhileChanging == step # "idle" => ~pllcfg.sel

\* The LOCK bit is read when it can be relied upon, and the PLL is taken only once it locked.
LockedWhenTaken ==
  /\ step = "lock" => ticks > PLL_LOCK_WAIT_TICKS
  /\ step = "select" /\ ~pllcfg.bypass => locked

IInv == Typed /\ OffWhileChanging /\ LockedWhenTaken /\ NeverUnlocked

-----------------------------------------------------------------------------

\* The PLL after reset.
LEMMA InitIInv == Init => IInv
<1> SUFFICES ASSUME Init PROVE IInv
  OBVIOUS
<1>1. PICK s, x \in BOOLEAN :
        pllcfg = [sel |-> s, refsel |-> x, bypass |-> TRUE, r |-> 1, f |-> 31, q |-> 3]
  BY DEF Init
<1>2. locked \in BOOLEAN /\ ticks \in Nat /\ step = "idle"
  BY DEF Init
<1>3. DOMAIN pllcfg = {"sel", "refsel", "bypass", "r", "f", "q"}
  BY <1>1
<1>4. pllcfg.sel \in BOOLEAN /\ pllcfg.bypass = TRUE
  BY <1>1
<1> QED BY <1>2, <1>3, <1>4 DEF IInv, Typed, OffWhileChanging, LockedWhenTaken, NeverUnlocked

\* A change begins: the core clock leaves the PLL.
LEMMA BeginIInv == IInv /\ (set_rate_hz \/ pll_init) => IInv'
<1> SUFFICES ASSUME IInv, set_rate_hz \/ pll_init PROVE IInv'
  OBVIOUS
<1> USE DEF IInv, Typed, OffWhileChanging, LockedWhenTaken, NeverUnlocked
<1>1. CASE set_rate_hz BY <1>1 DEF set_rate_hz
<1>2. CASE pll_init BY <1>2 DEF pll_init
<1> QED BY <1>1, <1>2

\* The driver's steps: only Select puts the core clock on the PLL.
LEMMA DriverIInv == IInv /\ Driver => IInv'
<1> SUFFICES ASSUME IInv, Driver PROVE IInv'
  OBVIOUS
<1> USE DEF IInv, Typed, OffWhileChanging, LockedWhenTaken, NeverUnlocked
<1>1. CASE Bypass BY <1>1 DEF Bypass
<1>2. CASE configure_pll BY <1>2 DEF configure_pll
<1>3. CASE Stabilize BY <1>3 DEF Stabilize
<1>4. CASE AwaitLock
  <2>1. LockBit = {locked} BY <1>4 DEF AwaitLock, LockBit, PLL_LOCK_WAIT_TICKS
  <2>2. locked BY <1>4, <2>1 DEF AwaitLock
  <2> QED BY <1>4, <2>2 DEF AwaitLock
<1>5. CASE Select BY <1>5 DEF Select
<1> QED BY <1>1, <1>2, <1>3, <1>4, <1>5 DEF Driver

\* The PLL and the time.
LEMMA DeviceIInv == IInv /\ (Lock \/ Tick) => IInv'
<1> SUFFICES ASSUME IInv, Lock \/ Tick PROVE IInv'
  OBVIOUS
<1> USE DEF IInv, Typed, OffWhileChanging, LockedWhenTaken, NeverUnlocked
<1>1. CASE Lock BY <1>1 DEF Lock
<1>2. CASE Tick BY <1>2 DEF Tick, PLL_LOCK_WAIT_TICKS
<1> QED BY <1>1, <1>2

\* Nothing changes.
LEMMA StutterIInv == IInv /\ UNCHANGED vars => IInv'
  BY DEF vars, IInv, Typed, OffWhileChanging, LockedWhenTaken, NeverUnlocked

\* In every behaviour of the driver the core clock runs on an oscillator, on the bypassed PLL,
\* or on a PLL that is locked (sifive_fe310-g000_pll.c:306-347 and 364-395).
THEOREM NeverUnlockedAlways == Spec => []NeverUnlocked
<1>1. IInv /\ [Next]_vars => IInv'
  BY BeginIInv, DriverIInv, DeviceIInv, StutterIInv DEF Next
<1>2. IInv => NeverUnlocked BY DEF IInv
<1> QED BY InitIInv, <1>1, <1>2, PTL DEF Spec

-----------------------------------------------------------------------------
(* The PLL's nearest rate. *)

TableRate(n, ref) == (ref * pll_configs[n][1]) \div pll_configs[n][2]

\* The registers hold configuration n.
Holds(n) ==
  /\ pllcfg.r = pll_configs[n][5] /\ pllcfg.f = pll_configs[n][6] /\ pllcfg.q = pll_configs[n][7]
  /\ (IF plloutdiv.div_1 THEN -1 ELSE plloutdiv.div) = (IF pll_configs[n][8] < 0 THEN -1 ELSE pll_configs[n][8])
  /\ pllcfg.bypass = FALSE

Nearest == ConfigsFor(ref_hz(pllcfg)) # {} /\ ~ Near(want) /\ Holds(Index)

\* On the way the registers hold the nearest configuration, or the PLL is bypassed.
Choosing ==
  /\ refs \in [hfrosc : Refs, hfxosc : Refs] /\ want \in Wanted
  /\ DOMAIN pllcfg = {"sel", "refsel", "bypass", "r", "f", "q"}
  /\ step \in {"stabilize", "lock"} => Nearest
  /\ step = "select" =>
       Nearest \/ (pllcfg.bypass = TRUE /\ (Near(want) \/ ConfigsFor(ref_hz(pllcfg)) = {}))
  /\ RateIsClosest

\* The loop finds a configuration: the last of the nearest.
LEMMA ClosestExists ==
  ASSUME NEW ref, NEW w \in Nat, ConfigsFor(ref) # {},
         \A n \in ConfigsFor(ref) : TableRate(n, ref) \in Nat
  PROVE  /\ find_closest_config(ref, w) \in ConfigsFor(ref)
         /\ \A n \in ConfigsFor(ref) :
              Distance(TableRate(find_closest_config(ref, w), ref), w) <= Distance(TableRate(n, ref), w)
<1> DEFINE valid == ConfigsFor(ref)
           diff == [n \in valid |-> Distance(Freq(pll_configs[n], ref), w)]
           Best(n) == \A m \in valid : diff[n] < diff[m] \/ (diff[n] = diff[m] /\ m <= n)
<1>1. valid \subseteq 1 .. 68 /\ valid # {}
  BY DEF ConfigsFor, num_configs
<1>2. \A n \in valid : diff[n] = Distance(TableRate(n, ref), w) /\ diff[n] \in Nat
  <2>1. ASSUME NEW n \in valid
        PROVE  Freq(pll_configs[n], ref) = TableRate(n, ref) /\ Distance(TableRate(n, ref), w) \in Nat
    BY DEF Freq, TableRate, Distance
  <2>2. QED
    BY <2>1
<1> HIDE DEF diff, valid
<1>3. PICK d \in {diff[n] : n \in valid} : \A e \in {diff[n] : n \in valid} : d <= e
  <2>1. {diff[n] : n \in valid} \subseteq Nat /\ {diff[n] : n \in valid} # {}
    BY <1>1, <1>2
  <2>2. QED
    BY <2>1, LeastNatural
<1>4. PICK k \in {68 - n : n \in {x \in valid : diff[x] = d}} :
        \A l \in {68 - n : n \in {x \in valid : diff[x] = d}} : k <= l
  <2>1. {68 - n : n \in {x \in valid : diff[x] = d}} \subseteq Nat /\ {68 - n : n \in {x \in valid : diff[x] = d}} # {}
    BY <1>1, <1>3
  <2>2. QED
    BY <2>1, LeastNatural
<1>5. PICK n \in valid : diff[n] = d /\ k = 68 - n
  BY <1>4
<1>6. Best(n)
  <2>1. ASSUME NEW m \in valid
        PROVE  diff[n] < diff[m] \/ (diff[n] = diff[m] /\ m <= n)
    <3>1. d <= diff[m] /\ diff[m] \in Nat /\ d \in Nat
      BY <1>2, <1>3, <1>5
    <3>2. CASE diff[m] = d
      <4>1. k <= 68 - m
        BY <1>4, <3>2
      <4>2. QED
        BY <1>1, <1>5, <3>2, <4>1
    <3>3. CASE diff[m] # d
      BY <1>5, <3>1, <3>3
    <3>4. QED
      BY <3>2, <3>3
  <2>2. QED
    BY <2>1
<1>7. find_closest_config(ref, w) = CHOOSE x \in valid : Best(x)
  BY <1>1 DEF find_closest_config, diff, valid
<1>8. PICK c : c = find_closest_config(ref, w)
  OBVIOUS
<1>9. c \in valid /\ Best(c)
  BY <1>6, <1>7, <1>8, Zenon
<1>10. \A m \in valid : diff[c] <= diff[m]
  BY <1>2, <1>9
<1>11. QED
  BY <1>2, <1>8, <1>9, <1>10 DEF valid

\* It is 0 exactly if no configuration is valid.
LEMMA IndexFound ==
  ASSUME Choosing, ExactAssumption
  PROVE  /\ ref_hz(pllcfg) \in Refs /\ Index = find_closest_config(ref_hz(pllcfg), want)
         /\ (Index = 0) <=> (ConfigsFor(ref_hz(pllcfg)) = {})
<1>1. PICK ref : ref = ref_hz(pllcfg)
  OBVIOUS
<1>2. ref \in Refs /\ want \in Wanted /\ want \in Nat
  BY <1>1, RefsAssumption DEF Choosing, ref_hz, pllref, pllsel0
<1>3. Index = find_closest_config(ref, want)
  <2>1. \A a \in Refs, w \in Wanted : Closest[a][w] = find_closest_config(a, w)
    BY DEF Closest
  <2>2. QED
    BY <1>1, <1>2, <2>1 DEF Index
<1>4. CASE ConfigsFor(ref) = {}
  BY <1>1, <1>2, <1>3, <1>4 DEF find_closest_config
<1>5. CASE ConfigsFor(ref) # {}
  <2>1. \A n \in ConfigsFor(ref) : TableRate(n, ref) \in Nat
    BY <1>2 DEF ExactAssumption, TableRate
  <2>2. Index \in 1 .. 68
    BY <1>2, <1>3, <1>5, <2>1, ClosestExists DEF ConfigsFor, num_configs
  <2>3. QED
    BY <1>1, <1>2, <1>3, <1>5, <2>2
<1>6. QED
  BY <1>4, <1>5

\* The rate of the nearest configuration is what the registers stand for.
LEMMA NearestIsClosest ==
  ASSUME Choosing, ExactAssumption, Nearest
  PROVE  \A n \in ConfigsFor(ref_hz(pllcfg)) :
           Distance(Output(ref_hz(pllcfg), pllcfg.r, pllcfg.f, pllcfg.q, IF plloutdiv.div_1 THEN -1 ELSE plloutdiv.div), want)
             <= Distance(TableRate(n, ref_hz(pllcfg)), want)
<1>1. PICK ref, c : ref = ref_hz(pllcfg) /\ c = Index
  OBVIOUS
<1>2. ref \in Refs /\ c = find_closest_config(ref, want) /\ ConfigsFor(ref) # {} /\ want \in Nat
  BY <1>1, IndexFound, RefsAssumption DEF Nearest, Choosing
<1>3. \A n \in ConfigsFor(ref) : TableRate(n, ref) \in Nat
  BY <1>2 DEF ExactAssumption, TableRate
<1>4. /\ c \in ConfigsFor(ref)
      /\ \A n \in ConfigsFor(ref) : Distance(TableRate(c, ref), want) <= Distance(TableRate(n, ref), want)
  BY <1>2, <1>3, ClosestExists
<1>5. Output(ref, pll_configs[c][5], pll_configs[c][6], pll_configs[c][7], pll_configs[c][8]) = TableRate(c, ref)
  BY <1>2, <1>4 DEF ExactAssumption, TableRate
<1>6. PICK d, e : d = (IF plloutdiv.div_1 THEN -1 ELSE plloutdiv.div) /\ e = pll_configs[c][8]
  OBVIOUS
<1>7. d = IF e < 0 THEN -1 ELSE e
  BY <1>1, <1>6 DEF Nearest, Holds
<1>8. \A r, f, q : Output(ref, r, f, q, d) = Output(ref, r, f, q, e)
  BY <1>7 DEF Output
<1>9. pllcfg.r = pll_configs[c][5] /\ pllcfg.f = pll_configs[c][6] /\ pllcfg.q = pll_configs[c][7]
  BY <1>1 DEF Nearest, Holds
<1>10. Output(ref, pllcfg.r, pllcfg.f, pllcfg.q, d) = TableRate(c, ref)
  BY <1>5, <1>6, <1>8, <1>9
<1>11. QED
  BY <1>1, <1>4, <1>6, <1>10

\* The registers before the first change.
LEMMA InitChoosing == Init => Choosing
<1> SUFFICES ASSUME Init PROVE Choosing
  OBVIOUS
<1>1. PICK s, x \in BOOLEAN :
        pllcfg = [sel |-> s, refsel |-> x, bypass |-> TRUE, r |-> 1, f |-> 31, q |-> 3]
  BY DEF Init
<1>2. DOMAIN pllcfg = {"sel", "refsel", "bypass", "r", "f", "q"}
  BY <1>1
<1>3. step = "idle" /\ returned = 0 /\ want \in Wanted /\ refs \in [hfrosc : Refs, hfxosc : Refs]
  BY DEF Init
<1>4. QED
  BY <1>2, <1>3 DEF Choosing, RateIsClosest

\* What the reference clock is made of.
LEMMA SameReference ==
  ASSUME UNCHANGED refs, pllcfg'.refsel = pllcfg.refsel
  PROVE  ref_hz(pllcfg)' = ref_hz(pllcfg)
  BY DEF ref_hz, pllref, pllsel0

\* Steps that leave the registers alone.
LEMMA QuietChoosing ==
  ASSUME Choosing, UNCHANGED <<refs, pllcfg, plloutdiv, want, returned>>,
         step' = step \/ (step = "stabilize" /\ step' = "lock") \/ (step = "lock" /\ step' = "select")
  PROVE  Choosing'
<1>1. ref_hz(pllcfg)' = ref_hz(pllcfg) /\ Near(want)' = Near(want) /\ Index' = Index
  BY DEF Near, Index, ref_hz, pllref, pllsel0
<1>2. Nearest' <=> Nearest
  BY <1>1 DEF Nearest, Holds
<1>3. RateIsClosest => RateIsClosest'
  BY <1>1 DEF RateIsClosest, Choosing
<1>4. QED
  BY <1>1, <1>2, <1>3 DEF Choosing

\* A change begins.
LEMMA BeginChoosing == Choosing /\ (set_rate_hz \/ pll_init) => Choosing'
<1> SUFFICES ASSUME Choosing, set_rate_hz \/ pll_init PROVE Choosing'
  OBVIOUS
<1>1. step' = "choose" /\ want' \in Wanted /\ refs' = refs
  BY DEF set_rate_hz, pll_init
<1>2. DOMAIN pllcfg' = DOMAIN pllcfg
  BY DEF set_rate_hz, pll_init
<1>3. QED
  BY <1>1, <1>2 DEF Choosing, RateIsClosest

\* The rate of the reference is near enough, or none of the table is to be had.
LEMMA BypassChoosing == ExactAssumption /\ Choosing /\ Bypass => Choosing'
<1> SUFFICES ASSUME ExactAssumption, Choosing, Bypass PROVE Choosing'
  OBVIOUS
<1>1. /\ DOMAIN pllcfg' = DOMAIN pllcfg /\ pllcfg'.bypass = TRUE /\ pllcfg'.refsel = pllcfg.refsel
      /\ step' = "select" /\ refs' = refs /\ want' = want
  BY DEF Bypass, Choosing
<1>2. ref_hz(pllcfg)' = ref_hz(pllcfg) /\ Near(want)' = Near(want)
  BY <1>1 DEF Near, ref_hz, pllref, pllsel0
<1>3. Near(want) \/ ConfigsFor(ref_hz(pllcfg)) = {}
  BY IndexFound DEF Bypass
<1>4. QED
  BY <1>1, <1>2, <1>3 DEF Choosing, RateIsClosest

\* The configuration goes to the registers.
LEMMA ConfigureChoosing == ExactAssumption /\ Choosing /\ configure_pll => Choosing'
<1> SUFFICES ASSUME ExactAssumption, Choosing, configure_pll PROVE Choosing'
  OBVIOUS
<1>1. PICK c : c = pll_configs[Index]
  OBVIOUS
<1>2. /\ pllcfg' = [pllcfg EXCEPT !.bypass = FALSE, !.r = c[5], !.f = c[6], !.q = c[7]]
      /\ plloutdiv' = [div_1 |-> c[8] < 0, div |-> IF c[8] < 0 THEN 1 ELSE c[8]]
      /\ step' = "stabilize" /\ refs' = refs /\ want' = want
  BY <1>1 DEF configure_pll, Divider
<1>3. /\ DOMAIN pllcfg' = DOMAIN pllcfg /\ pllcfg'.bypass = FALSE /\ pllcfg'.refsel = pllcfg.refsel
      /\ pllcfg'.r = c[5] /\ pllcfg'.f = c[6] /\ pllcfg'.q = c[7]
  BY <1>2 DEF Choosing
<1>4. (IF plloutdiv'.div_1 THEN -1 ELSE plloutdiv'.div) = IF c[8] < 0 THEN -1 ELSE c[8]
  BY <1>2
<1>5. ref_hz(pllcfg)' = ref_hz(pllcfg) /\ Near(want)' = Near(want) /\ Index' = Index
  BY <1>2, <1>3 DEF Near, Index, ref_hz, pllref, pllsel0
<1>6. ConfigsFor(ref_hz(pllcfg)) # {} /\ ~ Near(want)
  BY IndexFound DEF configure_pll
<1>7. Nearest'
  BY <1>1, <1>3, <1>4, <1>5, <1>6 DEF Nearest, Holds
<1>8. QED
  BY <1>2, <1>3, <1>7 DEF Choosing, RateIsClosest

\* The rate is computed from the registers.
LEMMA SelectChoosing == ExactAssumption /\ Choosing /\ Select => Choosing'
<1> SUFFICES ASSUME ExactAssumption, Choosing, Select PROVE Choosing'
  OBVIOUS
<1>1. /\ DOMAIN pllcfg' = DOMAIN pllcfg /\ pllcfg'.sel = TRUE /\ pllcfg'.bypass = pllcfg.bypass
      /\ pllcfg'.refsel = pllcfg.refsel /\ pllcfg'.r = pllcfg.r /\ pllcfg'.f = pllcfg.f /\ pllcfg'.q = pllcfg.q
      /\ step = "select" /\ step' = "idle" /\ refs' = refs /\ want' = want /\ plloutdiv' = plloutdiv
  BY DEF Select, Choosing
<1>2. PICK ref, d : ref = ref_hz(pllcfg) /\ d = (IF plloutdiv.div_1 THEN -1 ELSE plloutdiv.div)
  OBVIOUS
<1>3. ref_hz(pllcfg)' = ref /\ Near(want)' = Near(want)
  BY <1>1, <1>2 DEF Near, ref_hz, pllref, pllsel0
<1>4. returned' = IF pllcfg.bypass THEN ref ELSE Output(ref, pllcfg.r, pllcfg.f, pllcfg.q, d)
  <2>1. returned' = get_rate_hz(pllcfg', plloutdiv)
    BY DEF Select
  <2>2. ref_hz(pllcfg') = ref
    BY <1>1, <1>2 DEF ref_hz
  <2>3. QED
    BY <1>1, <1>2, <2>1, <2>2 DEF get_rate_hz
<1>5. CASE Nearest
  <2>1. ~ Near(want) /\ ConfigsFor(ref) # {} /\ pllcfg.bypass = FALSE
    BY <1>2, <1>5 DEF Nearest, Holds
  <2>2. \A n \in ConfigsFor(ref) : Distance(returned', want) <= Distance(TableRate(n, ref), want)
    BY <1>2, <1>4, <1>5, <2>1, NearestIsClosest
  <2>3. \A n \in ConfigsFor(ref) : TableRate(n, ref) = (ref * pll_configs[n][1]) \div pll_configs[n][2]
    BY DEF TableRate
  <2>4. RateIsClosest'
    BY <1>1, <1>3, <2>1, <2>2, <2>3 DEF RateIsClosest
  <2>5. QED
    BY <1>1, <2>4 DEF Choosing
<1>6. CASE pllcfg.bypass = TRUE /\ (Near(want) \/ ConfigsFor(ref) = {})
  <2>1. RateIsClosest'
    BY <1>1, <1>3, <1>4, <1>6 DEF RateIsClosest
  <2>2. QED
    BY <1>1, <2>1 DEF Choosing
<1>7. QED
  BY <1>1, <1>2, <1>5, <1>6 DEF Choosing

\* Every step.
LEMMA NextChoosing == ExactAssumption /\ Choosing /\ [Next]_vars => Choosing'
<1> SUFFICES ASSUME ExactAssumption, Choosing, [Next]_vars PROVE Choosing'
  OBVIOUS
<1>1. CASE Stabilize \/ AwaitLock \/ Lock \/ Tick \/ UNCHANGED vars
  <2>1. UNCHANGED <<refs, pllcfg, plloutdiv, want, returned>>
    BY <1>1 DEF Stabilize, AwaitLock, Lock, Tick, vars
  <2>2. step' = step \/ (step = "stabilize" /\ step' = "lock") \/ (step = "lock" /\ step' = "select")
    BY <1>1 DEF Stabilize, AwaitLock, Lock, Tick, vars
  <2>3. QED
    BY <2>1, <2>2, QuietChoosing
<1>2. QED
  BY <1>1, BeginChoosing, BypassChoosing, ConfigureChoosing, SelectChoosing DEF Next, Driver

\* In every behaviour of the driver the rate that a change returns is the reference's if that is
\* near enough, and otherwise the nearest of the table, for every oscillator whose divisions the
\* registers do exactly (sifive_fe310-g000_pll.c:140-147, 193-243, 253-273 and 368-385).
THEOREM RateIsClosestAlways == ASSUME ExactAssumption PROVE Spec => []RateIsClosest
<1>1. Choosing /\ [Next]_vars => Choosing'
  BY NextChoosing
<1>2. Choosing => RateIsClosest
  BY DEF Choosing
<1>3. QED
  BY InitChoosing, <1>1, <1>2, PTL DEF Spec

-----------------------------------------------------------------------------
(* The divider of the SPI. *)

\* A divider that fits divides to what was asked, or up to twice that.
LEMMA DividerFits ==
  ASSUME NEW c \in Nat \ {0}, NEW b \in Nat \ {0}, NEW S \in Nat, 2 * b <= c, ~ (c \div (2 * b) - 1 > S),
         NEW d, d = (c \div (2 * b) - 1) % (S + 1)
  PROVE  d \in Nat /\ c >= 2 * (d + 1) * b /\ c < 2 * (d + 1) * (2 * b)
<1>1. PICK q, r, p : p = 2 * b /\ q = c \div p /\ r = c % p
  OBVIOUS
<1>2. p \in Nat \ {0} /\ p <= c
  BY <1>1
<1>3. q \in Nat /\ r \in 0 .. p - 1 /\ c = p * q + r
  BY <1>1, <1>2, Halves
<1>4. q # 0
  BY <1>2, <1>3
<1>5. PICK k \in Nat : q = k + 1
  <2>1. q - 1 \in Nat /\ q = (q - 1) + 1
    BY <1>3, <1>4
  <2>2. QED
    BY <2>1
<1>6. k <= S /\ k \div (S + 1) \in Int /\ c \div (2 * b) - 1 = k
  BY <1>1, <1>5
<1>7. d = k
  BY <1>6
<1>8. 2 * (k + 1) * b = p * q /\ p * q \in Nat
  <2>1. 2 * (k + 1) * b = 2 * q * b
    BY <1>5
  <2>2. \A x, y \in Nat : 2 * x * y = (2 * y) * x /\ (2 * y) * x \in Nat
    OBVIOUS
  <2>3. 2 * q * b = (2 * b) * q /\ (2 * b) * q \in Nat
    BY <1>3, <2>2
  <2>4. QED
    BY <1>1, <2>1, <2>3
<1>9. 2 * (k + 1) * (2 * b) = p * q + p * q /\ p * q = p * k + p /\ p * k \in Nat
  <2>1. 2 * (k + 1) * (2 * b) = 2 * q * p
    BY <1>1, <1>5
  <2>2. \A x, y \in Nat : 2 * x * y = y * x + y * x /\ y * x \in Nat /\ y * (x + 1) = y * x + y
    OBVIOUS
  <2>3. 2 * q * p = p * q + p * q
    BY <1>2, <1>3, <2>2
  <2>4. p * (k + 1) = p * k + p /\ p * k \in Nat
    BY <1>2, <1>5, <2>2
  <2>5. QED
    BY <1>5, <2>1, <2>3, <2>4
<1>10. c >= p * q /\ c < p * q + p * q
  BY <1>2, <1>3, <1>8, <1>9
<1>11. QED
  BY <1>7, <1>8, <1>9, <1>10

RateInv ==
  /\ clock_rate \in Nat \ {0} /\ baud_rate \in Nat \ {0}
  /\ Rate!RateAsAsked

\* A divider that is computed from a clock and a rate fits both, unless it is refused.
LEMMA DividedAsAsked ==
  ASSUME Rate!MaskAssumption, NEW c \in Nat \ {0}, NEW b \in Nat \ {0}, NEW d,
         2 * b <= c, ~ Rate!Refused(c, b), d = Rate!Div(c, b) % (Dividers + 1)
  PROVE  c >= 2 * (d + 1) * b /\ c < 2 * (d + 1) * (2 * b)
<1>1. Dividers \in Nat
  BY DEF Rate!MaskAssumption
<1>2. QED
  BY <1>1, DividerFits DEF Rate!Refused, Rate!Div

\* The drivers begin with a first rate.
LEMMA RateInitInv == Rate!RateAssumption /\ Rate!MaskAssumption /\ Rate!Init => RateInv
<1>1. SUFFICES ASSUME Rate!RateAssumption, Rate!MaskAssumption, Rate!Init
               PROVE  RateInv
  OBVIOUS
<1>2. clock_rate \in Nat \ {0} /\ baud_rate \in Nat \ {0}
  BY <1>1 DEF Rate!Init, Rate!RateAssumption
<1>3. ~ Rate!Refused(clock_rate, baud_rate)
        => sckdiv = Rate!Div(clock_rate, baud_rate) % (Dividers + 1)
  BY <1>1 DEF Rate!Init
<1>4. QED
  BY <1>1, <1>2, <1>3, DividedAsAsked DEF RateInv, Rate!RateAsAsked, Rate!AtLeast, Rate!Below

\* A rate is set, or the source clock changes and its callback sets it again: either way the
\* divider is computed from the clock and the rate that are then the present ones.
LEMMA RateNextInv ==
  ASSUME Rate!RateAssumption, Rate!MaskAssumption, RateInv, [Rate!Next]_Rate!vars
  PROVE  RateInv'
<1>1. ASSUME NEW c \in Nat \ {0}, NEW b \in Nat \ {0}, clock_rate' = c, baud_rate' = b,
             Rate!Divide(c, b)
      PROVE  RateInv'
  <2>1. ~ Rate!Refused(c, b) => sckdiv' = Rate!Div(c, b) % (Dividers + 1)
    BY <1>1 DEF Rate!Divide
  <2>2. 2 * b <= c /\ ~ Rate!Refused(c, b)
          => c >= 2 * (sckdiv' + 1) * b /\ c < 2 * (sckdiv' + 1) * (2 * b)
    BY <2>1, DividedAsAsked
  <2>3. Rate!Refused(clock_rate, baud_rate)' = Rate!Refused(c, b)
    BY <1>1 DEF Rate!Refused, Rate!Div
  <2>4. QED
    BY <1>1, <2>2, <2>3 DEF RateInv, Rate!RateAsAsked, Rate!AtLeast, Rate!Below
<1>2. ASSUME NEW b \in Bauds, Rate!set_baud_rate(b)
      PROVE  RateInv'
  BY <1>1, <1>2 DEF Rate!set_baud_rate, RateInv, Rate!RateAssumption
<1>3. CASE Rate!Change
  <2>1. PICK c \in Nat \ {0} : clock_rate' = c /\ Rate!Divide(c, baud_rate)
    BY <1>3 DEF Rate!Change, Rate!RateAssumption
  <2>2. QED
    BY <1>1, <1>3, <2>1 DEF Rate!Change, RateInv
<1>4. CASE UNCHANGED Rate!vars
  BY <1>4 DEF Rate!vars, RateInv, Rate!RateAsAsked, Rate!AtLeast, Rate!Below, Rate!Refused, Rate!Div
<1>5. QED
  BY <1>2, <1>3, <1>4 DEF Rate!Next

\* The frame clock is the rate asked for last, up to twice as fast, whenever the present clock
\* can be divided to it, however that clock has changed since (sifive_spi0.c:334-380).
THEOREM RatesAsAsked ==
  ASSUME Rate!RateAssumption, Rate!MaskAssumption
  PROVE  Rate!Spec => []Rate!RateAsAsked
<1>1. Rate!Init => RateInv
  BY RateInitInv
<1>2. RateInv /\ [Rate!Next]_Rate!vars => RateInv'
  BY RateNextInv
<1>3. RateInv => Rate!RateAsAsked
  BY DEF RateInv
<1>4. QED
  BY <1>1, <1>2, <1>3, PTL DEF Rate!Spec

-----------------------------------------------------------------------------
(* The SPI: what a controller keeps of the transfers that gave up. *)

AnyFrame == [of : Nat, i : Nat, proto : {"SINGLE", "DUAL", "QUAD"}]

SpiType ==
  /\ spiTx \in Seq(AnyFrame) /\ spiRx \in Seq(AnyFrame) /\ rx_buf \in Seq(AnyFrame)
  /\ fmt \in {"SINGLE", "DUAL", "QUAD"} /\ cfg \in Configs /\ len \in Lengths
  /\ spiNr \in Nat /\ spiI \in Nat /\ gaveup \in Nat /\ spiAt \in {"idle", "next", "wait"}

\* Until the transfers that gave up have left a queue's frames, they have left one each.
LeftInv == SpiType /\ Spi!OneFrameLeft /\ Spi!ChipSelectHeld

\* A frame goes over some protocol's wires.
LEMMA ProtoType ==
  ASSUME Spi!ConfigsAssumption, cfg \in Configs
  PROVE  \A f \in {"SINGLE", "DUAL", "QUAD"} : Spi!Proto(f) \in {"SINGLE", "DUAL", "QUAD"}
<1>1. cfg.protocol \in {"SINGLE", "DUAL", "QUAD"}
  BY DEF Spi!ConfigsAssumption
<1>2. QED
  BY <1>1 DEF Spi!Proto, Spi!Switched

\* A queue from which a frame is taken.
LEMMA Taken ==
  ASSUME NEW s \in Seq(AnyFrame), s # << >>
  PROVE  /\ Head(s) \in AnyFrame /\ Tail(s) \in Seq(AnyFrame) /\ Len(Tail(s)) = Len(s) - 1
         /\ Len(s) \in Nat \ {0} /\ Head(s) = s[1]
  BY HeadTailProperties

\* A queue to which a frame is added.
LEMMA Added ==
  ASSUME NEW s \in Seq(AnyFrame), NEW x \in AnyFrame
  PROVE  /\ Append(s, x) \in Seq(AnyFrame) /\ Len(Append(s, x)) = Len(s) + 1 /\ Len(s) \in Nat
         /\ \A k \in 1 .. Len(s) : Append(s, x)[k] = s[k]
         /\ Append(s, x)[Len(s) + 1] = x
  BY AppendProperties

\* The queues begin empty.
LEMMA LeftInit == Spi!Init => LeftInv
  BY DEF Spi!Init, LeftInv, SpiType, Spi!OneFrameLeft, Spi!ChipSelectHeld

\* The types, in every step.
LEMMA SpiTypeNext ==
  ASSUME Spi!ConfigsAssumption, SpiType, [Spi!Next]_Spi!vars
  PROVE  SpiType'
<1>1. CASE Spi!Shift
  <2>1. spiTx # << >> /\ spiTx' = Tail(spiTx)
        /\ UNCHANGED <<fmt, csmode, spiWaited, cfg, len, spiNr, spiAt, spiI, rx_buf, spiRet, gaveup>>
    BY <1>1 DEF Spi!Shift, Spi!call
  <2>2. PICK s \in Seq(AnyFrame), t \in Seq(AnyFrame), f \in {"SINGLE", "DUAL", "QUAD"} :
          s = spiTx /\ t = spiRx /\ f = fmt
    BY DEF SpiType
  <2>3. [Head(s) EXCEPT !.proto = f] \in AnyFrame
    <3>1. Head(s) \in AnyFrame
      BY <2>1, <2>2, Taken
    <3>2. QED
      BY <3>1 DEF AnyFrame
  <2>4. spiRx' \in Seq(AnyFrame)
    <3>1. CASE Len(spiRx) < Entries
      BY <1>1, <2>2, <2>3, <3>1, Added DEF Spi!Shift
    <3>2. CASE ~ (Len(spiRx) < Entries)
      BY <1>1, <2>2, <3>2 DEF Spi!Shift
    <3>3. QED
      BY <3>1, <3>2
  <2>5. QED
    BY <2>1, <2>2, <2>4, Taken DEF SpiType
<1>2. CASE Spi!Tick
  BY <1>2 DEF Spi!Tick, Spi!call, SpiType
<1>3. CASE Spi!refused
  BY <1>3 DEF Spi!refused, Spi!call, SpiType
<1>4. CASE Spi!transfer
  <2>1. \A c \in Configs : Spi!Configured(c) \in {"SINGLE", "DUAL", "QUAD"}
    BY DEF Spi!Configured, Spi!ConfigsAssumption
  <2>2. QED
    BY <1>4, <2>1 DEF Spi!transfer, SpiType
<1>5. CASE Spi!Send
  <2>1. PICK f \in {"SINGLE", "DUAL", "QUAD"} : f = Spi!Proto(fmt)
    BY ProtoType DEF SpiType
  <2>2. PICK s \in Seq(AnyFrame), x \in AnyFrame : s = spiTx /\ x = [of |-> spiNr, i |-> spiI, proto |-> f]
    BY DEF SpiType, AnyFrame
  <2>3. /\ fmt' = f /\ spiTx' = Append(s, x) /\ spiAt' = "wait"
        /\ UNCHANGED <<spiRx, csmode, cfg, len, spiNr, spiI, rx_buf, spiRet, gaveup>>
    BY <1>5, <2>1, <2>2 DEF Spi!Send, Spi!call
  <2>4. QED
    BY <2>3, Added DEF SpiType
<1>6. CASE Spi!Receive
  <2>1. PICK s \in Seq(AnyFrame), b \in Seq(AnyFrame) : s = spiRx /\ b = rx_buf /\ s # << >>
    BY <1>6 DEF SpiType, Spi!Receive
  <2>2. /\ spiRx' = Tail(s) /\ rx_buf' = Append(b, Head(s)) /\ spiI' = spiI + 1 /\ spiAt' = "next"
        /\ UNCHANGED <<spiTx, fmt, csmode, spiWaited, cfg, len, spiNr, spiRet, gaveup>>
    BY <1>6, <2>1 DEF Spi!Receive, Spi!call
  <2>3. Tail(s) \in Seq(AnyFrame) /\ Append(b, Head(s)) \in Seq(AnyFrame)
    BY <2>1, Taken, Added
  <2>4. QED
    BY <2>2, <2>3 DEF SpiType
<1>7. CASE Spi!GiveUp
  BY <1>7 DEF Spi!GiveUp, Spi!Over, Spi!call, SpiType
<1>8. CASE Spi!Finish
  BY <1>8, ProtoType DEF Spi!Finish, Spi!Over, Spi!call, SpiType
<1>9. CASE UNCHANGED Spi!vars
  BY <1>9 DEF Spi!vars, Spi!call, SpiType
<1>10. QED
  BY <1>1, <1>2, <1>3, <1>4, <1>5, <1>6, <1>7, <1>8, <1>9 DEF Spi!Next, Spi!Step

\* Every step, of which only the controller's move frames on.
LEMMA LeftNext ==
  ASSUME Spi!ConfigsAssumption, Spi!DepthAssumption, LeftInv, [Spi!Next]_Spi!vars
  PROVE  LeftInv'
<1>1. SpiType /\ SpiType'
  BY SpiTypeNext DEF LeftInv
<1>2. PICK s \in Seq(AnyFrame), t \in Seq(AnyFrame), m \in Nat, k \in Nat, g \in Nat :
        s = spiTx /\ t = spiRx /\ m = Len(s) /\ k = Len(t) /\ g = gaveup
  BY <1>1 DEF SpiType
<1>3. /\ g < Entries => m + k = g + (IF spiAt = "wait" THEN 1 ELSE 0)
      /\ (csmode = "auto") = (spiAt = "idle")
      /\ Entries \in Nat
  BY <1>2 DEF LeftInv, Spi!OneFrameLeft, Spi!ChipSelectHeld, Spi!DepthAssumption
<1>4. SUFFICES /\ gaveup' < Entries => Len(spiTx') + Len(spiRx') = gaveup' + (IF spiAt' = "wait" THEN 1 ELSE 0)
               /\ (csmode' = "auto") = (spiAt' = "idle")
  BY <1>1 DEF LeftInv, Spi!OneFrameLeft, Spi!ChipSelectHeld
<1>5. CASE Spi!Shift
  <2>1. /\ s # << >> /\ spiTx' = Tail(s)
        /\ UNCHANGED <<fmt, csmode, spiWaited, cfg, len, spiNr, spiAt, spiI, rx_buf, spiRet, gaveup>>
    BY <1>2, <1>5 DEF Spi!Shift, Spi!call
  <2>2. m # 0 /\ Len(spiTx') = m - 1
    BY <1>2, <2>1, Taken
  <2>3. ASSUME g < Entries
        PROVE  Len(spiRx') = k + 1
    <3>1. k < Entries
      BY <1>2, <1>3, <2>2, <2>3
    <3>2. [Head(s) EXCEPT !.proto = fmt] \in AnyFrame
      <4>1. Head(s) \in AnyFrame
        BY <2>1, Taken
      <4>2. QED
        BY <1>1, <4>1 DEF AnyFrame, SpiType
    <3>3. spiRx' = Append(t, [Head(s) EXCEPT !.proto = fmt])
      BY <1>2, <1>5, <3>1 DEF Spi!Shift
    <3>4. QED
      BY <1>2, <3>2, <3>3, Added
  <2>4. g < Entries => Len(spiTx') + Len(spiRx') = m + k
    <3>1. (m - 1) + (k + 1) = m + k
      OBVIOUS
    <3>2. QED
      BY <2>2, <2>3, <3>1
  <2>5. QED
    BY <1>2, <1>3, <2>1, <2>4
<1>6. CASE Spi!Tick \/ Spi!refused
  BY <1>2, <1>3, <1>6 DEF Spi!Tick, Spi!refused, Spi!call
<1>7. CASE Spi!transfer
  BY <1>2, <1>3, <1>7 DEF Spi!transfer
<1>8. CASE Spi!Send
  <2>1. /\ spiAt = "next" /\ spiAt' = "wait" /\ UNCHANGED <<spiRx, csmode, spiNr, gaveup>>
        /\ spiTx' = Append(s, [of |-> spiNr, i |-> spiI, proto |-> fmt'])
    BY <1>2, <1>8 DEF Spi!Send, Spi!call
  <2>2. [of |-> spiNr, i |-> spiI, proto |-> fmt'] \in AnyFrame
    BY <1>1, <1>8 DEF Spi!Send, Spi!call, SpiType, AnyFrame
  <2>3. Len(spiTx') = m + 1
    BY <1>2, <2>1, <2>2, Added
  <2>4. Len(spiTx') + Len(spiRx') = m + k + 1
    BY <1>2, <2>1, <2>3
  <2>5. g < Entries => m + k = g
    BY <1>3, <2>1
  <2>6. QED
    BY <1>2, <1>3, <2>1, <2>4, <2>5
<1>9. CASE Spi!Receive
  <2>1. /\ spiAt = "wait" /\ spiAt' = "next" /\ t # << >> /\ spiRx' = Tail(t)
        /\ UNCHANGED <<spiTx, csmode, spiNr, gaveup>>
    BY <1>2, <1>9 DEF Spi!Receive, Spi!call
  <2>2. k # 0 /\ Len(spiRx') = k - 1
    BY <1>2, <2>1, Taken
  <2>3. QED
    BY <1>2, <1>3, <2>1, <2>2
<1>10. CASE Spi!GiveUp
  BY <1>2, <1>3, <1>10 DEF Spi!GiveUp, Spi!Over, Spi!call
<1>11. CASE Spi!Finish
  BY <1>2, <1>3, <1>11 DEF Spi!Finish, Spi!Over, Spi!call
<1>12. CASE UNCHANGED Spi!vars
  BY <1>2, <1>3, <1>12 DEF Spi!vars, Spi!call
<1>13. QED
  BY <1>5, <1>6, <1>7, <1>8, <1>9, <1>10, <1>11, <1>12 DEF Spi!Next, Spi!Step

\* Whatever the controller does, a transfer that gave up leaves one frame in it and no other
\* transfer leaves any, as long as a queue holds those that are left; and the chip select is
\* held during the transfers, and only then (sifive_spi0.c:187-205).
THEOREM FramesLeft ==
  ASSUME Spi!ConfigsAssumption, Spi!DepthAssumption
  PROVE  Spi!Spec => [](Spi!OneFrameLeft /\ Spi!ChipSelectHeld)
<1>1. Spi!Init => LeftInv
  BY LeftInit
<1>2. LeftInv /\ [Spi!Next]_Spi!vars => LeftInv'
  BY LeftNext
<1>3. LeftInv => Spi!OneFrameLeft /\ Spi!ChipSelectHeld
  BY DEF LeftInv
<1>4. QED
  BY <1>1, <1>2, <1>3, PTL DEF Spi!Spec

-----------------------------------------------------------------------------
(* What comes back is the transfer's own. *)

\* The wires that frame k of a transfer c goes over.
FirstOf(c) ==
  IF c.multi_wire = "ALL" THEN 0 ELSE IF c.multi_wire = "ADDR_DATA" THEN c.cmd ELSE c.cmd + c.addr + c.dummy
WiresOf(c, k) == IF k >= FirstOf(c) THEN c.protocol ELSE "SINGLE"
\* The protocol before frame k is sent.
Before(c, k) == IF k = 0 THEN Spi!Configured(c) ELSE WiresOf(c, k - 1)

OwnFrame(n, c, k) == [of |-> n, i |-> k, proto |-> WiresOf(c, k)]
OwnBytes(n, c, b) == \A k \in 1 .. Len(b) : b[k] = OwnFrame(n, c, k - 1)

\* The frames that a transfer has sent and stored are counted alike.
CountInv ==
  /\ spiAt = "next" => spiI <= Spi!Frames
  /\ spiAt = "wait" => spiI < Spi!Frames
  /\ spiAt # "idle" => Len(rx_buf) = spiI
  /\ spiAt = "idle" /\ spiNr > 0 /\ spiRet = 0 => Len(rx_buf) = Spi!Frames

\* One frame is under way while the transfer waits, and none else.
UnderWay ==
  \/ spiTx = << OwnFrame(spiNr, cfg, spiI) >> /\ spiRx = << >>
  \/ spiTx = << >> /\ spiRx = << OwnFrame(spiNr, cfg, spiI) >>
OwnInv ==
  /\ OwnBytes(spiNr, cfg, rx_buf)
  /\ spiAt # "wait" => spiTx = << >> /\ spiRx = << >>
  /\ spiAt = "next" => fmt = Before(cfg, spiI)
  /\ spiAt = "wait" => fmt = WiresOf(cfg, spiI) /\ UnderWay

\* As long as no transfer gave up, what is under way is the present one's.
TransferInv == SpiType /\ CountInv /\ (gaveup = 0 => OwnInv)

\* A queue of one frame.
LEMMA OneOf ==
  ASSUME NEW x
  PROVE  /\ Head(<< x >>) = x /\ Tail(<< x >>) = << >> /\ << x >> # << >>
         /\ Append(<< >>, x) = << x >> /\ Len(<< >>) = 0
  OBVIOUS

\* What a transfer is configured with.
LEMMA ConfigFields ==
  ASSUME Spi!ConfigsAssumption
  PROVE  /\ \A c \in Configs : /\ c.protocol \in {"SINGLE", "DUAL", "QUAD"}
                               /\ c.multi_wire \in {"ALL", "DATA_ONLY", "ADDR_DATA"}
                               /\ c.cmd \in Nat /\ c.addr \in Nat /\ c.dummy \in Nat
         /\ \A n \in Lengths : n \in Nat
  BY DEF Spi!ConfigsAssumption

\* The switches before a frame put it on its wires.
LEMMA WiresSwitched ==
  ASSUME Spi!ConfigsAssumption, cfg \in Configs, spiI \in Nat
  PROVE  Spi!Proto(Before(cfg, spiI)) = WiresOf(cfg, spiI)
<1>0. /\ cfg.multi_wire \in {"ALL", "DATA_ONLY", "ADDR_DATA"}
      /\ cfg.cmd \in Nat /\ cfg.addr \in Nat /\ cfg.dummy \in Nat
  BY ConfigFields
<1>1. PICK p, m, c, d, k :
        p = cfg.protocol /\ m = cfg.multi_wire /\ c = cfg.cmd /\ d = cfg.cmd + cfg.addr + cfg.dummy /\ k = spiI
  OBVIOUS
<1>2. m \in {"ALL", "DATA_ONLY", "ADDR_DATA"} /\ c <= d /\ c \in Nat /\ d \in Nat /\ k \in Nat
  BY <1>0, <1>1
<1>3. QED
  BY <1>1, <1>2 DEF Spi!Proto, Spi!Switched, Spi!Command, Spi!Dummy, Spi!Configured, Before, WiresOf, FirstOf

\* A transfer has a number of frames.
LEMMA FramesNat ==
  ASSUME Spi!ConfigsAssumption, cfg \in Configs, len \in Lengths
  PROVE  Spi!Frames \in Nat
  BY ConfigFields DEF Spi!Frames, Spi!Dummy

\* Every step counts its frames.
LEMMA CountNext ==
  ASSUME Spi!ConfigsAssumption, SpiType, CountInv, [Spi!Next]_Spi!vars
  PROVE  CountInv'
<1>1. SpiType'
  BY SpiTypeNext
<1>2. PICK b \in Seq(AnyFrame), k \in Nat, N \in Nat : b = rx_buf /\ k = spiI /\ N = Spi!Frames
  BY FramesNat DEF SpiType
<1>3. ASSUME UNCHANGED <<cfg, len>>
      PROVE  Spi!Frames' = N
  BY <1>2, <1>3 DEF Spi!Frames, Spi!Dummy
<1>4. CASE Spi!Shift \/ Spi!Tick \/ UNCHANGED Spi!vars
  <2>1. UNCHANGED <<cfg, len, spiNr, spiAt, spiI, rx_buf, spiRet>>
    BY <1>4 DEF Spi!Shift, Spi!Tick, Spi!vars, Spi!call
  <2>2. QED
    BY <1>2, <1>3, <2>1 DEF CountInv
<1>5. CASE Spi!refused
  <2>1. spiAt' = "idle" /\ spiRet' = -1
    BY <1>5 DEF Spi!refused
  <2>2. QED
    BY <2>1 DEF CountInv
<1>6. CASE Spi!transfer
  <2>1. spiI' = 0 /\ rx_buf' = << >> /\ spiAt' = "next"
    BY <1>6 DEF Spi!transfer
  <2>2. Spi!Frames' \in Nat
    <3>1. cfg' \in Configs /\ len' \in Lengths
      BY <1>1 DEF SpiType
    <3>2. cfg'.cmd \in Nat /\ cfg'.addr \in Nat /\ cfg'.dummy \in Nat /\ len' \in Nat
      BY <3>1, ConfigFields
    <3>3. QED
      BY <3>2 DEF Spi!Frames, Spi!Dummy
  <2>3. QED
    BY <2>1, <2>2, OneOf DEF CountInv
<1>7. CASE Spi!Send
  <2>1. /\ spiAt = "next" /\ spiAt' = "wait" /\ spiI < Spi!Frames
        /\ UNCHANGED <<cfg, len, spiI, rx_buf>>
    BY <1>7 DEF Spi!Send, Spi!call
  <2>2. QED
    BY <1>2, <1>3, <2>1 DEF CountInv
<1>8. CASE Spi!Receive
  <2>1. /\ spiAt = "wait" /\ spiAt' = "next" /\ spiI' = spiI + 1 /\ spiRx # << >>
        /\ rx_buf' = Append(rx_buf, Head(spiRx)) /\ UNCHANGED <<cfg, len>>
    BY <1>8 DEF Spi!Receive, Spi!call
  <2>2. Len(rx_buf') = k + 1
    <3>1. PICK t \in Seq(AnyFrame) : t = spiRx
      BY DEF SpiType
    <3>2. Head(t) \in AnyFrame
      BY <2>1, <3>1, Taken
    <3>3. Len(b) = k
      BY <1>2, <2>1 DEF CountInv
    <3>4. QED
      BY <1>2, <2>1, <3>1, <3>2, <3>3, Added
  <2>3. k < N
    BY <1>2, <2>1 DEF CountInv
  <2>4. QED
    BY <1>2, <1>3, <2>1, <2>2, <2>3 DEF CountInv
<1>9. CASE Spi!GiveUp
  <2>1. spiAt' = "idle" /\ spiRet' = 1
    BY <1>9 DEF Spi!GiveUp, Spi!Over
  <2>2. QED
    BY <2>1 DEF CountInv
<1>10. CASE Spi!Finish
  <2>1. spiAt = "next" /\ spiI >= Spi!Frames /\ spiAt' = "idle" /\ UNCHANGED <<cfg, len, rx_buf>>
    BY <1>10 DEF Spi!Finish, Spi!Over, Spi!call
  <2>2. Len(b) = k /\ k <= N
    BY <1>2, <2>1 DEF CountInv
  <2>3. k = N
    BY <1>2, <2>1, <2>2
  <2>4. QED
    BY <1>2, <1>3, <2>1, <2>2, <2>3 DEF CountInv
<1>11. QED
  BY <1>4, <1>5, <1>6, <1>7, <1>8, <1>9, <1>10 DEF Spi!Next, Spi!Step

\* Every step keeps what is under way the transfer's own, unless it gives up.
LEMMA OwnNext ==
  ASSUME Spi!ConfigsAssumption, Spi!DepthAssumption, SpiType, CountInv, OwnInv,
         [Spi!Next]_Spi!vars, ~ Spi!GiveUp
  PROVE  OwnInv'
<1>1. SpiType'
  BY SpiTypeNext
<1>2. PICK b \in Seq(AnyFrame), k \in Nat, n \in Nat : b = rx_buf /\ k = spiI /\ n = spiNr
  BY DEF SpiType
<1>3. CASE Spi!Shift
  <2>1. /\ spiTx # << >> /\ spiTx' = Tail(spiTx)
        /\ UNCHANGED <<fmt, csmode, spiWaited, cfg, len, spiNr, spiAt, spiI, rx_buf, spiRet, gaveup>>
    BY <1>3 DEF Spi!Shift, Spi!call
  <2>2. spiAt = "wait" /\ spiTx = << OwnFrame(spiNr, cfg, spiI) >> /\ spiRx = << >> /\ fmt = WiresOf(cfg, spiI)
    BY <2>1 DEF OwnInv, UnderWay
  <2>3. spiTx' = << >>
    BY <2>1, <2>2, OneOf
  <2>4. Len(spiRx) < Entries
    BY <2>2, OneOf DEF Spi!DepthAssumption
  <2>5. spiRx' = Append(spiRx, [Head(spiTx) EXCEPT !.proto = fmt])
    BY <1>3, <2>4 DEF Spi!Shift
  <2>6. [Head(spiTx) EXCEPT !.proto = fmt] = OwnFrame(spiNr, cfg, spiI)
    <3>1. Head(spiTx) = OwnFrame(spiNr, cfg, spiI)
      BY <2>2, OneOf
    <3>2. QED
      BY <2>2, <3>1 DEF OwnFrame
  <2>7. spiRx' = << OwnFrame(spiNr, cfg, spiI) >>
    BY <2>2, <2>5, <2>6, OneOf
  <2>8. UnderWay'
    BY <2>1, <2>3, <2>7 DEF UnderWay, OwnFrame, WiresOf, FirstOf
  <2>9. QED
    BY <2>1, <2>2, <2>8 DEF OwnInv, WiresOf, FirstOf, OwnBytes, OwnFrame
<1>4. CASE Spi!Tick \/ UNCHANGED Spi!vars
  <2>1. UNCHANGED <<spiTx, spiRx, fmt, csmode, cfg, len, spiNr, spiAt, spiI, rx_buf, spiRet, gaveup>>
    BY <1>4 DEF Spi!Tick, Spi!vars, Spi!call
  <2>2. QED
    BY <2>1 DEF OwnInv, UnderWay, Before, WiresOf, FirstOf, Spi!Configured, OwnBytes, OwnFrame
<1>5. CASE Spi!refused
  <2>1. spiAt = "idle" /\ UNCHANGED <<spiTx, spiRx, cfg, len, spiNr, spiAt, spiI, rx_buf, gaveup>>
    BY <1>5 DEF Spi!refused, Spi!call
  <2>2. QED
    BY <2>1 DEF OwnInv, WiresOf, FirstOf, OwnBytes, OwnFrame
<1>6. CASE Spi!transfer
  <2>1. /\ spiAt = "idle" /\ spiI' = 0 /\ rx_buf' = << >> /\ spiAt' = "next" /\ fmt' = Spi!Configured(cfg')
        /\ UNCHANGED <<spiTx, spiRx>>
    BY <1>6 DEF Spi!transfer
  <2>2. OwnBytes(spiNr, cfg, rx_buf)'
    BY <2>1, OneOf DEF OwnBytes
  <2>3. fmt' = Before(cfg, spiI)'
    BY <2>1 DEF Before, Spi!Configured
  <2>4. QED
    BY <2>1, <2>2, <2>3 DEF OwnInv
<1>7. CASE Spi!Send
  <2>1. /\ spiAt = "next" /\ spiAt' = "wait" /\ fmt' = Spi!Proto(fmt)
        /\ spiTx' = Append(spiTx, [of |-> spiNr, i |-> spiI, proto |-> fmt'])
        /\ UNCHANGED <<spiRx, csmode, cfg, len, spiNr, spiI, rx_buf, spiRet, gaveup>>
    BY <1>7 DEF Spi!Send, Spi!call
  <2>2. fmt' = WiresOf(cfg, spiI)
    BY <2>1, WiresSwitched DEF OwnInv, SpiType
  <2>3. spiTx = << >> /\ spiRx = << >>
    BY <2>1 DEF OwnInv
  <2>4. spiTx' = << OwnFrame(spiNr, cfg, spiI) >>
    BY <2>1, <2>2, <2>3, OneOf DEF OwnFrame
  <2>5. UnderWay'
    BY <2>1, <2>3, <2>4 DEF UnderWay, OwnFrame, WiresOf, FirstOf
  <2>6. QED
    BY <2>1, <2>2, <2>5 DEF OwnInv, WiresOf, FirstOf, OwnBytes, OwnFrame
<1>8. CASE Spi!Receive
  <2>1. /\ spiAt = "wait" /\ spiRx # << >> /\ spiRx' = Tail(spiRx) /\ rx_buf' = Append(rx_buf, Head(spiRx))
        /\ spiI' = spiI + 1 /\ spiAt' = "next"
        /\ UNCHANGED <<spiTx, fmt, csmode, spiWaited, cfg, len, spiNr, spiRet, gaveup>>
    BY <1>8 DEF Spi!Receive, Spi!call
  <2>2. UnderWay /\ fmt = WiresOf(cfg, spiI) /\ Len(b) = k /\ OwnBytes(n, cfg, b)
    BY <1>2, <2>1 DEF OwnInv, CountInv
  <2>3. spiTx = << >> /\ spiRx = << OwnFrame(n, cfg, k) >>
    BY <1>2, <2>1, <2>2 DEF UnderWay
  <2>4. spiTx' = << >> /\ spiRx' = << >> /\ rx_buf' = Append(b, OwnFrame(n, cfg, k))
    BY <1>2, <2>1, <2>3, OneOf
  <2>5. OwnFrame(n, cfg, k) \in AnyFrame
    BY <1>2, ConfigFields DEF OwnFrame, AnyFrame, WiresOf, SpiType
  <2>6. PICK a : /\ a = rx_buf' /\ Len(a) = k + 1 /\ a[k + 1] = OwnFrame(n, cfg, k)
                 /\ \A j \in 1 .. k : a[j] = b[j]
    BY <2>2, <2>4, <2>5, Added
  <2>7. OwnBytes(n, cfg, rx_buf')
    <3> SUFFICES ASSUME NEW j \in 1 .. k + 1 PROVE a[j] = OwnFrame(n, cfg, j - 1)
      BY <1>2, <2>6 DEF OwnBytes
    <3>1. CASE j = k + 1
      <4>1. j - 1 = k
        BY <3>1
      <4>2. a[j] = OwnFrame(n, cfg, k)
        BY <2>6, <3>1
      <4>3. QED
        BY <4>1, <4>2
    <3>2. CASE j \in 1 .. k
      BY <2>2, <2>6, <3>2 DEF OwnBytes
    <3>3. QED
      BY <3>1, <3>2
  <2>8. fmt' = Before(cfg, k + 1)'
    BY <1>2, <2>1, <2>2 DEF Before, WiresOf, FirstOf
  <2>9. spiI' = k + 1 /\ spiNr' = n /\ cfg' = cfg
    BY <1>2, <2>1
  <2>10. OwnBytes(spiNr, cfg, rx_buf)'
    BY <2>7, <2>9 DEF OwnBytes, OwnFrame, WiresOf, FirstOf
  <2>11. (fmt = Before(cfg, spiI))'
    BY <2>8, <2>9 DEF Before, WiresOf, FirstOf, Spi!Configured
  <2>12. QED
    BY <2>1, <2>4, <2>10, <2>11 DEF OwnInv
<1>9. CASE Spi!Finish
  <2>1. /\ spiAt = "next" /\ spiAt' = "idle"
        /\ UNCHANGED <<spiTx, spiRx, spiWaited, cfg, len, spiNr, spiI, rx_buf, gaveup>>
    BY <1>9 DEF Spi!Finish, Spi!Over, Spi!call
  <2>2. QED
    BY <2>1 DEF OwnInv, WiresOf, FirstOf, OwnBytes, OwnFrame
<1>10. QED
  BY <1>3, <1>4, <1>5, <1>6, <1>7, <1>8, <1>9 DEF Spi!Next, Spi!Step

\* No step takes back that a transfer gave up.
LEMMA GaveUpStays ==
  ASSUME SpiType, [Spi!Next]_Spi!vars, gaveup' = 0
  PROVE  gaveup = 0 /\ ~ Spi!GiveUp
<1>1. gaveup \in Nat
  BY DEF SpiType
<1>2. ~ Spi!GiveUp
  BY <1>1 DEF Spi!GiveUp
<1>3. gaveup' = gaveup
  BY <1>2 DEF Spi!Next, Spi!Step, Spi!Shift, Spi!Tick, Spi!refused, Spi!transfer, Spi!Send, Spi!Receive,
     Spi!Finish, Spi!vars
<1>4. QED
  BY <1>2, <1>3

\* The invariant of the transfers.
LEMMA TransferNext ==
  ASSUME Spi!ConfigsAssumption, Spi!DepthAssumption, TransferInv, [Spi!Next]_Spi!vars
  PROVE  TransferInv'
<1>1. SpiType' /\ CountInv'
  BY SpiTypeNext, CountNext DEF TransferInv
<1>2. ASSUME gaveup' = 0
      PROVE  OwnInv'
  <2>1. gaveup = 0 /\ ~ Spi!GiveUp
    BY <1>2, GaveUpStays DEF TransferInv
  <2>2. QED
    BY <2>1, OwnNext DEF TransferInv
<1>3. QED
  BY <1>1, <1>2 DEF TransferInv

\* Nothing is under way.
LEMMA TransferInit ==
  ASSUME Spi!ConfigsAssumption, Spi!Init
  PROVE  TransferInv
  BY OneOf DEF Spi!Init, TransferInv, SpiType, CountInv, OwnInv, OwnBytes

\* What the invariant says of the bytes received.
LEMMA TransferOwn ==
  ASSUME Spi!ConfigsAssumption, TransferInv
  PROVE  Spi!ReceivedIsOwn /\ Spi!StageOnItsWires /\ Spi!SelectedToTheEnd /\ Spi!SendsLen
<1>1. ASSUME gaveup = 0, NEW k \in 1 .. Len(rx_buf)
      PROVE  rx_buf[k].of = spiNr /\ rx_buf[k].i = k - 1 /\ rx_buf[k].proto = WiresOf(cfg, k - 1)
  <2>1. PICK j, w, n : j = k - 1 /\ w = WiresOf(cfg, k - 1) /\ n = spiNr
    OBVIOUS
  <2>2. rx_buf[k] = [of |-> n, i |-> j, proto |-> w]
    BY <1>1, <2>1 DEF TransferInv, OwnInv, OwnBytes, OwnFrame
  <2>3. QED
    BY <2>1, <2>2
<1>2. Spi!ReceivedIsOwn
  BY <1>1 DEF Spi!ReceivedIsOwn
<1>3. ASSUME gaveup = 0, NEW k \in 1 .. Len(rx_buf)
      PROVE  rx_buf[k].proto = Spi!Wires(rx_buf[k])
  <2>1. rx_buf[k].i = k - 1 /\ rx_buf[k].proto = WiresOf(cfg, k - 1)
    BY <1>1, <1>3
  <2>2. QED
    BY <2>1 DEF Spi!Wires, WiresOf, FirstOf, Spi!Command, Spi!Dummy
<1>4. Spi!StageOnItsWires
  BY <1>3 DEF Spi!StageOnItsWires
<1>5. Spi!SelectedToTheEnd
  BY OneOf DEF TransferInv, OwnInv, Spi!SelectedToTheEnd
<1>6. Spi!SendsLen
  BY ConfigFields DEF TransferInv, CountInv, SpiType, Spi!SendsLen, Spi!Frames, Spi!Dummy
<1>7. QED
  BY <1>2, <1>4, <1>5, <1>6

\* As long as no frame of the SPI was slower than the timeout the bytes of a transfer are the
\* answers to its own frames, every frame goes over the wires of its stage, and the chip select
\* goes back when they are all through; and a transfer whose stages are part of it sends as many
\* frames as it was asked, for every configuration and any depth of the queues
\* (sifive_spi0.c:140-327).
THEOREM TransfersAreTheirOwn ==
  ASSUME Spi!ConfigsAssumption, Spi!DepthAssumption
  PROVE  Spi!Spec => [](Spi!ReceivedIsOwn /\ Spi!StageOnItsWires /\ Spi!SelectedToTheEnd /\ Spi!SendsLen)
<1>1. Spi!Init => TransferInv
  BY TransferInit
<1>2. TransferInv /\ [Spi!Next]_Spi!vars => TransferInv'
  BY TransferNext
<1>3. TransferInv => Spi!ReceivedIsOwn /\ Spi!StageOnItsWires /\ Spi!SelectedToTheEnd /\ Spi!SendsLen
  BY TransferOwn
<1>4. QED
  BY <1>1, <1>2, <1>3, PTL DEF Spi!Spec

-----------------------------------------------------------------------------
(* The I2C. *)

I2cByte == [of : Nat, i : Nat]

I2cType ==
  /\ call \in I2cCalls /\ nr \in Nat /\ i \in Nat /\ dir \in {"w", "r"}
  /\ rxack \in BOOLEAN /\ acks \in Seq(BOOLEAN)
  /\ i2cAt \in {"idle", "free", "addressed", "send", "byte"}

\* The command under way is that of the byte the call waits for, and the byte received is its own.
ReadInv ==
  /\ I2cType /\ buf \in Seq(I2cByte) /\ I2c!ReadsItsBytes
  /\ i2cAt # "idle" => Len(buf) = IF dir = "r" THEN i ELSE 0
  /\ i2cAt = "byte" /\ dir = "r" =>
       IF tip = I2c!None THEN data = [of |-> nr, i |-> i]
       ELSE tip.dir = "r" /\ tip.of = nr /\ tip.i = i

\* The command that is given.
LEMMA CommandIs ==
  ASSUME NEW d \in {"w", "r"}, NEW start, NEW stop, NEW nack, NEW k, I2c!Command(d, start, stop, nack, k)
  PROVE  /\ tip' # I2c!None /\ tip'.dir = d /\ tip'.of = nr /\ tip'.i = k
         /\ tip'.start = start /\ tip'.stop = stop /\ tip'.nack = nack
  BY DEF I2c!Command, I2c!None

\* One more byte of a call.
LEMMA ReadOf ==
  ASSUME NEW b \in Seq(I2cByte), NEW x \in I2cByte, NEW n \in Nat, NEW k \in Nat, Len(b) = k,
         x = [of |-> n, i |-> k], \A j \in 1 .. Len(b) : b[j] = [of |-> n, i |-> j - 1]
  PROVE  /\ Append(b, x) \in Seq(I2cByte) /\ Len(Append(b, x)) = k + 1
         /\ \A j \in 1 .. Len(Append(b, x)) : Append(b, x)[j] = [of |-> n, i |-> j - 1]
<1>1. /\ Append(b, x) \in Seq(I2cByte) /\ Len(Append(b, x)) = k + 1
      /\ \A j \in 1 .. Len(b) : Append(b, x)[j] = b[j]
      /\ Append(b, x)[k + 1] = x
  <2>1. /\ Append(b, x) \in Seq(I2cByte) /\ Len(Append(b, x)) = Len(b) + 1
        /\ \A j \in 1 .. Len(b) : Append(b, x)[j] = b[j]
        /\ Append(b, x)[Len(b) + 1] = x
    BY AppendProperties
  <2>2. QED
    BY <2>1
<1>2. ASSUME NEW j \in 1 .. k + 1
      PROVE  Append(b, x)[j] = [of |-> n, i |-> j - 1]
  <2>1. CASE j = k + 1
    <3>1. j - 1 = k
      BY <2>1
    <3>2. QED
      BY <1>1, <2>1, <3>1
  <2>2. CASE j # k + 1
    BY <1>1, <2>2
  <2>3. QED
    BY <2>1, <2>2
<1>3. QED
  BY <1>1, <1>2

\* After the bytes the call returns, or turns round.
LEMMA AfterIs ==
  ASSUME NEW v \in {-1, 0}, I2c!After(v), dir \in {"w", "r"}, i \in Nat
  PROVE  \/ i2cAt' = "idle" /\ UNCHANGED <<dir, i>>
         \/ dir = "w" /\ i2cAt' = "free" /\ dir' = "r" /\ i' = 0
  BY DEF I2c!After, I2c!Return

\* Nothing is read yet.
LEMMA ReadInitInv == I2c!Init => ReadInv
  BY DEF I2c!Init, I2c!Byte, ReadInv, I2cType, I2c!ReadsItsBytes

\* Every step keeps the bytes a call's own.
LEMMA ReadNextInv ==
  ASSUME I2c!CallsAssumption, ReadInv, [I2c!Next]_I2c!vars
  PROVE  ReadInv'
<1>1. /\ I2cType /\ buf \in Seq(I2cByte) /\ I2c!ReadsItsBytes
      /\ i2cAt # "idle" => Len(buf) = IF dir = "r" THEN i ELSE 0
      /\ i2cAt = "byte" /\ dir = "r" =>
           IF tip = I2c!None THEN data = [of |-> nr, i |-> i]
           ELSE tip.dir = "r" /\ tip.of = nr /\ tip.i = i
  BY DEF ReadInv
<1>2. CASE I2c!Complete
  <2>1. /\ UNCHANGED <<call, nr, i2cAt, i, dir, acks, buf>> /\ tip # I2c!None /\ tip' = I2c!None
        /\ rxack' \in BOOLEAN
        /\ tip.dir = "r" => data' = [of |-> tip.of, i |-> tip.i]
    BY <1>1, <1>2 DEF I2c!Complete, I2cType
  <2>2. QED
    BY <1>1, <2>1 DEF ReadInv, I2cType, I2c!ReadsItsBytes
<1>3. CASE \/ I2c!Tick \/ I2c!refused \/ UNCHANGED I2c!vars
  BY <1>1, <1>3 DEF I2c!Tick, I2c!refused, I2c!vars, ReadInv, I2cType, I2c!ReadsItsBytes
<1>4. ASSUME NEW c \in I2cCalls, I2c!metal_i2c(c)
      PROVE  ReadInv'
  <2>1. /\ call' = c /\ nr' = nr + 1 /\ i' = 0 /\ acks' = << >> /\ buf' = << >> /\ dir' \in {"w", "r"}
        /\ i2cAt' \in {"idle", "free"} /\ UNCHANGED rxack
    BY <1>4 DEF I2c!metal_i2c
  <2>2. I2cType'
    BY <1>1, <2>1 DEF I2cType
  <2>3. QED
    BY <2>1, <2>2 DEF ReadInv, I2c!ReadsItsBytes
<1>5. CASE I2c!write_addr
  BY <1>1, <1>5 DEF I2c!write_addr, ReadInv, I2cType, I2c!ReadsItsBytes
<1>6. CASE I2c!Addressed
  <2>1. /\ UNCHANGED <<tip, rxack, data, call, nr, i, dir, buf>> /\ i2cAt = "addressed"
        /\ acks' = Append(acks, rxack) /\ i2cAt' \in {"idle", "send"}
    BY <1>6 DEF I2c!Addressed, I2c!Return
  <2>2. I2cType'
    BY <1>1, <2>1 DEF I2cType
  <2>3. QED
    BY <1>1, <2>1, <2>2 DEF ReadInv, I2c!ReadsItsBytes
<1>7. CASE I2c!Send
  <2>1. /\ UNCHANGED <<rxack, data, call, nr, i, dir, acks, buf>> /\ i2cAt = "send" /\ i2cAt' = "byte"
        /\ tip' # I2c!None /\ tip'.dir = dir /\ tip'.of = nr /\ tip'.i = i
    BY <1>1, <1>7, CommandIs DEF I2c!Send, I2cType
  <2>2. I2cType'
    BY <1>1, <2>1 DEF I2cType
  <2>3. QED
    BY <1>1, <2>1, <2>2 DEF ReadInv, I2c!ReadsItsBytes
<1>8. CASE I2c!Received
  <2>1. /\ UNCHANGED <<tip, rxack, data, call, nr, acks>> /\ i2cAt = "byte" /\ dir = "r" /\ tip = I2c!None
        /\ buf' = Append(buf, data)
    BY <1>8 DEF I2c!Received
  <2>2. PICK n \in Nat, k \in Nat, b \in Seq(I2cByte) : n = nr /\ k = i /\ b = buf
    BY <1>1 DEF I2cType
  <2>3. PICK x \in I2cByte : x = data /\ x = [of |-> n, i |-> k] /\ Len(b) = k
    BY <1>1, <2>1, <2>2 DEF I2cByte
  <2>4. /\ buf' \in Seq(I2cByte) /\ Len(buf') = k + 1
        /\ \A j \in 1 .. Len(buf') : buf'[j] = [of |-> n, i |-> j - 1]
    BY <1>1, <2>1, <2>2, <2>3, ReadOf DEF I2c!ReadsItsBytes
  <2>5. /\ dir' = dir
        /\ \/ i2cAt' = "idle" /\ i' = i
           \/ i2cAt' = "send" /\ i' = i + 1
    <3>1. CASE I2c!LastByte
      <4>1. I2c!After(0)
        BY <1>8, <3>1 DEF I2c!Received
      <4>2. i2cAt' = "idle" /\ UNCHANGED <<dir, i>>
        BY <2>1, <4>1 DEF I2c!After, I2c!Return
      <4>3. QED
        BY <4>2
    <3>2. CASE ~ I2c!LastByte
      BY <1>8, <3>2 DEF I2c!Received
    <3>3. QED
      BY <3>1, <3>2
  <2>6. I2cType'
    BY <1>1, <2>1, <2>4, <2>5 DEF I2cType
  <2>7. QED
    BY <2>1, <2>2, <2>4, <2>5, <2>6 DEF ReadInv, I2c!ReadsItsBytes
<1>9. CASE I2c!Sent
  <2>1. /\ UNCHANGED <<tip, rxack, data, call, nr, buf>> /\ i2cAt = "byte" /\ dir = "w"
        /\ acks' = Append(acks, rxack)
    BY <1>9 DEF I2c!Sent
  <2>2. \/ i2cAt' = "send" /\ i' = i + 1 /\ dir' = dir
        \/ i2cAt' = "idle" /\ UNCHANGED <<dir, i>>
        \/ i2cAt' = "free" /\ dir' = "r" /\ i' = 0
    BY <1>1, <1>9, AfterIs DEF I2c!Sent, I2cType
  <2>3. I2cType'
    BY <1>1, <2>1, <2>2 DEF I2cType
  <2>4. QED
    BY <1>1, <2>1, <2>2, <2>3 DEF ReadInv, I2c!ReadsItsBytes
<1>10. CASE I2c!GiveUp
  BY <1>1, <1>10 DEF I2c!GiveUp, I2c!Return, ReadInv, I2cType, I2c!ReadsItsBytes
<1>11. QED
  BY <1>2, <1>3, <1>4, <1>5, <1>6, <1>7, <1>8, <1>9, <1>10 DEF I2c!Next, I2c!Step

\* Every byte that a call read is its own, in its order, whatever an earlier call that gave up
\* has left on the bus (sifive_i2c0.c:33-49, 164-216).
THEOREM BytesAreItsOwn ==
  ASSUME I2c!CallsAssumption
  PROVE  I2c!Spec => []I2c!ReadsItsBytes
<1>1. I2c!Init => ReadInv
  BY ReadInitInv
<1>2. ReadInv /\ [I2c!Next]_I2c!vars => ReadInv'
  BY ReadNextInv
<1>3. ReadInv => I2c!ReadsItsBytes
  BY DEF ReadInv
<1>4. QED
  BY <1>1, <1>2, <1>3, PTL DEF I2c!Spec

\* A call that sends found the controller done.
DoneInv == i2cAt = "send" => tip = I2c!None

\* Every step: only a call that found it done gives a command.
LEMMA DoneNext ==
  ASSUME DoneInv, [I2c!Next]_I2c!vars
  PROVE  /\ DoneInv'
         /\ tip' # I2c!None /\ tip' # tip => tip = I2c!None
<1> USE DEF DoneInv
<1>1. CASE I2c!Complete \/ I2c!Tick \/ I2c!refused \/ UNCHANGED I2c!vars
  BY <1>1 DEF I2c!Complete, I2c!Tick, I2c!refused, I2c!vars
<1>2. ASSUME NEW c \in I2cCalls, I2c!metal_i2c(c)
      PROVE  UNCHANGED tip /\ i2cAt' \in {"idle", "free"}
  BY <1>2 DEF I2c!metal_i2c
<1>3. CASE I2c!write_addr
  BY <1>3 DEF I2c!write_addr
<1>4. CASE I2c!Addressed
  BY <1>4 DEF I2c!Addressed
<1>5. CASE I2c!Send
  BY <1>5 DEF I2c!Send
<1>6. CASE I2c!Received \/ I2c!Sent
  BY <1>6 DEF I2c!Received, I2c!Sent
<1>7. CASE I2c!GiveUp
  BY <1>7 DEF I2c!GiveUp, I2c!Return
<1>8. QED
  BY <1>1, <1>2, <1>3, <1>4, <1>5, <1>6, <1>7 DEF I2c!Next, I2c!Step

\* The controller is given a command only when it is done with the last one, even after a call
\* that gave up waiting for it (sifive_i2c0.c:33-49).
THEOREM CommandsWait ==
  I2c!Spec => [][tip' # I2c!None /\ tip' # tip => tip = I2c!None]_I2c!vars
<1>1. I2c!Init => DoneInv
  BY DEF I2c!Init, DoneInv
<1>2. DoneInv /\ [I2c!Next]_I2c!vars => DoneInv'
  BY DoneNext
<1>3. DoneInv /\ [I2c!Next]_I2c!vars => [tip' # I2c!None /\ tip' # tip => tip = I2c!None]_I2c!vars
  BY DoneNext
<1>4. QED
  BY <1>1, <1>2, <1>3, PTL DEF I2c!Spec

-----------------------------------------------------------------------------
(* What the calls leave on the bus; they need not be prompt. *)

AllTrue(s) == \A k \in 1 .. Len(s) : s[k] = TRUE
Stopping == call.stop \/ call.op = "transfer"
\* After its bytes the call turns round.
Turning == call.op = "transfer" /\ dir = "w" /\ call.rx > 0

\* The direction is one that the call has bytes for, or that it only has.
Directed ==
  /\ call.op = "write" => dir = "w"
  /\ call.op = "read" => dir = "r"
  /\ call.op = "transfer" => I2c!Bytes > 0

\* The command that is done, and the one under way, are those of the call's step.
BusInv ==
  /\ I2cType
  /\ i2cAt # "idle" => Directed /\ (~ I2c!BothWays(call) => AllTrue(acks))
  /\ i2cAt \in {"free", "addressed"} => i = 0
  /\ i2cAt = "addressed" =>
       IF tip = I2c!None THEN sending => dir = "r"
       ELSE tip.start /\ tip.dir = "w" /\ tip.i = IF dir = "r" THEN 1 ELSE 0
  /\ i2cAt \in {"send", "byte"} => i < I2c!Bytes /\ (sending => dir = "r")
  /\ i2cAt = "send" => tip = I2c!None
  /\ i2cAt = "byte" =>
       IF tip = I2c!None THEN I2c!LastByte => held = ~ I2c!Stops /\ ~ sending
       ELSE /\ ~ tip.start /\ tip.stop = I2c!Stops /\ tip.dir = dir
            /\ tip.nack = (dir = "r" /\ I2c!LastByte)
  /\ I2c!Succeeded =>
       /\ ~ I2c!BothWays(call) => AllTrue(acks)
       /\ I2c!HasBytes(call) => tip = I2c!None /\ held = ~ Stopping /\ ~ sending

\* One more acknowledgement.
LEMMA AppendTrue ==
  ASSUME NEW s \in Seq(BOOLEAN), AllTrue(s)
  PROVE  AllTrue(Append(s, TRUE)) /\ Append(s, TRUE) \in Seq(BOOLEAN)
  BY DEF AllTrue

\* The acknowledgements, with one more.
LEMMA MoreAcks ==
  ASSUME I2cType, acks' = Append(acks, rxack)
  PROVE  acks' \in Seq(BOOLEAN) /\ (AllTrue(acks) /\ rxack => AllTrue(acks'))
<1>1. PICK a \in Seq(BOOLEAN), t \in BOOLEAN : a = acks /\ t = rxack
  BY DEF I2cType
<1>2. Append(a, t) \in Seq(BOOLEAN)
  BY AppendProperties
<1>3. AllTrue(a) /\ t = TRUE => AllTrue(Append(a, t))
  BY AppendTrue
<1>4. QED
  BY <1>1, <1>2, <1>3

\* What a call is.
LEMMA CallIs ==
  ASSUME I2c!CallsAssumption, NEW c \in I2cCalls
  PROVE  c.op \in {"write", "read", "transfer"} /\ c.tx \in Nat /\ c.rx \in Nat /\ c.stop \in BOOLEAN
  BY DEF I2c!CallsAssumption

\* The last byte of a call that does not turn round is the one that stops.
LEMMA StopsAtTheEnd ==
  ASSUME I2c!CallsAssumption, I2cType, I2c!LastByte, ~ Turning
  PROVE  I2c!Stops = Stopping
<1>1. call.op \in {"write", "read", "transfer"} /\ call.rx \in Nat /\ call.stop \in BOOLEAN /\ dir \in {"w", "r"}
  BY CallIs DEF I2cType
<1>2. QED
  BY <1>1 DEF I2c!Stops, Stopping, Turning

\* A call that moves bytes has some for its direction; the bytes are counted.
LEMMA BytesOf ==
  ASSUME I2c!CallsAssumption, I2cType, Directed
  PROVE  I2c!Bytes \in Nat /\ (I2c!HasBytes(call) => I2c!Bytes > 0) /\ (Turning => I2c!BothWays(call))
<1>1. PICK c \in I2cCalls : c = call
  BY DEF I2cType
<1>2. c.op \in {"write", "read", "transfer"} /\ c.tx \in Nat /\ c.rx \in Nat
  BY CallIs
<1>3. dir \in {"w", "r"}
  BY DEF I2cType
<1>4. I2c!Bytes \in Nat
  BY <1>1, <1>2, <1>3 DEF I2c!Bytes
<1>5. I2c!HasBytes(call) => I2c!Bytes > 0
  BY <1>1, <1>2, <1>3 DEF I2c!Bytes, I2c!HasBytes, Directed
<1>6. Turning => I2c!BothWays(call)
  BY <1>1, <1>2, <1>3 DEF I2c!Bytes, I2c!BothWays, Directed, Turning
<1>7. QED
  BY <1>4, <1>5, <1>6

\* A byte is the last, or there are more.
LEMMA LastOrMore ==
  ASSUME i \in Nat, I2c!Bytes \in Nat, i < I2c!Bytes, ~ I2c!LastByte
  PROVE  i + 1 < I2c!Bytes
  BY DEF I2c!LastByte

\* The bus is free.
LEMMA BusInitInv == I2c!Init => BusInv
  BY DEF I2c!Init, I2c!Byte, BusInv, I2cType, I2c!Succeeded

\* A call begins in the direction of its bytes.
LEMMA BusCall ==
  ASSUME I2c!CallsAssumption, BusInv, NEW c \in I2cCalls, I2c!metal_i2c(c)
  PROVE  BusInv'
<1>1. c.op \in {"write", "read", "transfer"} /\ c.tx \in Nat /\ c.rx \in Nat /\ c.stop \in BOOLEAN
  BY CallIs
<1>2. /\ call' = c /\ nr' = nr + 1 /\ i' = 0 /\ acks' = << >> /\ UNCHANGED rxack
      /\ dir' = IF c.op = "read" \/ (c.op = "transfer" /\ c.tx = 0) THEN "r" ELSE "w"
  BY DEF I2c!metal_i2c
<1>3. AllTrue(<< >>) /\ << >> \in Seq(BOOLEAN)
  BY DEF AllTrue
<1>4. CASE c.op = "transfer" /\ c.tx + c.rx = 0
  <2>1. i2cAt' = "idle"
    BY <1>4 DEF I2c!metal_i2c
  <2>2. I2cType'
    BY <1>2, <1>3, <2>1 DEF BusInv, I2cType
  <2>3. ~ I2c!HasBytes(c)
    BY <1>1, <1>4 DEF I2c!HasBytes
  <2>4. ~ I2c!HasBytes(call)'
    BY <1>2, <2>3 DEF I2c!HasBytes
  <2>5. QED
    BY <1>2, <1>3, <2>1, <2>2, <2>4 DEF BusInv
<1>5. CASE ~ (c.op = "transfer" /\ c.tx + c.rx = 0)
  <2>1. i2cAt' = "free"
    BY <1>5 DEF I2c!metal_i2c
  <2>2. I2cType'
    BY <1>2, <1>3, <2>1 DEF BusInv, I2cType
  <2>3. Directed'
    BY <1>1, <1>2, <1>5 DEF Directed, I2c!Bytes
  <2>4. QED
    BY <1>2, <1>3, <2>1, <2>2, <2>3 DEF BusInv, I2c!Succeeded
<1>6. QED
  BY <1>4, <1>5

\* A command is done.
LEMMA BusComplete ==
  ASSUME I2c!CallsAssumption, BusInv, I2c!Complete
  PROVE  BusInv'
<1>1. /\ UNCHANGED <<call, nr, i2cAt, i, dir, acks, buf, ret>> /\ tip # I2c!None /\ tip' = I2c!None
      /\ rxack' \in BOOLEAN /\ held' = ~ tip.stop
  BY DEF I2c!Complete, BusInv, I2cType
<1>2. /\ tip.start /\ tip.dir # "r" => sending' = (tip.i = 1 /\ rxack')
      /\ ~ tip.start /\ tip.dir = "r" => sending' = (sending /\ ~ tip.nack)
      /\ ~ tip.start /\ tip.dir # "r" => sending' = sending
  <2>1. sending' = CASE tip.start -> tip.i = 1 /\ rxack'
                     [] tip.dir = "r" -> sending /\ ~ tip.nack
                     [] OTHER -> sending
    BY DEF I2c!Complete
  <2>2. QED
    BY ONLY <2>1, Zenon
<1>3. I2cType' /\ (i2cAt # "idle" => Directed' /\ (~ I2c!BothWays(call)' => AllTrue(acks)'))
  BY <1>1 DEF BusInv, I2cType, Directed, I2c!Bytes, I2c!BothWays, AllTrue
<1>4. ASSUME i2cAt = "addressed", sending'
      PROVE  dir' = "r"
  <2>1. tip.start /\ tip.dir = "w" /\ tip.i = IF dir = "r" THEN 1 ELSE 0
    BY <1>1, <1>4 DEF BusInv
  <2>2. tip.i = 1
    BY <1>2, <1>4, <2>1
  <2>3. QED
    BY <1>1, <2>1, <2>2
<1>5. i2cAt = "byte" => (sending' => dir' = "r") /\ i < I2c!Bytes
  BY <1>1, <1>2 DEF BusInv, I2cType
<1>6. ASSUME i2cAt = "byte", I2c!LastByte
      PROVE  held' = ~ I2c!Stops /\ ~ sending'
  <2>1. /\ ~ tip.start /\ tip.stop = I2c!Stops /\ tip.dir = dir
        /\ tip.nack = (dir = "r" /\ I2c!LastByte)
        /\ sending => dir = "r"
    BY <1>1, <1>6 DEF BusInv
  <2>2. ~ sending'
    BY <1>2, <1>6, <2>1
  <2>3. QED
    BY <1>1, <2>1, <2>2
<1>7. i2cAt # "send"
  BY <1>1 DEF BusInv
<1>8. I2c!Succeeded' = I2c!Succeeded /\ I2c!HasBytes(call)' = I2c!HasBytes(call)
      /\ I2c!BothWays(call)' = I2c!BothWays(call) /\ AllTrue(acks)' = AllTrue(acks)
  BY <1>1 DEF I2c!Succeeded, I2c!HasBytes, I2c!BothWays, AllTrue
<1>9. I2c!Succeeded' =>
        /\ ~ I2c!BothWays(call)' => AllTrue(acks)'
        /\ I2c!HasBytes(call)' => tip' = I2c!None /\ held' = ~ Stopping' /\ ~ sending'
  BY <1>1, <1>8 DEF BusInv
<1>10. I2c!Bytes' = I2c!Bytes /\ I2c!LastByte' = I2c!LastByte /\ I2c!Stops' = I2c!Stops
  BY <1>1 DEF I2c!Bytes, I2c!LastByte, I2c!Stops
<1>11. (i2cAt \in {"free", "addressed"} => i = 0)'
  BY <1>1 DEF BusInv
<1>12. QED
  BY <1>1, <1>3, <1>4, <1>5, <1>6, <1>7, <1>9, <1>10, <1>11 DEF BusInv

\* The end of the bytes in a direction: the call returns, or turns round.
LEMMA BusAfter ==
  ASSUME I2c!CallsAssumption, BusInv, i2cAt = "byte", tip = I2c!None, I2c!LastByte \/ ~ rxack,
         NEW v \in {-1, 0}, I2c!After(v), v = 0 => I2c!LastByte,
         UNCHANGED <<tip, rxack, held, sending, call, nr>>, acks' \in Seq(BOOLEAN),
         AllTrue(acks) /\ v = 0 => AllTrue(acks')
  PROVE  BusInv'
<1>1. I2cType /\ Directed /\ (~ I2c!BothWays(call) => AllTrue(acks)) /\ (sending => dir = "r")
      /\ (I2c!LastByte => held = ~ I2c!Stops /\ ~ sending)
  BY DEF BusInv
<1>2. CASE Turning
  <2>1. i2cAt' = "free" /\ dir' = "r" /\ i' = 0
    BY <1>2 DEF I2c!After, Turning
  <2>2. I2cType'
    BY <1>1, <2>1 DEF I2cType
  <2>3. Directed'
    BY <1>2, <2>1 DEF Turning, Directed, I2c!Bytes
  <2>4. I2c!BothWays(call)'
    <3>1. I2c!BothWays(call)
      BY <1>1, <1>2, BytesOf
    <3>2. QED
      BY <3>1 DEF I2c!BothWays
  <2>5. QED
    BY <2>1, <2>2, <2>3, <2>4 DEF BusInv, I2c!Succeeded
<1>3. CASE ~ Turning
  <2>1. i2cAt' = "idle" /\ ret' = v /\ UNCHANGED <<dir, i>>
    BY <1>3 DEF I2c!After, I2c!Return, Turning
  <2>2. I2cType'
    BY <1>1, <2>1 DEF I2cType
  <2>3. ASSUME v = 0
        PROVE  held' = ~ Stopping' /\ ~ sending'
    <3>1. held = ~ I2c!Stops /\ ~ sending /\ I2c!Stops = Stopping
      BY <1>1, <1>3, <2>3, StopsAtTheEnd
    <3>2. Stopping' = Stopping
      BY DEF Stopping
    <3>3. QED
      BY <3>1, <3>2
  <2>4. v = 0 /\ ~ I2c!BothWays(call)' => AllTrue(acks')
    BY <1>1 DEF I2c!BothWays
  <2>5. I2c!Succeeded' => v = 0
    BY <2>1 DEF I2c!Succeeded
  <2>6. QED
    BY <2>1, <2>2, <2>3, <2>4, <2>5 DEF BusInv
<1>4. QED
  BY <1>2, <1>3

\* There are more bytes in the direction.
LEMMA BusMore ==
  ASSUME I2c!CallsAssumption, BusInv, i2cAt = "byte", tip = I2c!None, ~ I2c!LastByte,
         i2cAt' = "send", i' = i + 1, UNCHANGED <<tip, rxack, sending, call, nr, dir, ret>>,
         acks' \in Seq(BOOLEAN), AllTrue(acks) => AllTrue(acks')
  PROVE  BusInv'
<1>1. I2cType /\ Directed /\ (~ I2c!BothWays(call) => AllTrue(acks)) /\ (sending => dir = "r") /\ i < I2c!Bytes
  BY DEF BusInv
<1>2. I2c!Bytes' = I2c!Bytes /\ i + 1 < I2c!Bytes
  BY <1>1, BytesOf, LastOrMore DEF I2cType, I2c!Bytes
<1>3. I2cType'
  BY <1>1 DEF I2cType
<1>4. Directed' /\ I2c!BothWays(call)' = I2c!BothWays(call)
  BY <1>1, <1>2 DEF Directed, I2c!BothWays
<1>5. QED
  BY <1>1, <1>2, <1>3, <1>4 DEF BusInv, I2c!Succeeded

\* Every step of the calls and of the bus.
LEMMA BusNextInv ==
  ASSUME I2c!CallsAssumption, BusInv, [I2c!Next]_I2c!vars
  PROVE  BusInv'
<1>1. /\ I2cType
      /\ i2cAt # "idle" => Directed /\ (~ I2c!BothWays(call) => AllTrue(acks))
  BY DEF BusInv
<1>2. CASE I2c!Complete
  BY <1>2, BusComplete
<1>3. CASE I2c!Tick \/ UNCHANGED I2c!vars
  <2>1. UNCHANGED <<tip, rxack, data, held, sending, call, nr, i2cAt, i, dir, acks, buf, ret>>
    BY <1>3 DEF I2c!Tick, I2c!vars
  <2>2. I2cType' /\ Directed' = Directed /\ I2c!Bytes' = I2c!Bytes /\ I2c!LastByte' = I2c!LastByte
        /\ I2c!Stops' = I2c!Stops /\ Stopping' = Stopping /\ I2c!Succeeded' = I2c!Succeeded
        /\ I2c!BothWays(call)' = I2c!BothWays(call) /\ I2c!HasBytes(call)' = I2c!HasBytes(call)
        /\ AllTrue(acks)' = AllTrue(acks)
    BY <1>1, <2>1 DEF I2cType, Directed, I2c!Bytes, I2c!LastByte, I2c!Stops, Stopping, I2c!Succeeded,
       I2c!BothWays, I2c!HasBytes, AllTrue
  <2>3. QED
    BY <2>1, <2>2 DEF BusInv
<1>4. CASE I2c!refused
  <2>1. i2cAt' = "idle" /\ nr' = 0 /\ UNCHANGED <<tip, rxack, call, nr, i, dir, acks>> /\ i2cAt = "idle"
    BY <1>4 DEF I2c!refused
  <2>2. QED
    BY <1>1, <2>1 DEF BusInv, I2cType, I2c!Succeeded
<1>5. ASSUME NEW c \in I2cCalls, I2c!metal_i2c(c)
      PROVE  BusInv'
  BY <1>5, BusCall
<1>6. CASE I2c!write_addr
  <2>1. /\ UNCHANGED <<rxack, call, nr, i, dir, acks, buf, ret>> /\ i2cAt = "free" /\ i2cAt' = "addressed"
        /\ tip' # I2c!None /\ tip'.start = TRUE /\ tip'.dir = "w" /\ tip'.i = IF dir = "r" THEN 1 ELSE 0
    BY <1>6, CommandIs DEF I2c!write_addr
  <2>2. I2cType' /\ Directed' /\ I2c!BothWays(call)' = I2c!BothWays(call) /\ AllTrue(acks)' = AllTrue(acks)
    BY <1>1, <2>1 DEF I2cType, Directed, I2c!Bytes, I2c!BothWays, AllTrue
  <2>3. QED
    BY <1>1, <2>1, <2>2 DEF BusInv, I2c!Succeeded
<1>7. CASE I2c!Addressed
  <2>1. /\ UNCHANGED <<tip, rxack, sending, call, nr, i, dir, buf>> /\ i2cAt = "addressed" /\ tip = I2c!None
        /\ acks' = Append(acks, rxack)
        /\ \/ rxack /\ I2c!Bytes > 0 /\ i2cAt' = "send"
           \/ rxack /\ I2c!Bytes = 0 /\ i2cAt' = "idle"
           \/ ~ rxack /\ i2cAt' = "idle" /\ ret' = -1
    BY <1>7 DEF I2c!Addressed, I2c!Return
  <2>2. acks' \in Seq(BOOLEAN) /\ (AllTrue(acks) /\ rxack => AllTrue(acks'))
    BY <1>1, <2>1, MoreAcks
  <2>3. I2cType'
    BY <1>1, <2>1, <2>2 DEF I2cType
  <2>4. Directed' /\ I2c!BothWays(call)' = I2c!BothWays(call) /\ I2c!HasBytes(call)' = I2c!HasBytes(call)
        /\ I2c!Bytes' = I2c!Bytes
    BY <1>1, <2>1 DEF Directed, I2c!Bytes, I2c!BothWays, I2c!HasBytes
  <2>5. i = 0 /\ (sending => dir = "r")
    BY <2>1 DEF BusInv
  <2>6. CASE rxack /\ I2c!Bytes > 0 /\ i2cAt' = "send"
    BY <1>1, <2>1, <2>2, <2>3, <2>4, <2>5, <2>6 DEF BusInv, I2c!Succeeded
  <2>7. CASE rxack /\ I2c!Bytes = 0 /\ i2cAt' = "idle"
    <3>1. ~ I2c!HasBytes(call)
      <4>1. ~ (I2c!Bytes > 0)
        BY <2>7
      <4>2. QED
        BY <1>1, <2>1, <4>1, BytesOf
    <3>2. QED
      BY <1>1, <2>1, <2>2, <2>3, <2>4, <2>7, <3>1 DEF BusInv
  <2>8. CASE ~ rxack /\ i2cAt' = "idle" /\ ret' = -1
    BY <2>3, <2>8 DEF BusInv, I2c!Succeeded
  <2>9. QED
    BY <2>1, <2>6, <2>7, <2>8
<1>8. CASE I2c!Send
  <2>1. /\ UNCHANGED <<rxack, sending, call, nr, i, dir, acks, buf, ret>> /\ i2cAt = "send" /\ i2cAt' = "byte"
        /\ tip' # I2c!None /\ tip'.dir = dir /\ tip'.start = FALSE /\ tip'.stop = I2c!Stops
        /\ tip'.nack = (dir = "r" /\ I2c!LastByte)
    <3>1. PICK d \in {"w", "r"} : d = dir
      BY <1>1 DEF I2cType
    <3>2. PICK s, n, k : s = I2c!Stops /\ n = (dir = "r" /\ I2c!LastByte) /\ k = i
      OBVIOUS
    <3>3. I2c!Command(d, FALSE, s, n, k)
      BY <1>8, <3>1, <3>2 DEF I2c!Send
    <3>4. tip' # I2c!None /\ tip'.dir = d /\ tip'.start = FALSE /\ tip'.stop = s /\ tip'.nack = n
      BY <3>3, CommandIs
    <3>5. QED
      BY <1>8, <3>1, <3>2, <3>4 DEF I2c!Send
  <2>2. I2cType' /\ Directed' /\ I2c!BothWays(call)' = I2c!BothWays(call) /\ AllTrue(acks)' = AllTrue(acks)
    BY <1>1, <2>1 DEF I2cType, Directed, I2c!Bytes, I2c!BothWays, AllTrue
  <2>3. I2c!Bytes' = I2c!Bytes /\ I2c!LastByte' = I2c!LastByte /\ I2c!Stops' = I2c!Stops
    BY <2>1 DEF I2c!Bytes, I2c!LastByte, I2c!Stops
  <2>4. i < I2c!Bytes /\ (sending => dir = "r")
    BY <2>1 DEF BusInv
  <2>5. QED
    BY <1>1, <2>1, <2>2, <2>3, <2>4 DEF BusInv, I2c!Succeeded
<1>9. CASE I2c!Received
  <2>1. /\ UNCHANGED <<tip, rxack, held, sending, call, nr, acks>> /\ i2cAt = "byte" /\ tip = I2c!None /\ dir = "r"
    BY <1>9 DEF I2c!Received
  <2>2. acks' \in Seq(BOOLEAN) /\ acks' = acks
    BY <1>1, <2>1 DEF I2cType
  <2>3. CASE I2c!LastByte
    <3>1. I2c!After(0)
      BY <1>9, <2>3 DEF I2c!Received
    <3>2. QED
      BY <2>1, <2>2, <2>3, <3>1, BusAfter
  <2>4. CASE ~ I2c!LastByte
    <3>1. i2cAt' = "send" /\ i' = i + 1 /\ UNCHANGED <<dir, ret>>
      BY <1>9, <2>4 DEF I2c!Received
    <3>2. QED
      BY <2>1, <2>2, <2>4, <3>1, BusMore
  <2>5. QED
    BY <2>3, <2>4
<1>10. CASE I2c!Sent
  <2>1. /\ UNCHANGED <<tip, rxack, held, sending, call, nr, buf>> /\ i2cAt = "byte" /\ tip = I2c!None /\ dir = "w"
        /\ acks' = Append(acks, rxack)
    BY <1>10 DEF I2c!Sent
  <2>2. acks' \in Seq(BOOLEAN) /\ (AllTrue(acks) /\ rxack => AllTrue(acks'))
    BY <1>1, <2>1, MoreAcks
  <2>3. CASE rxack /\ ~ I2c!LastByte /\ i2cAt' = "send" /\ i' = i + 1 /\ UNCHANGED <<dir, ret>>
    BY <2>1, <2>2, <2>3, BusMore
  <2>4. CASE rxack /\ I2c!LastByte /\ I2c!After(0)
    BY <2>1, <2>2, <2>4, BusAfter
  <2>5. CASE ~ rxack /\ I2c!After(-1)
    <3>1. -1 \in {-1, 0} /\ -1 # 0
      OBVIOUS
    <3>2. QED
      BY <2>1, <2>2, <2>5, <3>1, BusAfter
  <2>6. QED
    BY <1>10, <2>3, <2>4, <2>5 DEF I2c!Sent
<1>11. CASE I2c!GiveUp
  <2>1. UNCHANGED <<tip, rxack, sending, call, nr, i, dir, acks, buf>> /\ i2cAt' = "idle" /\ ret' = -1
    BY <1>11 DEF I2c!GiveUp, I2c!Return
  <2>2. QED
    BY <1>1, <2>1 DEF BusInv, I2cType, I2c!Succeeded
<1>12. QED
  BY <1>2, <1>3, <1>4, <1>5, <1>6, <1>7, <1>8, <1>9, <1>10, <1>11 DEF I2c!Next, I2c!Step

\* What the invariant says of the calls that return 0.
LEMMA BusInvReturns ==
  BusInv => /\ I2c!StopAsAsked /\ I2c!DeviceIsReleased
            /\ ~ I2c!BothWays(call) => I2c!AllAcknowledged
<1>1. SUFFICES ASSUME BusInv, I2c!Succeeded
               PROVE  /\ ~ I2c!BothWays(call) => FALSE \notin I2c!ToSet(acks)
                      /\ I2c!HasBytes(call) => held = ~ (call.stop \/ call.op = "transfer") /\ ~ sending
  BY DEF I2c!AllAcknowledged, I2c!StopAsAsked, I2c!DeviceIsReleased
<1>2. ASSUME ~ I2c!BothWays(call)
      PROVE  FALSE \notin I2c!ToSet(acks)
  <2>1. PICK a \in Seq(BOOLEAN) : a = acks /\ AllTrue(a)
    BY <1>1, <1>2 DEF BusInv, I2cType
  <2>2. \A k \in DOMAIN a : a[k] = TRUE
    BY <2>1 DEF AllTrue
  <2>3. QED
    BY <2>1, <2>2 DEF I2c!ToSet
<1>3. QED
  BY <1>1, <1>2 DEF BusInv, Stopping

\* A call of some bytes, in one direction or both, that returns 0 holds the bus exactly if no stop
\* was asked for, and its device drives nothing, after calls that gave up as well; unless it went
\* both ways every byte it sent was acknowledged (sifive_i2c0.c:33-49, 164-252).
THEOREM BusAsAsked ==
  ASSUME I2c!CallsAssumption
  PROVE  I2c!Spec => [](/\ I2c!StopAsAsked /\ I2c!DeviceIsReleased
                        /\ ~ I2c!BothWays(call) => I2c!AllAcknowledged)
<1>1. I2c!Init => BusInv
  BY BusInitInv
<1>2. BusInv /\ [I2c!Next]_I2c!vars => BusInv'
  BY BusNextInv
<1>3. BusInv => /\ I2c!StopAsAsked /\ I2c!DeviceIsReleased
                /\ ~ I2c!BothWays(call) => I2c!AllAcknowledged
  BY BusInvReturns
<1>4. QED
  BY <1>1, <1>2, <1>3, PTL DEF I2c!Spec

-----------------------------------------------------------------------------
(* Lists. *)

\* The first of a list, and the rest.
LEMMA FirstOfList ==
  ASSUME NEW S, NEW x \in S, NEW r \in Seq(S)
  PROVE  /\ << x >> \o r \in Seq(S) /\ << x >> \o r # << >>
         /\ Head(<< x >> \o r) = x /\ Tail(<< x >> \o r) = r /\ Len(<< x >> \o r) = Len(r) + 1
<1> DEFINE s == << x >> \o r
<1>1. << x >> \in Seq(S) /\ Len(<< x >>) = 1 /\ << x >>[1] = x
  OBVIOUS
<1>2. /\ s \in Seq(S) /\ Len(s) = 1 + Len(r)
      /\ \A k \in 1 .. 1 + Len(r) : s[k] = IF k <= 1 THEN << x >>[k] ELSE r[k - 1]
  BY <1>1, ConcatProperties
<1> HIDE DEF s
<1>3. Len(r) \in Nat
  OBVIOUS
<1>4. s # << >> /\ s[1] = x
  BY <1>1, <1>2, <1>3
<1>5. /\ Head(s) = s[1] /\ Tail(s) \in Seq(S) /\ Len(Tail(s)) = Len(s) - 1
      /\ \A k \in 1 .. Len(Tail(s)) : Tail(s)[k] = s[k + 1]
  BY <1>2, <1>4, HeadTailProperties
<1>6. \A k \in 1 .. Len(r) : Tail(s)[k] = r[k]
  BY <1>2, <1>3, <1>5
<1>7. Tail(s) = r
  BY <1>2, <1>3, <1>5, <1>6, SeqEqual
<1>8. QED
  BY <1>2, <1>3, <1>4, <1>5, <1>7 DEF s

\* A list of two is that of the one and that of the other.
LEMMA ListOfTwo ==
  ASSUME NEW S, NEW x \in S, NEW y \in S
  PROVE  << x, y >> \in Seq(S) /\ << x, y >> = << x >> \o << y >>
<1> DEFINE s == << x >> \o << y >>
           t == << x, y >>
<1>1. << x >> \in Seq(S) /\ << y >> \in Seq(S) /\ Len(<< x >>) = 1 /\ Len(<< y >>) = 1
        /\ << x >>[1] = x /\ << y >>[1] = y
  OBVIOUS
<1>2. s \in Seq(S) /\ Len(s) = 2 /\ s[1] = x /\ s[2] = y
  BY <1>1, ConcatProperties
<1>3. t \in Seq(S) /\ Len(t) = 2 /\ t[1] = x /\ t[2] = y
  OBVIOUS
<1> HIDE DEF s, t
<1>4. s = t
  BY <1>2, <1>3, SeqEqual
<1>5. QED
  BY <1>3, <1>4 DEF s, t

\* And one of three.
LEMMA ListOfThree ==
  ASSUME NEW S, NEW x \in S, NEW y \in S, NEW z \in S
  PROVE  << x, y, z >> \in Seq(S) /\ << x, y, z >> = << x >> \o << y, z >>
<1> DEFINE s == << x >> \o << y, z >>
           t == << x, y, z >>
<1>1. << x >> \in Seq(S) /\ << y, z >> \in Seq(S) /\ Len(<< x >>) = 1 /\ Len(<< y, z >>) = 2
        /\ << x >>[1] = x /\ << y, z >>[1] = y /\ << y, z >>[2] = z
  OBVIOUS
<1>2. s \in Seq(S) /\ Len(s) = 3 /\ s[1] = x /\ s[2] = y /\ s[3] = z
  BY <1>1, ConcatProperties
<1>3. t \in Seq(S) /\ Len(t) = 3 /\ t[1] = x /\ t[2] = y /\ t[3] = z
  OBVIOUS
<1> HIDE DEF s, t
<1>4. s = t
  BY <1>2, <1>3, SeqEqual
<1>5. QED
  BY <1>3, <1>4 DEF s, t

-----------------------------------------------------------------------------
(* The watchdog: its configuration, and the fields that are set. *)

WdogCfg == [scale : 0 .. ScaleMask, rsten : BOOLEAN, zerocmp : BOOLEAN, always : BOOLEAN,
            awake : BOOLEAN, ip : BOOLEAN]
FieldSet ==
  {[scale |-> s] : s \in 0 .. ScaleMask} \cup
  {[rsten |-> FALSE, zerocmp |-> FALSE]} \cup {[zerocmp |-> TRUE]} \cup {[rsten |-> TRUE]} \cup
  {[always |-> FALSE, awake |-> FALSE]} \cup {[always |-> TRUE]} \cup {[awake |-> TRUE]} \cup
  {[ip |-> FALSE]}

\* The fields that matter to what was asked.
Alike(c, d) == /\ c.scale = d.scale /\ c.rsten = d.rsten /\ c.zerocmp = d.zerocmp
               /\ c.always = d.always /\ c.awake = d.awake

\* The fields that a literal record has.
LEMMA FieldDomains ==
  /\ \A s : DOMAIN [scale |-> s] = {"scale"} /\ [scale |-> s].scale = s
  /\ DOMAIN [rsten |-> FALSE, zerocmp |-> FALSE] = {"rsten", "zerocmp"}
  /\ DOMAIN [always |-> FALSE, awake |-> FALSE] = {"always", "awake"}
  /\ DOMAIN [zerocmp |-> TRUE] = {"zerocmp"} /\ DOMAIN [rsten |-> TRUE] = {"rsten"}
  /\ DOMAIN [always |-> TRUE] = {"always"} /\ DOMAIN [awake |-> TRUE] = {"awake"}
  /\ DOMAIN [ip |-> FALSE] = {"ip"}
OBVIOUS

\* A field is the stored one, or as it was.
LEMMA WithFields ==
  ASSUME NEW c \in WdogCfg, NEW f
  PROVE  LET w == Wdog!With(c, f) IN
         /\ DOMAIN w = {"scale", "rsten", "zerocmp", "always", "awake", "ip"}
         /\ w.scale = IF "scale" \in DOMAIN f THEN f.scale ELSE c.scale
         /\ w.rsten = IF "rsten" \in DOMAIN f THEN f.rsten ELSE c.rsten
         /\ w.zerocmp = IF "zerocmp" \in DOMAIN f THEN f.zerocmp ELSE c.zerocmp
         /\ w.always = IF "always" \in DOMAIN f THEN f.always ELSE c.always
         /\ w.awake = IF "awake" \in DOMAIN f THEN f.awake ELSE c.awake
         /\ w.ip = IF "ip" \in DOMAIN f THEN f.ip ELSE c.ip
  BY DEF WdogCfg, Wdog!With

\* A store leaves a configuration.
LEMMA WithIsCfg ==
  ASSUME NEW c \in WdogCfg, NEW f \in FieldSet
  PROVE  Wdog!With(c, f) \in WdogCfg
<1> DEFINE w == Wdog!With(c, f)
<1>1. /\ c.scale \in 0 .. ScaleMask /\ c.rsten \in BOOLEAN /\ c.zerocmp \in BOOLEAN /\ c.always \in BOOLEAN
      /\ c.awake \in BOOLEAN /\ c.ip \in BOOLEAN
  BY DEF WdogCfg
<1>2. /\ "scale" \in DOMAIN f => f.scale \in 0 .. ScaleMask
      /\ "rsten" \in DOMAIN f => f.rsten \in BOOLEAN
      /\ "zerocmp" \in DOMAIN f => f.zerocmp \in BOOLEAN
      /\ "always" \in DOMAIN f => f.always \in BOOLEAN
      /\ "awake" \in DOMAIN f => f.awake \in BOOLEAN
      /\ "ip" \in DOMAIN f => f.ip \in BOOLEAN
  <2>1. CASE \E s \in 0 .. ScaleMask : f = [scale |-> s]
    BY <2>1, FieldDomains
  <2>2. CASE f = [rsten |-> FALSE, zerocmp |-> FALSE]
    BY <2>2, FieldDomains
  <2>3. CASE f = [zerocmp |-> TRUE]
    BY <2>3, FieldDomains
  <2>4. CASE f = [rsten |-> TRUE]
    BY <2>4, FieldDomains
  <2>5. CASE f = [always |-> FALSE, awake |-> FALSE]
    BY <2>5, FieldDomains
  <2>6. CASE f = [always |-> TRUE]
    BY <2>6, FieldDomains
  <2>7. CASE f = [awake |-> TRUE]
    BY <2>7, FieldDomains
  <2>8. CASE f = [ip |-> FALSE]
    BY <2>8, FieldDomains
  <2>9. QED
    BY <2>1, <2>2, <2>3, <2>4, <2>5, <2>6, <2>7, <2>8 DEF FieldSet
<1>3. /\ w.scale \in 0 .. ScaleMask /\ w.rsten \in BOOLEAN /\ w.zerocmp \in BOOLEAN /\ w.always \in BOOLEAN
      /\ w.awake \in BOOLEAN /\ w.ip \in BOOLEAN
  BY <1>1, <1>2, WithFields
<1>4. w = [scale |-> w.scale, rsten |-> w.rsten, zerocmp |-> w.zerocmp, always |-> w.always,
           awake |-> w.awake, ip |-> w.ip]
  <2>1. DOMAIN w = {"scale", "rsten", "zerocmp", "always", "awake", "ip"}
    BY WithFields
  <2>2. w = [x \in {"scale", "rsten", "zerocmp", "always", "awake", "ip"} |-> w[x]]
    BY <2>1 DEF Wdog!With
  <2> HIDE DEF w
  <2>3. QED
    BY <2>2
<1>5. QED
  BY <1>3, <1>4 DEF WdogCfg

\* The same store makes alike what was alike.
LEMMA WithAlike ==
  ASSUME NEW c \in WdogCfg, NEW d \in WdogCfg, NEW f, Alike(c, d)
  PROVE  Alike(Wdog!With(c, f), Wdog!With(d, f))
  BY WithFields DEF Alike

\* It runs; the stores that stop it and that take the results away.
Runs(c) == c.always \/ c.awake
Stopped == [always |-> FALSE, awake |-> FALSE]
Silent == [rsten |-> FALSE, zerocmp |-> FALSE]

\* What the stores of the driver do.
LEMMA Stores ==
  ASSUME NEW c \in WdogCfg
  PROVE  /\ \A f \in FieldSet : "always" \notin DOMAIN f /\ "awake" \notin DOMAIN f =>
                Runs(Wdog!With(c, f)) = Runs(c)
         /\ \A f \in FieldSet : "rsten" \notin DOMAIN f /\ "zerocmp" \notin DOMAIN f =>
                Wdog!With(c, f).rsten = c.rsten /\ Wdog!With(c, f).zerocmp = c.zerocmp
         /\ ~ Runs(Wdog!With(c, Stopped))
         /\ Runs(Wdog!With(c, [always |-> TRUE])) /\ Runs(Wdog!With(c, [awake |-> TRUE]))
         /\ ~ Wdog!With(c, Silent).rsten /\ ~ Wdog!With(c, Silent).zerocmp
         /\ Wdog!With(c, [zerocmp |-> TRUE]).zerocmp /\ Wdog!With(c, [rsten |-> TRUE]).rsten
         /\ Wdog!With(c, [zerocmp |-> TRUE]).rsten = c.rsten
         /\ Wdog!With(c, [rsten |-> TRUE]).zerocmp = c.zerocmp
<1>1. ASSUME NEW f \in FieldSet, "always" \notin DOMAIN f, "awake" \notin DOMAIN f
      PROVE  Runs(Wdog!With(c, f)) = Runs(c)
  BY <1>1, WithFields DEF Runs
<1>2. ASSUME NEW f \in FieldSet, "rsten" \notin DOMAIN f, "zerocmp" \notin DOMAIN f
      PROVE  Wdog!With(c, f).rsten = c.rsten /\ Wdog!With(c, f).zerocmp = c.zerocmp
  BY <1>2, WithFields
<1>3. ~ Runs(Wdog!With(c, Stopped))
  BY WithFields, FieldDomains DEF Stopped, Runs
<1>4. Runs(Wdog!With(c, [always |-> TRUE])) /\ Runs(Wdog!With(c, [awake |-> TRUE]))
  BY WithFields, FieldDomains DEF Runs
<1>5. ~ Wdog!With(c, Silent).rsten /\ ~ Wdog!With(c, Silent).zerocmp
  BY WithFields, FieldDomains DEF Silent
<1>6. Wdog!With(c, [zerocmp |-> TRUE]).zerocmp /\ Wdog!With(c, [rsten |-> TRUE]).rsten
  BY WithFields, FieldDomains
<1>7. Wdog!With(c, [zerocmp |-> TRUE]).rsten = c.rsten /\ Wdog!With(c, [rsten |-> TRUE]).zerocmp = c.zerocmp
  BY WithFields, FieldDomains
<1>8. QED
  BY <1>1, <1>2, <1>3, <1>4, <1>5, <1>6, <1>7

-----------------------------------------------------------------------------
(* The scale that is chosen. *)

Scale == 0 .. ScaleMask - 1
\* The scale that is chosen is one of the scales.
LEMMA ScaleExists ==
  ASSUME Wdog!WatchdogAssumption, Wdog!ScaleAssumption, NEW rate \in Nat
  PROVE  Wdog!min_scale(rate) \in Scale
<1> DEFINE d(x) == Wdog!Distance(rate, ClockRate \div 2 ^ x)
<1>1. \A x \in Scale : d(x) \in Nat
  <2>1. ASSUME NEW x \in Scale
        PROVE  d(x) \in Nat
    <3>1. PICK p \in Nat \ {0} : p = 2 ^ x
      BY DEF Scale, Wdog!ScaleAssumption, Wdog!WatchdogAssumption
    <3>2. ClockRate \div p \in Nat
      BY DEF Wdog!WatchdogAssumption
    <3>3. QED
      BY <3>1, <3>2 DEF Wdog!Distance
  <2>2. QED
    BY <2>1
<1> HIDE DEF d
<1>2. PICK m \in {d(x) : x \in Scale} : \A k \in {d(x) : x \in Scale} : m <= k
  <2>1. 0 \in Scale
    BY DEF Scale, Wdog!WatchdogAssumption
  <2>2. {d(x) : x \in Scale} \subseteq Nat /\ {d(x) : x \in Scale} # {}
    BY <1>1, <2>1
  <2>3. QED
    BY <2>2, LeastNatural
<1>3. PICK s \in {x \in Scale : d(x) = m} : \A k \in {x \in Scale : d(x) = m} : s <= k
  <2>1. {x \in Scale : d(x) = m} \subseteq Nat /\ {x \in Scale : d(x) = m} # {}
    BY <1>2 DEF Scale
  <2>2. QED
    BY <2>1, LeastNatural
<1>4. s \in Scale /\ \A t \in Scale : d(s) < d(t) \/ (d(s) = d(t) /\ s <= t)
  <2>1. ASSUME NEW t \in Scale
        PROVE  d(s) < d(t) \/ (d(s) = d(t) /\ s <= t)
    <3>1. d(s) = m /\ d(s) \in Nat /\ d(t) \in Nat /\ m <= d(t)
      BY <1>1, <1>2, <1>3
    <3>2. CASE m = d(t)
      BY <1>3, <3>1, <3>2
    <3>3. CASE m # d(t)
      BY <3>1, <3>3
    <3>4. QED
      BY <3>2, <3>3
  <2>2. QED
    BY <1>3, <2>1
<1>5. Wdog!min_scale(rate) = CHOOSE r \in Scale : \A t \in Scale : d(r) < d(t) \/ (d(r) = d(t) /\ r <= t)
  BY DEF Wdog!min_scale, d, Scale
<1>6. QED
  BY <1>4, <1>5

-----------------------------------------------------------------------------
(* What is left of a call, and the registers it leads to. *)

Setting == [timeout : 0 .. TimeoutMask, result : {"NO_RESULT", "INTERRUPT", "FULL_RESET"},
            run : {"STOP", "RUN_ALWAYS", "RUN_AWAKE"}]

\* The registers are as asked.
Settled(c, m, a) ==
  /\ m = a.timeout
  /\ Runs(c) <=> a.run # "STOP"
  /\ c.rsten <=> a.result = "FULL_RESET"
  /\ c.zerocmp <=> a.result = "INTERRUPT"

KeyWord == [a |-> "key"]
LoadWord == [a |-> "load"]
FeedWord == [a |-> "feed"]
Put(f) == [a |-> "config", fields |-> f]
Cmp(t) == [a |-> "compare", value |-> t]
Words == {KeyWord, LoadWord, FeedWord} \cup {Put(f) : f \in FieldSet} \cup {Cmp(t) : t \in 0 .. TimeoutMask}

\* A store of fields, and a feed, before the rest r.
Loaded(f, r) == << LoadWord >> \o (<< Put(f) >> \o r)
ConfigThen(f, r) == << KeyWord >> \o Loaded(f, r)
FeedThen(r) == << KeyWord >> \o (<< FeedWord >> \o r)

\* The rest r leads from the configuration c to what s says; a watchdog that it starts has been
\* fed, in r or before it.
Leads(c, m, s, r, fed) ==
  \/ r = << >> /\ Settled(c, m, s)
  \/ \E g \in FieldSet : /\ r = ConfigThen(g, << >>) /\ Settled(Wdog!With(c, g), m, s)
                         /\ Runs(Wdog!With(c, g)) => Runs(c) \/ fed
  \/ \E g \in FieldSet : r = FeedThen(ConfigThen(g, << >>)) /\ Settled(Wdog!With(c, g), m, s)

Returned == todo = << >> /\ setting = asked /\ Settled(wcfg, wcmp, asked)
Storing(f, r) ==
  /\ Leads(Wdog!With(wcfg, f), wcmp, setting, r, FALSE)
  /\ Runs(Wdog!With(wcfg, f)) => Runs(wcfg) \/ wcount = 0
  /\ \/ todo = ConfigThen(f, r)
     \/ todo = Loaded(f, r) /\ unlocked
     \/ todo = << Put(f) >> \o r /\ unlocked /\ Alike(read, wcfg)
Feeding(r) ==
  /\ Leads(wcfg, wcmp, setting, r, TRUE)
  /\ \/ todo = FeedThen(r)
     \/ todo = << FeedWord >> \o r /\ unlocked
Comparing(t) ==
  /\ Settled(wcfg, t, setting)
  /\ \/ todo = << KeyWord >> \o (<< Cmp(t) >> \o << >>)
     \/ todo = << Cmp(t) >> \o << >> /\ unlocked
Point ==
  \/ Returned
  \/ \E f \in FieldSet, r \in Seq(Words) : Storing(f, r)
  \/ \E r \in Seq(Words) : Feeding(r)
  \/ \E t \in 0 .. TimeoutMask : Comparing(t)

WdogType ==
  /\ wcfg \in WdogCfg /\ read \in WdogCfg /\ wcmp \in 0 .. TimeoutMask
  /\ wcount \in Nat /\ since \in Nat /\ unlocked \in BOOLEAN
  /\ asked \in Setting /\ setting \in Setting

\* The compare register changes last, and a watchdog that runs was fed since it was started.
WdogInv ==
  /\ WdogType /\ Point
  /\ wcmp = asked.timeout
  /\ Runs(wcfg) => wcount <= since

\* The words that the driver writes.
LEMMA WordsOf ==
  /\ KeyWord \in Words /\ LoadWord \in Words /\ FeedWord \in Words
  /\ \A f \in FieldSet : Put(f) \in Words
  /\ \A t \in 0 .. TimeoutMask : Cmp(t) \in Words
  /\ << >> \in Seq(Words)
  BY DEF Words

\* The lists that begin with a word.
LEMMA ListsOf ==
  ASSUME NEW r \in Seq(Words), NEW f \in FieldSet
  PROVE  /\ << Put(f) >> \o r \in Seq(Words) /\ Loaded(f, r) \in Seq(Words)
         /\ ConfigThen(f, r) \in Seq(Words)
         /\ << FeedWord >> \o r \in Seq(Words) /\ FeedThen(r) \in Seq(Words)
<1>1. << Put(f) >> \o r \in Seq(Words) /\ << FeedWord >> \o r \in Seq(Words)
  BY WordsOf, FirstOfList
<1>2. Loaded(f, r) \in Seq(Words) /\ FeedThen(r) \in Seq(Words)
  BY <1>1, WordsOf, FirstOfList DEF Loaded, FeedThen
<1>3. ConfigThen(f, r) \in Seq(Words)
  BY <1>2, WordsOf, FirstOfList DEF ConfigThen
<1>4. QED
  BY <1>1, <1>2, <1>3

\* The fields that matter decide what a configuration settles.
LEMMA SettledAlike ==
  ASSUME NEW c \in WdogCfg, NEW d \in WdogCfg, Alike(c, d), NEW m, NEW s
  PROVE  /\ Runs(c) = Runs(d)
         /\ Settled(c, m, s) => Settled(d, m, s)
  BY DEF Alike, Settled, Runs

\* Fields that do not matter change nothing of what the rest leads to.
LEMMA LeadsAlike ==
  ASSUME NEW c \in WdogCfg, NEW d \in WdogCfg, Alike(c, d), NEW m, NEW s, NEW r, NEW fed, Leads(c, m, s, r, fed)
  PROVE  Leads(d, m, s, r, fed)
<1>1. Runs(c) = Runs(d) /\ (Settled(c, m, s) => Settled(d, m, s))
  BY SettledAlike
<1>2. ASSUME NEW g \in FieldSet
      PROVE  /\ Runs(Wdog!With(c, g)) = Runs(Wdog!With(d, g))
             /\ Settled(Wdog!With(c, g), m, s) => Settled(Wdog!With(d, g), m, s)
  BY WithIsCfg, WithAlike, SettledAlike
<1>3. QED
  BY <1>1, <1>2 DEF Leads

\* Where a block ends, the call is at the rest.
LEMMA Continue ==
  ASSUME WdogType', NEW c \in WdogCfg, NEW r \in Seq(Words), NEW fed \in BOOLEAN,
         Leads(c, wcmp', setting', r, fed), Alike(c, wcfg'), fed => wcount' = 0,
         todo' = r, r = << >> => setting' = asked'
  PROVE  Point'
<1>1. PICK d \in WdogCfg : d = wcfg'
  BY DEF WdogType
<1>2. PICK m, s : m = wcmp' /\ s = setting'
  OBVIOUS
<1>3. Leads(d, m, s, r, fed)
  BY <1>1, <1>2, LeadsAlike
<1>4. CASE r = << >> /\ Settled(d, m, s)
  BY <1>1, <1>2, <1>4 DEF Point, Returned
<1>5. ASSUME NEW g \in FieldSet, r = ConfigThen(g, << >>), Settled(Wdog!With(d, g), m, s),
             Runs(Wdog!With(d, g)) => Runs(d) \/ fed
      PROVE  Point'
  <2>1. Leads(Wdog!With(d, g), m, s, << >>, FALSE)
    BY <1>5 DEF Leads
  <2>2. Storing(g, << >>)'
    BY <1>1, <1>2, <1>5, <2>1 DEF Storing
  <2>3. QED
    BY <2>2, WordsOf DEF Point
<1>6. ASSUME NEW g \in FieldSet, r = FeedThen(ConfigThen(g, << >>)), Settled(Wdog!With(d, g), m, s)
      PROVE  Point'
  <2>1. Leads(d, m, s, ConfigThen(g, << >>), TRUE)
    BY <1>6 DEF Leads
  <2>2. Feeding(ConfigThen(g, << >>))'
    BY <1>1, <1>2, <1>6, <2>1 DEF Feeding
  <2>3. ConfigThen(g, << >>) \in Seq(Words)
    BY ListsOf, WordsOf
  <2>4. QED
    BY <2>2, <2>3 DEF Point
<1>7. QED
  BY <1>3, <1>4, <1>5, <1>6 DEF Leads

\* The watchdog's own steps leave the call where it is.
LEMMA Kept ==
  ASSUME WdogType, WdogType', Point, UNCHANGED <<todo, unlocked, read, wcmp, asked, setting>>,
         Alike(wcfg, wcfg'), ~ Runs(wcfg) /\ wcount = 0 => wcount' = 0
  PROVE  Point'
<1>1. PICK c \in WdogCfg, d \in WdogCfg : c = wcfg /\ d = wcfg'
  BY DEF WdogType
<1>2. PICK m, s : m = wcmp /\ s = setting
  OBVIOUS
<1>3. /\ Alike(c, d) /\ Runs(c) = Runs(d)
      /\ \A n, a : Settled(c, n, a) => Settled(d, n, a)
      /\ \A r, fed : Leads(c, m, s, r, fed) => Leads(d, m, s, r, fed)
  BY <1>1, SettledAlike, LeadsAlike
<1>4. CASE Returned
  BY <1>1, <1>3, <1>4 DEF Point, Returned
<1>5. ASSUME NEW f \in FieldSet, NEW r \in Seq(Words), Storing(f, r)
      PROVE  Point'
  <2>1. Wdog!With(c, f) \in WdogCfg /\ Wdog!With(d, f) \in WdogCfg /\ Alike(Wdog!With(c, f), Wdog!With(d, f))
    BY <1>3, WithIsCfg, WithAlike
  <2>2. /\ Leads(Wdog!With(c, f), m, s, r, FALSE) => Leads(Wdog!With(d, f), m, s, r, FALSE)
        /\ Runs(Wdog!With(c, f)) = Runs(Wdog!With(d, f))
    BY <2>1, LeadsAlike, SettledAlike
  <2>3. Alike(read, c) => Alike(read, d)
    BY <1>3 DEF Alike
  <2>4. Storing(f, r)'
    BY <1>1, <1>2, <1>3, <1>5, <2>2, <2>3 DEF Storing
  <2>5. QED
    BY <2>4 DEF Point
<1>6. ASSUME NEW r \in Seq(Words), Feeding(r)
      PROVE  Point'
  BY <1>1, <1>2, <1>3, <1>6 DEF Feeding, Point
<1>7. ASSUME NEW t \in 0 .. TimeoutMask, Comparing(t)
      PROVE  Point'
  BY <1>1, <1>3, <1>7 DEF Comparing, Point
<1>8. QED
  BY <1>4, <1>5, <1>6, <1>7 DEF Point

-----------------------------------------------------------------------------
(* The accesses. *)

\* The next access, of which the rest r is left.
LEMMA AccessIs ==
  ASSUME Wdog!Access, NEW x \in Words, NEW r \in Seq(Words), todo = << x >> \o r
  PROVE  /\ unlocked' = CASE x.a = "key" -> TRUE [] x.a = "load" -> unlocked [] OTHER -> FALSE
         /\ read' = IF x.a = "load" THEN wcfg ELSE read
         /\ wcfg' = IF x.a = "config" /\ unlocked THEN Wdog!With(read, x.fields) ELSE wcfg
         /\ wcount' = IF x.a = "feed" /\ unlocked THEN 0 ELSE wcount
         /\ wcmp' = IF x.a = "compare" /\ unlocked THEN x.value ELSE wcmp
         /\ since' = IF x.a = "feed" \/ (Runs(wcfg') /\ ~ Runs(wcfg)) THEN 0 ELSE since
         /\ todo' = r /\ UNCHANGED setting
         /\ asked' = IF r = << >> THEN setting ELSE asked
<1>1. Head(todo) = x /\ Tail(todo) = r /\ Len(todo) = Len(r) + 1
  BY FirstOfList
<1>2. Len(todo) = 1 <=> r = << >>
  BY <1>1
<1>3. QED
  BY <1>1, <1>2 DEF Wdog!Access, Wdog!Runs, Runs

\* A word that stores nothing.
LEMMA KeyAccess ==
  ASSUME Wdog!Access, NEW r \in Seq(Words), r # << >>, todo = << KeyWord >> \o r
  PROVE  unlocked' = TRUE /\ todo' = r /\ UNCHANGED <<wcfg, wcmp, wcount, read, asked, setting, since>>
<1>1. PICK x \in Words : x = KeyWord /\ x.a = "key"
  BY WordsOf DEF KeyWord
<1>2. QED
  BY <1>1, AccessIs

\* The configuration is loaded.
LEMMA LoadAccess ==
  ASSUME Wdog!Access, NEW r \in Seq(Words), r # << >>, todo = << LoadWord >> \o r
  PROVE  read' = wcfg /\ todo' = r /\ UNCHANGED <<wcfg, wcmp, wcount, unlocked, asked, setting, since>>
<1>1. PICK x \in Words : x = LoadWord /\ x.a = "load"
  BY WordsOf DEF LoadWord
<1>2. QED
  BY <1>1, AccessIs

\* The fields are stored.
LEMMA PutAccess ==
  ASSUME Wdog!Access, unlocked, NEW f \in FieldSet, NEW r \in Seq(Words), todo = << Put(f) >> \o r
  PROVE  /\ wcfg' = Wdog!With(read, f) /\ unlocked' = FALSE /\ todo' = r /\ UNCHANGED <<wcmp, wcount, read, setting>>
         /\ since' = (IF Runs(wcfg') /\ ~ Runs(wcfg) THEN 0 ELSE since)
         /\ asked' = IF r = << >> THEN setting ELSE asked
<1>1. PICK x \in Words : x = Put(f) /\ x.a = "config" /\ x.fields = f
  BY WordsOf DEF Put
<1>2. QED
  BY <1>1, AccessIs

\* The watchdog is fed.
LEMMA FeedAccess ==
  ASSUME Wdog!Access, unlocked, NEW r \in Seq(Words), todo = << FeedWord >> \o r
  PROVE  /\ wcount' = 0 /\ since' = 0 /\ unlocked' = FALSE /\ todo' = r /\ UNCHANGED <<wcfg, wcmp, read, setting>>
         /\ asked' = IF r = << >> THEN setting ELSE asked
<1>1. PICK x \in Words : x = FeedWord /\ x.a = "feed"
  BY WordsOf DEF FeedWord
<1>2. QED
  BY <1>1, AccessIs

\* The timeout is stored.
LEMMA CompareAccess ==
  ASSUME Wdog!Access, unlocked, NEW t \in 0 .. TimeoutMask, todo = << Cmp(t) >> \o << >>
  PROVE  /\ wcmp' = t /\ unlocked' = FALSE /\ todo' = << >> /\ UNCHANGED <<wcfg, wcount, read, since, setting>>
         /\ asked' = setting
<1>1. PICK x \in Words : x = Cmp(t) /\ x.a = "compare" /\ x.value = t
  BY WordsOf DEF Cmp
<1>2. QED
  BY <1>1, AccessIs, WordsOf DEF Runs

\* What the rest leads to has the timeout that is compared with.
LEMMA LeadsTimeout ==
  ASSUME NEW c, NEW m, NEW s, NEW r, NEW fed, Leads(c, m, s, r, fed)
  PROVE  m = s.timeout
  BY DEF Leads, Settled

\* Every access of the driver keeps the invariant.
LEMMA AccessInv ==
  ASSUME WdogInv, Wdog!Access
  PROVE  WdogInv'
<1>1. WdogType /\ wcmp = asked.timeout /\ (Runs(wcfg) => wcount <= since)
  BY DEF WdogInv
<1>2. CASE Returned
  BY <1>2 DEF Returned, Wdog!Access
<1>3. ASSUME NEW f \in FieldSet, NEW r \in Seq(Words), Storing(f, r)
      PROVE  WdogInv'
  <2>1. << Put(f) >> \o r \in Seq(Words) /\ << Put(f) >> \o r # << >> /\ Loaded(f, r) \in Seq(Words) /\ Loaded(f, r) # << >>
    BY WordsOf, ListsOf, FirstOfList DEF Loaded
  <2>2. CASE todo = ConfigThen(f, r)
    <3>1. /\ unlocked' = TRUE /\ todo' = Loaded(f, r)
          /\ UNCHANGED <<wcfg, wcmp, wcount, read, asked, setting, since>>
      BY <2>1, <2>2, KeyAccess DEF ConfigThen
    <3>2. Storing(f, r)'
      BY <1>3, <3>1 DEF Storing
    <3>3. QED
      BY <1>1, <3>1, <3>2 DEF WdogInv, WdogType, Point
  <2>3. CASE todo = Loaded(f, r) /\ unlocked
    <3>1. /\ read' = wcfg /\ todo' = << Put(f) >> \o r
          /\ UNCHANGED <<wcfg, wcmp, wcount, unlocked, asked, setting, since>>
      BY <2>1, <2>3, LoadAccess DEF Loaded
    <3>2. Storing(f, r)'
      BY <1>3, <2>3, <3>1 DEF Storing, Alike
    <3>3. QED
      BY <1>1, <3>1, <3>2 DEF WdogInv, WdogType, Point
  <2>4. CASE todo = << Put(f) >> \o r /\ unlocked /\ Alike(read, wcfg)
    <3>1. /\ wcfg' = Wdog!With(read, f) /\ unlocked' = FALSE /\ todo' = r /\ UNCHANGED <<wcmp, wcount, read, setting>>
          /\ since' = (IF Runs(wcfg') /\ ~ Runs(wcfg) THEN 0 ELSE since)
          /\ asked' = IF r = << >> THEN setting ELSE asked
      BY <2>4, PutAccess
    <3>2. PICK b \in WdogCfg, c \in WdogCfg : b = read /\ c = wcfg /\ Alike(b, c) /\ Alike(c, b)
      BY <1>1, <2>4 DEF WdogType, Alike
    <3>3. PICK d \in WdogCfg : d = Wdog!With(b, f) /\ wcfg' = d
      BY <3>1, <3>2, WithIsCfg
    <3>4. PICK w \in WdogCfg : w = Wdog!With(c, f) /\ Alike(w, d) /\ Runs(w) = Runs(d)
      BY <3>2, <3>3, WithIsCfg, WithAlike, SettledAlike
    <3>5. since' \in Nat /\ (Runs(wcfg') => wcount' <= since')
      <4>1. Runs(wcfg') => Runs(wcfg) \/ wcount = 0
        BY <1>3, <3>2, <3>3, <3>4 DEF Storing
      <4>2. CASE Runs(wcfg') /\ ~ Runs(wcfg)
        BY <3>1, <4>1, <4>2
      <4>3. CASE ~ (Runs(wcfg') /\ ~ Runs(wcfg))
        BY <1>1, <3>1, <4>3 DEF WdogType
      <4>4. QED
        BY <4>2, <4>3
    <3>6. Leads(w, wcmp', setting', r, FALSE)
      BY <1>3, <3>1, <3>2, <3>4 DEF Storing
    <3>7. wcmp' = asked'.timeout
      <4>1. wcmp = setting.timeout
        BY <3>1, <3>6, LeadsTimeout
      <4>2. QED
        BY <1>1, <3>1, <4>1
    <3>8. WdogType'
      BY <1>1, <3>1, <3>3, <3>5 DEF WdogType
    <3>9. Alike(w, wcfg')
      BY <3>3, <3>4
    <3>10. Point'
      BY <3>1, <3>6, <3>8, <3>9, Continue
    <3>11. QED
      BY <3>5, <3>7, <3>8, <3>10 DEF WdogInv
  <2>5. QED
    BY <1>3, <2>2, <2>3, <2>4 DEF Storing
<1>4. ASSUME NEW r \in Seq(Words), Feeding(r)
      PROVE  WdogInv'
  <2>1. << FeedWord >> \o r \in Seq(Words) /\ << FeedWord >> \o r # << >>
    BY WordsOf, FirstOfList
  <2>2. CASE todo = FeedThen(r)
    <3>1. /\ unlocked' = TRUE /\ todo' = << FeedWord >> \o r
          /\ UNCHANGED <<wcfg, wcmp, wcount, read, asked, setting, since>>
      BY <2>1, <2>2, KeyAccess DEF FeedThen
    <3>2. Feeding(r)'
      BY <1>4, <3>1 DEF Feeding
    <3>3. QED
      BY <1>1, <3>1, <3>2 DEF WdogInv, WdogType, Point
  <2>3. CASE todo = << FeedWord >> \o r /\ unlocked
    <3>1. /\ wcount' = 0 /\ since' = 0 /\ unlocked' = FALSE /\ todo' = r /\ UNCHANGED <<wcfg, wcmp, read, setting>>
          /\ asked' = IF r = << >> THEN setting ELSE asked
      BY <2>3, FeedAccess
    <3>2. PICK c \in WdogCfg : c = wcfg /\ c = wcfg' /\ Alike(c, wcfg')
      BY <1>1, <3>1 DEF WdogType, Alike
    <3>3. Leads(c, wcmp', setting', r, TRUE)
      BY <1>4, <3>1, <3>2 DEF Feeding
    <3>4. wcmp' = asked'.timeout
      <4>1. wcmp = setting.timeout
        BY <3>1, <3>3, LeadsTimeout
      <4>2. QED
        BY <1>1, <3>1, <4>1
    <3>5. WdogType' /\ wcount' <= since'
      <4>1. asked' \in Setting /\ setting' \in Setting
        BY <1>1, <3>1 DEF WdogType
      <4>2. wcount' \in Nat /\ since' \in Nat /\ wcount' <= since'
        BY <3>1
      <4>3. QED
        BY <1>1, <3>1, <4>1, <4>2 DEF WdogType
    <3>6. Point'
      BY <3>1, <3>2, <3>3, <3>5, Continue
    <3>7. QED
      BY <3>4, <3>5, <3>6 DEF WdogInv
  <2>4. QED
    BY <1>4, <2>2, <2>3 DEF Feeding
<1>5. ASSUME NEW t \in 0 .. TimeoutMask, Comparing(t)
      PROVE  WdogInv'
  <2>1. << Cmp(t) >> \o << >> \in Seq(Words) /\ << Cmp(t) >> \o << >> # << >>
    BY WordsOf, FirstOfList
  <2>2. CASE todo = << KeyWord >> \o (<< Cmp(t) >> \o << >>)
    <3>1. /\ unlocked' = TRUE /\ todo' = << Cmp(t) >> \o << >>
          /\ UNCHANGED <<wcfg, wcmp, wcount, read, asked, setting, since>>
      BY <2>1, <2>2, KeyAccess
    <3>2. Comparing(t)'
      BY <1>5, <3>1 DEF Comparing
    <3>3. QED
      BY <1>1, <3>1, <3>2 DEF WdogInv, WdogType, Point
  <2>3. CASE todo = << Cmp(t) >> \o << >> /\ unlocked
    <3>1. /\ wcmp' = t /\ unlocked' = FALSE /\ todo' = << >> /\ UNCHANGED <<wcfg, wcount, read, since, setting>>
          /\ asked' = setting
      BY <2>3, CompareAccess
    <3>2. Returned' /\ t = setting.timeout
      BY <1>5, <3>1 DEF Comparing, Returned, Settled
    <3>3. QED
      BY <1>1, <3>1, <3>2 DEF WdogInv, WdogType, Point
  <2>4. QED
    BY <1>5, <2>2, <2>3 DEF Comparing
<1>6. QED
  BY <1>2, <1>3, <1>4, <1>5 DEF WdogInv, Point

-----------------------------------------------------------------------------
(* The watchdog's steps, and the calls. *)

\* A tick of the watchdog's clock.
LEMMA TickInv ==
  ASSUME Wdog!WatchdogAssumption, WdogInv, Wdog!Tick
  PROVE  WdogInv'
<1>1. WdogType /\ wcmp = asked.timeout /\ (Runs(wcfg) => wcount <= since) /\ Runs(wcfg)
  BY DEF WdogInv, Wdog!Tick, Wdog!Runs, Runs
<1>2. /\ UNCHANGED <<wcfg, wcmp, unlocked, todo, read, asked, setting>>
      /\ wcount' = wcount + 1 /\ since' = (IF since < Latest THEN since + 1 ELSE since) /\ wcount < Latest
  BY DEF Wdog!Tick
<1>3. wcount \in Nat /\ since \in Nat /\ Latest \in Nat
  BY <1>1 DEF WdogType, Wdog!WatchdogAssumption
<1>4. wcount' \in Nat /\ since' \in Nat /\ wcount' <= since'
  BY <1>1, <1>2, <1>3
<1>5. WdogType'
  BY <1>1, <1>2, <1>4 DEF WdogType
<1>6. Point'
  BY <1>1, <1>2, <1>5, Kept DEF WdogInv, Alike
<1>7. QED
  BY <1>1, <1>2, <1>4, <1>5, <1>6 DEF WdogInv

\* The configuration after reset.
LEMMA ResetInv ==
  ASSUME Wdog!WatchdogAssumption, NEW c, c = Wdog!Off
  PROVE  c \in WdogCfg /\ ~ Runs(c) /\ ~ c.rsten /\ ~ c.zerocmp
  BY DEF Wdog!WatchdogAssumption, Wdog!Off, WdogCfg, Runs

\* What is asked of a watchdog after reset.
LEMMA NothingAsked ==
  ASSUME Wdog!WatchdogAssumption, NEW s, s = Wdog!Nothing
  PROVE  s \in Setting /\ s.timeout = TimeoutMask /\ s.run = "STOP" /\ s.result = "NO_RESULT"
  BY DEF Wdog!WatchdogAssumption, Wdog!Nothing, Setting

\* The watchdog matches.
LEMMA BiteInv ==
  ASSUME Wdog!WatchdogAssumption, WdogInv, Wdog!Bite
  PROVE  WdogInv'
<1>1. WdogType /\ wcmp = asked.timeout /\ (Runs(wcfg) => wcount <= since) /\ Runs(wcfg)
  BY DEF WdogInv, Wdog!Bite, Wdog!Runs, Runs
<1>2. CASE wcfg.rsten
  <2>1. /\ wcfg' = Wdog!Off /\ wcmp' = TimeoutMask /\ wcount' = 0 /\ unlocked' = FALSE
        /\ todo' = << >> /\ read' = Wdog!Off /\ asked' = Wdog!Nothing /\ setting' = Wdog!Nothing
        /\ since' = 0
    BY <1>2 DEF Wdog!Bite
  <2>2. PICK c \in WdogCfg : c = Wdog!Off /\ ~ Runs(c) /\ ~ c.rsten /\ ~ c.zerocmp
    BY ResetInv
  <2>3. PICK s \in Setting : s = Wdog!Nothing /\ s.timeout = TimeoutMask /\ s.run = "STOP" /\ s.result = "NO_RESULT"
    BY NothingAsked
  <2>4. Settled(c, TimeoutMask, s)
    BY <2>2, <2>3 DEF Settled
  <2>5. Returned'
    BY <2>1, <2>2, <2>3, <2>4 DEF Returned
  <2>6. TimeoutMask \in 0 .. TimeoutMask
    BY DEF Wdog!WatchdogAssumption
  <2>7. WdogType'
    BY <2>1, <2>2, <2>3, <2>6 DEF WdogType
  <2>8. QED
    BY <2>1, <2>2, <2>3, <2>5, <2>7 DEF WdogInv, Point
<1>3. CASE ~ wcfg.rsten
  <2>1. /\ wcfg' = [wcfg EXCEPT !.ip = TRUE]
        /\ wcount' = IF wcfg.zerocmp THEN 0 ELSE wcount
        /\ since' = IF wcfg.zerocmp THEN 0 ELSE since
        /\ UNCHANGED <<wcmp, unlocked, todo, read, asked, setting>>
    BY <1>3 DEF Wdog!Bite
  <2>2. PICK c \in WdogCfg : c = wcfg
    BY <1>1 DEF WdogType
  <2>3. PICK d \in WdogCfg : d = [c EXCEPT !.ip = TRUE] /\ Alike(c, d) /\ Runs(c) = Runs(d)
    <3>1. [c EXCEPT !.ip = TRUE] \in WdogCfg
      BY DEF WdogCfg
    <3>2. Alike(c, [c EXCEPT !.ip = TRUE])
      BY DEF WdogCfg, Alike
    <3>3. QED
      BY <3>1, <3>2, SettledAlike
  <2>4. wcount' \in Nat /\ since' \in Nat /\ wcount' <= since'
    <3>1. CASE wcfg.zerocmp
      BY <2>1, <3>1
    <3>2. CASE ~ wcfg.zerocmp
      BY <1>1, <2>1, <3>2 DEF WdogType
    <3>3. QED
      BY <3>1, <3>2
  <2>5. WdogType'
    BY <1>1, <2>1, <2>2, <2>3, <2>4 DEF WdogType
  <2>6. wcfg' = d
    BY <2>1, <2>2, <2>3
  <2>7. Point'
    BY <1>1, <2>1, <2>2, <2>3, <2>5, <2>6, Kept DEF WdogInv
  <2>8. QED
    BY <1>1, <2>1, <2>4, <2>5, <2>7 DEF WdogInv
<1>4. QED
  BY <1>2, <1>3

\* What a call is to set.
LEMMA WithSettings ==
  ASSUME NEW a \in Setting
  PROVE  /\ Wdog!With(a, << >>) = a
         /\ \A t \in 0 .. TimeoutMask :
              LET s == Wdog!With(a, [timeout |-> t]) IN
              s \in Setting /\ s.timeout = t /\ s.result = a.result /\ s.run = a.run
         /\ \A v \in {"NO_RESULT", "INTERRUPT", "FULL_RESET"} :
              LET s == Wdog!With(a, [result |-> v]) IN
              s \in Setting /\ s.timeout = a.timeout /\ s.result = v /\ s.run = a.run
         /\ \A v \in {"STOP", "RUN_ALWAYS", "RUN_AWAKE"} :
              LET s == Wdog!With(a, [run |-> v]) IN
              s \in Setting /\ s.timeout = a.timeout /\ s.result = a.result /\ s.run = v
<1>1. Wdog!With(a, << >>) = a
  BY DEF Wdog!With, Setting
<1>2. ASSUME NEW t \in 0 .. TimeoutMask, NEW s, s = Wdog!With(a, [timeout |-> t])
      PROVE  s \in Setting /\ s.timeout = t /\ s.result = a.result /\ s.run = a.run
  <2>1. s = [a EXCEPT !.timeout = t]
    BY <1>2 DEF Wdog!With, Setting
  <2>2. QED
    BY <2>1 DEF Setting
<1>3. ASSUME NEW v \in {"NO_RESULT", "INTERRUPT", "FULL_RESET"}, NEW s, s = Wdog!With(a, [result |-> v])
      PROVE  s \in Setting /\ s.timeout = a.timeout /\ s.result = v /\ s.run = a.run
  <2>1. s = [a EXCEPT !.result = v]
    BY <1>3 DEF Wdog!With, Setting
  <2>2. QED
    BY <2>1 DEF Setting
<1>4. ASSUME NEW v \in {"STOP", "RUN_ALWAYS", "RUN_AWAKE"}, NEW s, s = Wdog!With(a, [run |-> v])
      PROVE  s \in Setting /\ s.timeout = a.timeout /\ s.result = a.result /\ s.run = v
  <2>1. s = [a EXCEPT !.run = v]
    BY <1>4 DEF Wdog!With, Setting
  <2>2. QED
    BY <2>1 DEF Setting
<1>5. QED
  BY <1>1, <1>2, <1>3, <1>4

\* Lists of words associate.
LEMMA WordsAssociate ==
  \A s, t, u \in Seq(Words) : (s \o t) \o u = s \o (t \o u)
<1>1. ASSUME NEW s \in Seq(Words), NEW t \in Seq(Words), NEW u \in Seq(Words)
      PROVE  (s \o t) \o u = s \o (t \o u)
  BY ConcatAssociative, SMT
<1>2. QED
  BY <1>1

\* The driver's lists of accesses.
LEMMA ConfigLists ==
  ASSUME NEW f \in FieldSet, NEW r \in Seq(Words)
  PROVE  /\ Wdog!Config(f) \in Seq(Words) /\ Wdog!Config(f) \o r = ConfigThen(f, r)
         /\ Wdog!Config(f) = ConfigThen(f, << >>)
<1> DEFINE a == << KeyWord >>
           b == << LoadWord >>
           c == << Put(f) >>
<1>1. a \in Seq(Words) /\ b \in Seq(Words) /\ c \in Seq(Words)
  BY WordsOf
<1>2. KeyWord \in Words /\ LoadWord \in Words /\ Put(f) \in Words
  BY WordsOf
<1>3. Wdog!Config(f) = << KeyWord, LoadWord, Put(f) >>
  BY DEF Wdog!Config, Wdog!Unlock, KeyWord, LoadWord, Put
<1>4. Wdog!Config(f) = a \o (b \o c) /\ b \o c \in Seq(Words) /\ Wdog!Config(f) \in Seq(Words)
  <2>1. /\ << KeyWord, LoadWord, Put(f) >> = << KeyWord >> \o << LoadWord, Put(f) >>
        /\ << KeyWord, LoadWord, Put(f) >> \in Seq(Words)
    BY <1>2, ListOfThree
  <2>2. << LoadWord, Put(f) >> = << LoadWord >> \o << Put(f) >> /\ << LoadWord, Put(f) >> \in Seq(Words)
    BY <1>2, ListOfTwo
  <2>3. QED
    BY <1>3, <2>1, <2>2, Zenon
<1> HIDE DEF a, b, c
<1>5. (a \o (b \o c)) \o r = a \o (b \o (c \o r))
  <2>1. (a \o (b \o c)) \o r = a \o ((b \o c) \o r)
    <3>1. PICK d \in Seq(Words) : d = b \o c
      BY <1>4
    <3>2. (a \o d) \o r = a \o (d \o r)
      BY <1>1, WordsAssociate, Zenon
    <3>3. QED
      BY <3>1, <3>2
  <2>2. (b \o c) \o r = b \o (c \o r)
    BY <1>1, ConcatAssociative
  <2>3. QED
    BY <2>1, <2>2
<1>6. c \o << >> = c
  BY <1>1, ConcatEmptySeq
<1>7. QED
  BY <1>4, <1>5, <1>6 DEF a, b, c, ConfigThen, Loaded

\* The accesses that feed.
LEMMA FeedLists ==
  ASSUME NEW r \in Seq(Words)
  PROVE  /\ Wdog!Feed \in Seq(Words) /\ Wdog!Feed \o r = FeedThen(r)
         /\ Wdog!Feed = FeedThen(<< >>)
<1> DEFINE a == << KeyWord >>
           b == << FeedWord >>
<1>1. a \in Seq(Words) /\ b \in Seq(Words)
  BY WordsOf
<1>2. KeyWord \in Words /\ FeedWord \in Words
  BY WordsOf
<1>3. Wdog!Feed = << KeyWord, FeedWord >>
  BY DEF Wdog!Feed, Wdog!Unlock, KeyWord, FeedWord
<1>4. Wdog!Feed = a \o b /\ Wdog!Feed \in Seq(Words)
  BY <1>2, <1>3, ListOfTwo
<1> HIDE DEF a, b
<1>5. (a \o b) \o r = a \o (b \o r)
  BY <1>1, ConcatAssociative
<1>6. b \o << >> = b
  BY <1>1, ConcatEmptySeq
<1>7. QED
  BY <1>4, <1>5, <1>6 DEF a, b, FeedThen

\* The accesses that store the timeout.
LEMMA CompareLists ==
  ASSUME NEW t \in 0 .. TimeoutMask
  PROVE  Wdog!Compare(t) = << KeyWord >> \o (<< Cmp(t) >> \o << >>)
<1>1. KeyWord \in Words /\ Cmp(t) \in Words /\ << Cmp(t) >> \in Seq(Words)
  BY WordsOf
<1>2. Wdog!Compare(t) = << KeyWord, Cmp(t) >>
  BY DEF Wdog!Compare, Wdog!Unlock, KeyWord, Cmp
<1>3. << Cmp(t) >> \o << >> = << Cmp(t) >>
  BY <1>1, ConcatEmptySeq
<1>4. QED
  BY <1>1, <1>2, <1>3, ListOfTwo

\* A call begins with a store of fields, or with a feed.
LEMMA StartStoring ==
  ASSUME WdogInv, NEW c \in WdogCfg, c = wcfg, NEW s \in Setting, NEW f \in FieldSet, NEW r \in Seq(Words),
         setting' = s, todo' = ConfigThen(f, r),
         UNCHANGED <<wcfg, wcmp, wcount, unlocked, read, asked, since>>,
         NEW m, m = wcmp, Leads(Wdog!With(c, f), m, s, r, FALSE), Runs(Wdog!With(c, f)) => Runs(c)
  PROVE  WdogInv'
<1>1. Storing(f, r)'
  BY DEF Storing
<1>2. QED
  BY <1>1 DEF WdogInv, WdogType, Point

\* A call that feeds.
LEMMA StartFeeding ==
  ASSUME WdogInv, NEW s \in Setting, setting' = s, todo' = FeedThen(<< >>),
         UNCHANGED <<wcfg, wcmp, wcount, unlocked, read, asked, since>>, Settled(wcfg, wcmp, s)
  PROVE  WdogInv'
<1>1. Feeding(<< >>)'
  BY DEF Feeding, Leads
<1>2. QED
  BY <1>1, WordsOf DEF WdogInv, WdogType, Point

\* Every call leads to what it is to set.
LEMMA CallInv ==
  ASSUME Wdog!WatchdogAssumption, Wdog!ScaleAssumption, WdogInv, Wdog!Program
  PROVE  WdogInv'
<1>1. PICK c \in WdogCfg, a \in Setting, m \in Nat : c = wcfg /\ a = asked /\ m = wcmp /\ m = a.timeout
  BY DEF WdogInv, WdogType
<1>2. /\ todo = << >>
      /\ UNCHANGED <<wcfg, wcmp, wcount, unlocked, read, asked, since>>
  BY DEF Wdog!Program, Wdog!Call, Wdog!feed, Wdog!clear_interrupt, Wdog!set_rate, Wdog!set_timeout,
         Wdog!set_result, Wdog!run
<1>3. Settled(c, m, a)
  <2>1. \A f \in FieldSet, r \in Seq(Words) : /\ ConfigThen(f, r) # << >> /\ Loaded(f, r) # << >>
                                              /\ << Put(f) >> \o r # << >> /\ << FeedWord >> \o r # << >>
                                              /\ FeedThen(r) # << >>
    BY WordsOf, ListsOf, FirstOfList DEF ConfigThen, Loaded, FeedThen
  <2>2. \A t \in 0 .. TimeoutMask : /\ << Cmp(t) >> \o << >> # << >>
                                    /\ << KeyWord >> \o (<< Cmp(t) >> \o << >>) # << >>
    BY WordsOf, FirstOfList
  <2>3. [scale |-> 0] \in FieldSet
    BY DEF FieldSet, Wdog!WatchdogAssumption
  <2>4. Returned
    BY <1>2, <2>1, <2>2, <2>3 DEF WdogInv, Point, Storing, Feeding, Comparing
  <2>5. QED
    BY <1>1, <2>4 DEF Returned
<1>4. /\ << >> \in Seq(Words) /\ Wdog!With(a, << >>) = a
      /\ \A f \in FieldSet : Wdog!With(c, f) \in WdogCfg
  BY WordsOf, WithSettings, WithIsCfg
<1>5. CASE Wdog!feed
  <2>1. todo' = FeedThen(<< >>) /\ setting' = a
    BY <1>1, <1>4, <1>5, FeedLists DEF Wdog!feed, Wdog!Call
  <2>2. QED
    BY <1>1, <1>2, <1>3, <2>1, StartFeeding
<1>6. CASE Wdog!clear_interrupt
  <2>1. PICK f \in FieldSet : f = [ip |-> FALSE] /\ DOMAIN f = {"ip"}
    BY FieldDomains DEF FieldSet
  <2>2. todo' = ConfigThen(f, << >>) /\ setting' = a
    BY <1>1, <1>4, <1>6, <2>1, ConfigLists DEF Wdog!clear_interrupt, Wdog!Call
  <2>3. Runs(Wdog!With(c, f)) = Runs(c) /\ Settled(Wdog!With(c, f), m, a)
    BY <1>3, <2>1, Stores DEF Settled
  <2>4. Leads(Wdog!With(c, f), m, a, << >>, FALSE)
    BY <2>3 DEF Leads
  <2>5. QED
    BY <1>1, <1>2, <1>4, <2>2, <2>3, <2>4, StartStoring
<1>7. ASSUME NEW rate \in Rates, Wdog!set_rate(rate)
      PROVE  WdogInv'
  <2>1. PICK f \in FieldSet : f = [scale |-> 0] /\ DOMAIN f = {"scale"}
    <3>1. 0 \in 0 .. ScaleMask
      BY DEF Wdog!WatchdogAssumption
    <3>2. [scale |-> 0] \in FieldSet
      BY <3>1 DEF FieldSet
    <3>3. QED
      BY <3>2, FieldDomains
  <2>2. PICK g \in FieldSet : g = [scale |-> Wdog!min_scale(rate)] /\ DOMAIN g = {"scale"}
    <3>1. Wdog!min_scale(rate) \in 0 .. ScaleMask
      BY ScaleExists DEF Scale, Wdog!WatchdogAssumption
    <3>2. QED
      BY <3>1, FieldDomains DEF FieldSet
  <2>3. setting' = a
    BY <1>1, <1>4, <1>7 DEF Wdog!set_rate, Wdog!Call
  <2>4. Runs(Wdog!With(c, f)) = Runs(c) /\ Settled(Wdog!With(c, f), m, a)
    BY <1>3, <2>1, Stores DEF Settled
  <2>5. PICK d \in WdogCfg : d = Wdog!With(c, f)
    BY <1>4
  <2>6. Runs(Wdog!With(d, g)) = Runs(d) /\ Settled(Wdog!With(d, g), m, a)
    BY <2>2, <2>4, <2>5, Stores DEF Settled
  <2>7. CASE rate >= ClockRate
    <3>1. todo' = Wdog!Config(f) \o << >>
      BY <1>7, <2>1, <2>7 DEF Wdog!set_rate, Wdog!Call
    <3>2. todo' = ConfigThen(f, << >>)
      BY <1>4, <3>1, ConfigLists
    <3>3. Leads(Wdog!With(c, f), m, a, << >>, FALSE)
      BY <2>4 DEF Leads
    <3>4. QED
      BY <1>1, <1>2, <1>4, <2>3, <2>4, <3>2, <3>3, StartStoring
  <2>8. CASE ~ (rate >= ClockRate)
    <3>1. todo' = Wdog!Config(f) \o Wdog!Config(g)
      BY <1>7, <2>1, <2>2, <2>8 DEF Wdog!set_rate, Wdog!Call
    <3>2. PICK r \in Seq(Words) : r = Wdog!Config(g) /\ r = ConfigThen(g, << >>)
      BY <1>4, ConfigLists
    <3>3. todo' = ConfigThen(f, r)
      BY <3>1, <3>2, ConfigLists
    <3>4. Leads(Wdog!With(c, f), m, a, r, FALSE)
      BY <2>5, <2>6, <3>2 DEF Leads
    <3>5. QED
      BY <1>1, <1>2, <2>3, <2>4, <3>3, <3>4, StartStoring
  <2>9. QED
    BY <2>7, <2>8
<1>8. ASSUME NEW timeout \in Timeouts, Wdog!set_timeout(timeout)
      PROVE  WdogInv'
  <2>1. PICK t \in 0 .. TimeoutMask : t = IF timeout > TimeoutMask THEN TimeoutMask ELSE timeout
    BY DEF Wdog!WatchdogAssumption
  <2>2. PICK s \in Setting : /\ s = Wdog!With(a, [timeout |-> t])
                             /\ s.timeout = t /\ s.result = a.result /\ s.run = a.run
    BY WithSettings
  <2>3. todo' = << KeyWord >> \o (<< Cmp(t) >> \o << >>) /\ setting' = s
    BY <1>1, <1>8, <2>1, <2>2, CompareLists DEF Wdog!set_timeout, Wdog!Call
  <2>4. Settled(c, t, s)
    BY <1>3, <2>2 DEF Settled
  <2>5. Comparing(t)'
    BY <1>1, <1>2, <2>3, <2>4 DEF Comparing
  <2>6. QED
    BY <1>1, <1>2, <2>2, <2>3, <2>5 DEF WdogInv, WdogType, Point
<1>9. ASSUME NEW v \in {"NO_RESULT", "INTERRUPT", "FULL_RESET"}, Wdog!set_result(v)
      PROVE  WdogInv'
  <2>1. PICK f \in FieldSet : f = Silent /\ DOMAIN f = {"rsten", "zerocmp"}
    BY FieldDomains DEF FieldSet, Silent
  <2>2. PICK s \in Setting : /\ s = Wdog!With(a, [result |-> v]) /\ setting' = s
                             /\ s.timeout = a.timeout /\ s.result = v /\ s.run = a.run
    BY <1>1, <1>9, WithSettings DEF Wdog!set_result, Wdog!Call
  <2>3. PICK d \in WdogCfg : d = Wdog!With(c, f) /\ Runs(d) = Runs(c) /\ ~ d.rsten /\ ~ d.zerocmp
    BY <1>4, <2>1, Stores
  <2>4. CASE v = "NO_RESULT"
    <3>1. todo' = Wdog!Config(f) \o << >>
      BY <1>9, <2>1, <2>4 DEF Wdog!set_result, Wdog!Call, Silent
    <3>2. todo' = ConfigThen(f, << >>)
      BY <1>4, <3>1, ConfigLists
    <3>3. Leads(d, m, s, << >>, FALSE)
      BY <1>3, <2>2, <2>3, <2>4 DEF Leads, Settled
    <3>4. QED
      BY <1>1, <1>2, <1>4, <2>2, <2>3, <3>2, <3>3, StartStoring
  <2>5. ASSUME NEW g \in FieldSet, "always" \notin DOMAIN g, "awake" \notin DOMAIN g,
               todo' = Wdog!Config(f) \o Wdog!Config(g),
               Wdog!With(d, g).rsten <=> v = "FULL_RESET", Wdog!With(d, g).zerocmp <=> v = "INTERRUPT"
        PROVE  WdogInv'
    <3>1. PICK r \in Seq(Words) : r = Wdog!Config(g) /\ r = ConfigThen(g, << >>)
      BY <1>4, ConfigLists
    <3>2. todo' = ConfigThen(f, r)
      BY <2>5, <3>1, ConfigLists
    <3>3. Runs(Wdog!With(d, g)) = Runs(d)
      BY <2>5, Stores
    <3>4. Settled(Wdog!With(d, g), m, s)
      BY <1>3, <2>2, <2>3, <2>5, <3>3 DEF Settled
    <3>5. Leads(d, m, s, r, FALSE)
      BY <3>1, <3>3, <3>4 DEF Leads
    <3>6. QED
      BY <1>1, <1>2, <2>2, <2>3, <3>2, <3>5, StartStoring
  <2>6. CASE v = "INTERRUPT"
    <3>1. PICK g \in FieldSet : g = [zerocmp |-> TRUE] /\ DOMAIN g = {"zerocmp"}
      BY FieldDomains DEF FieldSet
    <3>2. todo' = Wdog!Config(f) \o Wdog!Config(g)
      BY <1>9, <2>1, <2>6, <3>1 DEF Wdog!set_result, Wdog!Call, Silent
    <3>3. Wdog!With(d, g).zerocmp /\ ~ Wdog!With(d, g).rsten
      BY <2>3, <3>1, Stores
    <3>4. QED
      BY <2>5, <2>6, <3>1, <3>2, <3>3
  <2>7. CASE v = "FULL_RESET"
    <3>1. PICK g \in FieldSet : g = [rsten |-> TRUE] /\ DOMAIN g = {"rsten"}
      BY FieldDomains DEF FieldSet
    <3>2. todo' = Wdog!Config(f) \o Wdog!Config(g)
      BY <1>9, <2>1, <2>7, <3>1 DEF Wdog!set_result, Wdog!Call, Silent
    <3>3. Wdog!With(d, g).rsten /\ ~ Wdog!With(d, g).zerocmp
      BY <2>3, <3>1, Stores
    <3>4. QED
      BY <2>5, <2>7, <3>1, <3>2, <3>3
  <2>8. QED
    BY <2>4, <2>6, <2>7
<1>10. ASSUME NEW o \in {"STOP", "RUN_ALWAYS", "RUN_AWAKE"}, Wdog!run(o)
       PROVE  WdogInv'
  <2>1. PICK f \in FieldSet : f = Stopped /\ DOMAIN f = {"always", "awake"}
    BY FieldDomains DEF FieldSet, Stopped
  <2>2. PICK s \in Setting : /\ s = Wdog!With(a, [run |-> o]) /\ setting' = s
                             /\ s.timeout = a.timeout /\ s.result = a.result /\ s.run = o
    BY <1>1, <1>10, WithSettings DEF Wdog!run, Wdog!Call
  <2>3. PICK d \in WdogCfg : d = Wdog!With(c, f) /\ ~ Runs(d) /\ d.rsten = c.rsten /\ d.zerocmp = c.zerocmp
    BY <1>4, <2>1, Stores
  <2>4. CASE o = "STOP"
    <3>1. todo' = (Wdog!Config(f) \o << >>) \o << >>
      BY <1>10, <2>1, <2>4 DEF Wdog!run, Wdog!Call, Wdog!Enable, Stopped
    <3>2. todo' = ConfigThen(f, << >>)
      BY <1>4, <3>1, ConfigLists, ConcatEmptySeq
    <3>3. Leads(d, m, s, << >>, FALSE)
      BY <1>3, <2>2, <2>3, <2>4 DEF Leads, Settled
    <3>4. QED
      BY <1>1, <1>2, <1>4, <2>2, <2>3, <3>2, <3>3, StartStoring
  <2>5. ASSUME NEW g \in FieldSet, "rsten" \notin DOMAIN g, "zerocmp" \notin DOMAIN g, o # "STOP",
               todo' = (Wdog!Config(f) \o Wdog!Feed) \o Wdog!Config(g), Runs(Wdog!With(d, g))
        PROVE  WdogInv'
    <3>1. PICK r \in Seq(Words) : r = Wdog!Config(g) /\ r = ConfigThen(g, << >>)
      BY <1>4, ConfigLists
    <3>2. PICK t \in Seq(Words) : t = FeedThen(r) /\ t = Wdog!Feed \o r
      BY <3>1, FeedLists, ListsOf
    <3>3. PICK x \in Seq(Words), y \in Seq(Words) : x = Wdog!Config(f) /\ y = Wdog!Feed
      BY <1>4, ConfigLists, FeedLists
    <3>4. (x \o y) \o r = x \o (y \o r)
      BY WordsAssociate, Zenon
    <3>5. todo' = ConfigThen(f, t)
      BY <2>5, <3>1, <3>2, <3>3, <3>4, ConfigLists
    <3>6. Settled(Wdog!With(d, g), m, s)
      BY <1>3, <2>2, <2>3, <2>5, Stores DEF Settled
    <3>7. Leads(d, m, s, t, FALSE)
      BY <3>1, <3>2, <3>6 DEF Leads
    <3>8. QED
      BY <1>1, <1>2, <2>2, <2>3, <3>5, <3>7, StartStoring
  <2>6. CASE o = "RUN_ALWAYS"
    <3>1. PICK g \in FieldSet : g = [always |-> TRUE] /\ DOMAIN g = {"always"}
      BY FieldDomains DEF FieldSet
    <3>2. todo' = (Wdog!Config(f) \o Wdog!Feed) \o Wdog!Config(g)
      BY <1>10, <2>1, <2>6, <3>1 DEF Wdog!run, Wdog!Call, Wdog!Enable, Stopped
    <3>3. QED
      BY <2>5, <2>6, <3>1, <3>2, Stores
  <2>7. CASE o = "RUN_AWAKE"
    <3>1. PICK g \in FieldSet : g = [awake |-> TRUE] /\ DOMAIN g = {"awake"}
      BY FieldDomains DEF FieldSet
    <3>2. todo' = (Wdog!Config(f) \o Wdog!Feed) \o Wdog!Config(g)
      BY <1>10, <2>1, <2>7, <3>1 DEF Wdog!run, Wdog!Call, Wdog!Enable, Stopped
    <3>3. QED
      BY <2>5, <2>7, <3>1, <3>2, Stores
  <2>8. QED
    BY <2>4, <2>6, <2>7
<1>11. QED
  BY <1>5, <1>6, <1>7, <1>8, <1>9, <1>10 DEF Wdog!Program

\* Every step.
LEMMA WdogNextInv ==
  ASSUME Wdog!WatchdogAssumption, Wdog!ScaleAssumption, WdogInv, [Wdog!WdogNext]_Wdog!wdogVars
  PROVE  WdogInv'
<1>1. CASE Wdog!Tick
  BY <1>1, TickInv
<1>2. CASE Wdog!Bite
  BY <1>2, BiteInv
<1>3. CASE Wdog!Access
  BY <1>3, AccessInv
<1>4. CASE Wdog!Program
  BY <1>4, CallInv
<1>5. CASE UNCHANGED Wdog!wdogVars
  <2>1. UNCHANGED <<wcfg, wcmp, wcount, unlocked, todo, read, asked, setting, since>>
    BY <1>5 DEF Wdog!wdogVars
  <2>2. Point'
    BY <2>1 DEF WdogInv, Point, Returned, Storing, Feeding, Comparing
  <2>3. QED
    BY <2>1, <2>2 DEF WdogInv, WdogType
<1>6. QED
  BY <1>1, <1>2, <1>3, <1>4, <1>5 DEF Wdog!WdogNext

\* The invariant holds after reset.
LEMMA WdogInitInv ==
  ASSUME Wdog!WatchdogAssumption, Wdog!WdogInit
  PROVE  WdogInv
<1>1. PICK c \in WdogCfg : c = Wdog!Off /\ ~ Runs(c) /\ ~ c.rsten /\ ~ c.zerocmp
  BY ResetInv
<1>2. PICK s \in Setting : s = Wdog!Nothing /\ s.timeout = TimeoutMask /\ s.run = "STOP" /\ s.result = "NO_RESULT"
  BY NothingAsked
<1>3. /\ wcfg = c /\ wcmp = TimeoutMask /\ wcount = 0 /\ unlocked = FALSE
      /\ todo = << >> /\ read = c /\ asked = s /\ setting = s /\ since = 0
  BY <1>1, <1>2 DEF Wdog!WdogInit
<1>4. Settled(c, TimeoutMask, s)
  BY <1>1, <1>2 DEF Settled
<1>5. Returned
  BY <1>3, <1>4 DEF Returned
<1>6. TimeoutMask \in 0 .. TimeoutMask
  BY DEF Wdog!WatchdogAssumption
<1>7. WdogType
  BY <1>1, <1>2, <1>3, <1>6 DEF WdogType
<1>8. QED
  BY <1>2, <1>3, <1>5, <1>7 DEF WdogInv, Point

\* Between calls the registers are those that were settled.
LEMMA WdogInvAsAsked == WdogInv /\ Wdog!WatchdogAssumption => Wdog!AsAsked
<1>1. SUFFICES ASSUME WdogInv, Wdog!WatchdogAssumption, todo = << >>
               PROVE  Settled(wcfg, wcmp, asked)
  BY DEF Wdog!AsAsked, Settled, Wdog!Runs, Runs
<1>2. \A f \in FieldSet, r \in Seq(Words) : /\ ConfigThen(f, r) # << >> /\ Loaded(f, r) # << >>
                                            /\ << Put(f) >> \o r # << >> /\ << FeedWord >> \o r # << >>
                                            /\ FeedThen(r) # << >>
  BY WordsOf, ListsOf, FirstOfList DEF ConfigThen, Loaded, FeedThen
<1>3. \A t \in 0 .. TimeoutMask : /\ << Cmp(t) >> \o << >> # << >>
                                  /\ << KeyWord >> \o (<< Cmp(t) >> \o << >>) # << >>
  BY WordsOf, FirstOfList
<1>4. [ip |-> FALSE] \in FieldSet
  BY DEF FieldSet
<1>5. QED
  BY <1>1, <1>2, <1>3, <1>4 DEF WdogInv, Point, Returned, Storing, Feeding, Comparing

\* A quotient that is reached takes that many times the divisor.
LEMMA DivAtLeast ==
  ASSUME NEW p \in Nat \ {0}, NEW n \in Nat, NEW m \in Nat, n \div p >= m
  PROVE  n >= m * p
<1>1. PICK q, r : q = n \div p /\ r = n % p
  OBVIOUS
<1>2. q \in Nat /\ r \in 0 .. p - 1 /\ n = p * q + r
  BY <1>1, Halves
<1>3. PICK k \in Nat : q = m + k
  <2>1. q - m \in Nat /\ q = m + (q - m)
    BY <1>1, <1>2
  <2>2. QED
    BY <2>1
<1>4. p * q = m * p + p * k /\ p * k \in Nat /\ m * p \in Nat
  BY <1>2, <1>3
<1>5. QED
  BY <1>2, <1>4

\* No match comes before the timeout.
LEMMA WdogInvPatient ==
  ASSUME Wdog!WatchdogAssumption, Wdog!ScaleAssumption, WdogInv
  PROVE  Wdog!Patient
<1>1. SUFFICES ASSUME Runs(wcfg), (wcount \div 2 ^ wcfg.scale) >= wcmp
               PROVE  since >= (IF setting.timeout < asked.timeout THEN setting.timeout ELSE asked.timeout)
                                 * 2 ^ wcfg.scale
  BY DEF Wdog!Patient, Wdog!Runs, Wdog!Matches, Runs
<1>2. PICK p \in Nat \ {0} : p = 2 ^ wcfg.scale
  BY DEF WdogInv, WdogType, WdogCfg, Wdog!ScaleAssumption
<1>3. PICK m \in Nat, t \in Nat : m = asked.timeout /\ t = setting.timeout
  BY DEF WdogInv, WdogType, Setting
<1>4. PICK n \in Nat, s \in Nat : n = wcount /\ s = since /\ n <= s
  BY <1>1 DEF WdogInv, WdogType
<1>5. n \div p >= m
  BY <1>1, <1>2, <1>3, <1>4 DEF WdogInv
<1>6. n >= m * p
  BY <1>5, DivAtLeast
<1>7. PICK k \in Nat : k = IF t < m THEN t ELSE m
  OBVIOUS
<1>8. k * p <= m * p /\ k * p \in Nat /\ m * p \in Nat
  <2>1. PICK d \in Nat : m = k + d
    <3>1. m - k \in Nat /\ m = k + (m - k)
      BY <1>7
    <3>2. QED
      BY <3>1
  <2>2. m * p = k * p + d * p /\ d * p \in Nat /\ k * p \in Nat
    BY <2>1
  <2>3. QED
    BY <2>2
<1>9. s >= k * p
  BY <1>4, <1>6, <1>8
<1>10. QED
  BY <1>2, <1>3, <1>4, <1>7, <1>9

\* Between calls the registers are as asked, whatever the watchdog did between the accesses
\* (sifive_wdog0.c:30-38, 119-201).
THEOREM RegistersAsAsked ==
  ASSUME Wdog!WatchdogAssumption, Wdog!ScaleAssumption
  PROVE  Wdog!WdogSpec => []Wdog!AsAsked
<1>1. Wdog!WdogInit => WdogInv
  BY WdogInitInv
<1>2. WdogInv /\ [Wdog!WdogNext]_Wdog!wdogVars => WdogInv'
  BY WdogNextInv
<1>3. WdogInv => Wdog!AsAsked
  BY WdogInvAsAsked
<1>4. QED
  BY <1>1, <1>2, <1>3, PTL DEF Wdog!WdogSpec

\* The watchdog never matches before the timeout after it was fed or started, while a call
\* changes the timeout, the scale or whether it runs as well (sifive_wdog0.c:119-140, 172-201).
THEOREM MatchesInTime ==
  ASSUME Wdog!WatchdogAssumption, Wdog!ScaleAssumption
  PROVE  Wdog!WdogSpec => []Wdog!Patient
<1>1. Wdog!WdogInit => WdogInv
  BY WdogInitInv
<1>2. WdogInv /\ [Wdog!WdogNext]_Wdog!wdogVars => WdogInv'
  BY WdogNextInv
<1>3. WdogInv => Wdog!Patient
  BY WdogInvPatient
<1>4. QED
  BY <1>1, <1>2, <1>3, PTL DEF Wdog!WdogSpec

-----------------------------------------------------------------------------
(* The memory protection: powers of two. *)

\* Powers of two, kept closed.
Pow(k) == 2 ^ k

LEMMA Powers ==
  ASSUME Pmp!GranularityAssumption, Pmp!PowersAssumption
  PROVE  /\ Pow(0) = 1 /\ Pow(1) = 2 /\ \A j \in 0 .. Bits + 3 : Pow(j) \in Nat \ {0}
         /\ \A j, k \in 0 .. Bits + 3 : j + k <= Bits + 3 => Pow(j + k) = Pow(j) * Pow(k)
  BY DEF Pmp!PowersAssumption, Pow

LEMMA Doubled ==
  ASSUME Pmp!GranularityAssumption, Pmp!PowersAssumption, NEW j \in 0 .. Bits + 2
  PROVE  Pow(j + 1) = 2 * Pow(j) /\ Pow(j) \in Nat \ {0} /\ Pow(j + 1) \in Nat \ {0}
<1>1. Bits \in Nat /\ j \in 0 .. Bits + 3 /\ j + 1 \in 0 .. Bits + 3 /\ 1 \in 0 .. Bits + 3
  BY DEF Pmp!GranularityAssumption
<1>2. j + 1 <= Bits + 3
  BY <1>1
<1>3. Pow(j + 1) = Pow(j) * Pow(1) /\ Pow(1) = 2 /\ Pow(j) \in Nat \ {0} /\ Pow(j + 1) \in Nat \ {0}
  BY <1>1, <1>2, Powers
<1>4. QED
  BY <1>3

\* A larger power is a multiple of twice the smaller one.
LEMMA Multiple ==
  ASSUME Pmp!GranularityAssumption, Pmp!PowersAssumption, NEW j \in 0 .. Bits + 2, NEW k \in 0 .. Bits + 3, j < k
  PROVE  \E m \in Nat \ {0} : Pow(k) = Pow(j) * (2 * m) /\ 2 * Pow(j) <= Pow(k)
<1>1. Bits \in Nat
  BY DEF Pmp!GranularityAssumption
<1>2. PICK n, l : n = j + 1 /\ l = k - (j + 1)
  OBVIOUS
<1>3. n \in 0 .. Bits + 3 /\ l \in 0 .. Bits + 3 /\ n + l = k /\ n + l <= Bits + 3
  BY <1>1, <1>2
<1>4. Pow(n + l) = Pow(n) * Pow(l) /\ Pow(l) \in Nat \ {0}
  BY <1>3, Powers
<1>5. Pow(n) = 2 * Pow(j) /\ Pow(j) \in Nat \ {0}
  BY <1>2, Doubled
<1>6. PICK p \in Nat \ {0}, m \in Nat \ {0} : p = Pow(j) /\ m = Pow(l)
  BY <1>4, <1>5
<1>7. Pow(k) = (2 * p) * m
  BY <1>3, <1>4, <1>5, <1>6
<1>8. (2 * p) * m = p * (2 * m) /\ 2 * p <= (2 * p) * m
  BY <1>6
<1>9. QED
  BY <1>6, <1>7, <1>8

LEMMA PowersGrow ==
  ASSUME Pmp!GranularityAssumption, Pmp!PowersAssumption, NEW j \in 0 .. Bits + 3, NEW k \in 0 .. Bits + 3, Pow(j) <= Pow(k)
  PROVE  j <= k
<1>1. SUFFICES ASSUME k < j PROVE FALSE
  BY DEF Pmp!GranularityAssumption
<1>2. k \in 0 .. Bits + 2
  BY <1>1 DEF Pmp!GranularityAssumption
<1>3. 2 * Pow(k) <= Pow(j)
  BY <1>1, <1>2, Multiple
<1>4. Pow(k) \in Nat \ {0} /\ Pow(j) \in Nat \ {0}
  BY Powers
<1>5. QED
  BY <1>3, <1>4

\* What remains of a number that ends in ones.
LEMMA EndsInOnes ==
  ASSUME NEW p \in Nat \ {0}, NEW m \in Nat \ {0}, NEW a \in Nat, a % (p * m) = p * m - 1
  PROVE  a % p = p - 1
<1>1. PICK n \in Nat \ {0} : n = p * m
  BY SMT
<1>2. PICK q, r : q = a \div n /\ r = a % n
  OBVIOUS
<1>3. q \in Nat /\ r = n - 1 /\ a = n * q + r
  BY <1>1, <1>2, Halves
<1>4. PICK t \in Nat : t = m * q + m - 1
  <2>1. m * q \in Nat
    BY <1>3
  <2>2. m * q + m - 1 \in Nat
    BY <2>1
  <2>3. QED
    BY <2>2
<1>5. a = p * t + (p - 1)
  <2>1. n * q = p * (m * q)
    BY <1>1, <1>3
  <2>2. p * t = p * (m * q) + p * m - p
    BY <1>3, <1>4
  <2>3. p * (m * q) \in Nat /\ p * t \in Nat
    BY <1>3, <1>4
  <2>4. QED
    BY <1>1, <1>3, <2>1, <2>2, <2>3
<1>6. (p * t + (p - 1)) % p = (p - 1) % p
  <2>1. PICK c \in Nat : c = p - 1
    OBVIOUS
  <2>2. (p * t + c) % p = c % p
    BY <1>4, ModOfSum
  <2>3. QED
    BY <2>1, <2>2
<1>7. (p - 1) % p = p - 1
  OBVIOUS
<1>8. QED
  BY <1>5, <1>6, <1>7

LEMMA LowOnes ==
  ASSUME Pmp!GranularityAssumption, Pmp!PowersAssumption,
         NEW a \in Nat, NEW k \in 0 .. Bits, NEW j \in 0 .. k, a % Pow(k) = Pow(k) - 1
  PROVE  a % Pow(j) = Pow(j) - 1
<1>1. Bits \in Nat
  BY DEF Pmp!GranularityAssumption
<1>2. CASE j = k
  BY <1>2
<1>3. CASE j < k
  <2>1. j \in 0 .. Bits + 2 /\ k \in 0 .. Bits + 3
    BY <1>1
  <2>2. PICK m \in Nat \ {0} : Pow(k) = Pow(j) * (2 * m)
    BY <1>3, <2>1, Multiple
  <2>3. Pow(j) \in Nat \ {0} /\ 2 * m \in Nat \ {0}
    BY <2>1, Doubled
  <2>4. QED
    BY <2>2, <2>3, EndsInOnes
<1>4. QED
  BY <1>1, <1>2, <1>3

\* One more bit that is set is one more of the ones.
LEMMA OneMore ==
  ASSUME NEW p \in Nat \ {0}, NEW a \in Nat, a % p = p - 1, (a \div p) % 2 # 0
  PROVE  a % (2 * p) = 2 * p - 1
<1>1. PICK q, r : q = a \div p /\ r = a % p
  OBVIOUS
<1>2. q \in Nat /\ r = p - 1 /\ a = p * q + r /\ q % 2 # 0
  BY <1>1, Halves
<1>3. PICK u \in Nat : q = 2 * u + 1
  <2>1. q \div 2 \in Nat /\ q = 2 * (q \div 2) + 1
    BY <1>2
  <2>2. QED
    BY <2>1
<1>4. PICK d \in Nat \ {0} : d = 2 * p
  OBVIOUS
<1>5. a = d * u + (d - 1)
  <2>1. p * q = d * u + p
    BY <1>3, <1>4
  <2>2. p * q \in Nat /\ d * u \in Nat
    BY <1>2, <1>3, <1>4
  <2>3. QED
    BY <1>2, <1>4, <2>1, <2>2
<1>6. PICK c \in Nat : c = d - 1
  BY <1>4
<1>7. (d * u + c) % d = c % d /\ c % d = c
  <2>1. (d * u + c) % d = c % d
    BY <1>3, <1>4, <1>6, ModOfSum
  <2>2. c % d = c
    BY <1>4, <1>6
  <2>3. QED
    BY <2>1, <2>2
<1>8. QED
  BY <1>4, <1>5, <1>6, <1>7

\* Every address that is not all ones, and that one too, ends in some number of ones.
LEMMA OnesFound ==
  ASSUME Pmp!GranularityAssumption, Pmp!PowersAssumption, NEW a \in 0 .. Pow(Bits) - 1
  PROVE  /\ a \in Nat /\ Pmp!TrailingOnes(a) \in 0 .. Bits
         /\ a % Pow(Pmp!TrailingOnes(a)) = Pow(Pmp!TrailingOnes(a)) - 1
<1>1. Bits \in Nat /\ Pow(0) = 1 /\ Pow(Bits) \in Nat \ {0} /\ \A j \in 0 .. Bits : Pow(j) \in Nat \ {0}
  <2>1. Bits \in Nat
    BY DEF Pmp!GranularityAssumption
  <2>2. \A j \in 0 .. Bits : j \in 0 .. Bits + 3
    BY <2>1
  <2>3. Bits \in 0 .. Bits
    BY <2>1
  <2>4. QED
    BY <2>1, <2>2, <2>3, Powers
<1>2. a \in Nat /\ a < Pow(Bits)
  BY <1>1
<1> DEFINE S == {k \in 0 .. Bits : (a \div Pow(k)) % 2 = 0}
<1>3. Bits \in S
  <2>1. a \div Pow(Bits) = 0
    BY <1>1, <1>2
  <2>2. QED
    BY <1>1, <2>1
<1>4. PICK k \in S : \A l \in S : k <= l
  <2>1. S \subseteq Nat /\ S # {}
    BY <1>1, <1>3
  <2> HIDE DEF S
  <2>2. QED
    BY <2>1, LeastNatural
<1>5. k \in 0 .. Bits /\ (a \div Pow(k)) % 2 = 0
  OBVIOUS
<1>6. a % Pow(k) = Pow(k) - 1
  <2> DEFINE Bad == {j \in 0 .. k : a % Pow(j) # Pow(j) - 1}
  <2>1. SUFFICES ASSUME Bad # {} PROVE FALSE
    BY <1>5
  <2>2. Bad \subseteq Nat
    BY <1>5
  <2>3. PICK j \in Bad : \A l \in Bad : j <= l
    BY <2>1, <2>2, LeastNatural
  <2>4. j \in 0 .. k /\ a % Pow(j) # Pow(j) - 1
    OBVIOUS
  <2>5. j # 0
    BY <1>1, <1>2, <2>4
  <2>6. PICK h : h = j - 1
    OBVIOUS
  <2>7. h \in 0 .. k /\ h < j /\ h < k /\ h \in 0 .. Bits + 2 /\ h \in 0 .. Bits /\ h + 1 = j
    BY <1>1, <1>5, <2>4, <2>5, <2>6
  <2>8. a % Pow(h) = Pow(h) - 1
    BY <2>3, <2>4, <2>7
  <2>9. (a \div Pow(h)) % 2 # 0
    BY <1>4, <1>5, <2>7
  <2>10. Pow(j) = 2 * Pow(h) /\ Pow(h) \in Nat \ {0}
    BY <2>7, Doubled
  <2>11. QED
    BY <1>2, <2>4, <2>8, <2>9, <2>10, OneMore
<1>7. Pmp!TrailingOnes(a) = CHOOSE x \in 0 .. Bits : a % Pow(x) = Pow(x) - 1 /\ (a \div Pow(x)) % 2 = 0
  BY DEF Pmp!TrailingOnes, Pow
<1>8. QED
  BY <1>2, <1>5, <1>6, <1>7

\* A number that ends in a given number of zeros ends in no other.
LEMMA ZerosCounted ==
  ASSUME Pmp!GranularityAssumption, Pmp!PowersAssumption,
         NEW g \in 0 .. Bits, NEW h \in Nat, NEW a \in Nat, a = Pow(g) * (2 * h + 1)
  PROVE  Pmp!TrailingZeros(a) = g
<1>1. Bits \in Nat
  BY DEF Pmp!GranularityAssumption
<1>2. PICK p \in Nat \ {0}, o \in Nat : p = Pow(g) /\ o = 2 * h + 1
  BY <1>1, Powers
<1>3. a % p = 0 /\ a \div p = o /\ o % 2 = 1
  <2>1. a = p * o
    BY <1>2
  <2>2. (p * o + 0) % p = 0 % p
    BY <1>2, ModOfSum
  <2>3. a \div p = o
    BY <1>2, <2>1
  <2>4. QED
    BY <1>2, <2>1, <2>2, <2>3
<1>4. ASSUME NEW k \in 0 .. Bits, a % Pow(k) = 0, (a \div Pow(k)) % 2 = 1
      PROVE  k = g
  <2>1. PICK n \in Nat \ {0} : n = Pow(k)
    BY <1>1, Powers
  <2>2. PICK q \in Nat : q = a \div n /\ a = n * q /\ q % 2 = 1
    <3>1. a \div n \in Nat /\ a = n * (a \div n) + (a % n)
      BY <2>1, Halves
    <3>2. QED
      BY <1>4, <2>1, <3>1
  <2>3. CASE k < g
    <3>1. PICK m \in Nat \ {0} : Pow(g) = Pow(k) * (2 * m)
      BY <1>1, <2>3, Multiple
    <3>2. n * q = n * (2 * (m * o))
      <4>1. a = (n * (2 * m)) * o
        BY <1>2, <2>1, <3>1
      <4>2. (n * (2 * m)) * o = n * (2 * (m * o))
        BY <1>2, <2>1
      <4>3. QED
        BY <2>2, <4>1, <4>2
    <3>3. PICK t \in Nat : t = m * o
      BY <1>2
    <3>4. q = 2 * t
      BY <2>1, <2>2, <3>2, <3>3
    <3>5. QED
      BY <2>2, <3>3, <3>4
  <2>4. CASE g < k
    <3>1. PICK m \in Nat \ {0} : Pow(k) = Pow(g) * (2 * m)
      BY <1>1, <2>4, Multiple
    <3>2. p * o = p * (2 * (m * q))
      <4>1. a = (p * (2 * m)) * q
        BY <1>2, <2>1, <2>2, <3>1
      <4>2. (p * (2 * m)) * q = p * (2 * (m * q))
        BY <1>2, <2>2
      <4>3. QED
        BY <1>2, <4>1, <4>2
    <3>3. PICK t \in Nat : t = m * q
      BY <2>2
    <3>4. o = 2 * t
      BY <1>2, <3>2, <3>3
    <3>5. QED
      BY <1>3, <3>3, <3>4
  <2>5. QED
    BY <1>1, <2>3, <2>4
<1>5. Pmp!TrailingZeros(a) = CHOOSE x \in 0 .. Bits : a % Pow(x) = 0 /\ (a \div Pow(x)) % 2 = 1
  BY DEF Pmp!TrailingZeros, Pow
<1>6. g \in 0 .. Bits /\ a % Pow(g) = 0 /\ (a \div Pow(g)) % 2 = 1
  BY <1>2, <1>3
<1>7. QED
  BY <1>4, <1>5, <1>6

\* Ones written to a region that is off read back as the granularity of the hart.
LEMMA GranularityDetected ==
  ASSUME Pmp!GranularityAssumption, Pmp!PowersAssumption
  PROVE  Pmp!Detected(Pmp!Seen(2 ^ Bits - 1, "OFF")) = Pow(G + 2)
<1>1. Bits \in Nat /\ G \in 0 .. Bits - 1 /\ G \in 0 .. Bits + 2 /\ Bits \in 0 .. Bits + 3 /\ G < Bits /\ G \in 0 .. Bits
  BY DEF Pmp!GranularityAssumption
<1>2. PICK m \in Nat \ {0} : Pow(Bits) = Pow(G) * (2 * m)
  BY <1>1, Multiple
<1>3. PICK p \in Nat \ {0} : p = Pow(G)
  BY <1>1, Powers
<1>4. PICK d \in Nat \ {0}, n \in Nat \ {0}, a \in Nat : d = 2 * m /\ n = p * d /\ n = Pow(Bits) /\ a = n - 1
  <2>1. PICK d \in Nat \ {0} : d = 2 * m
    OBVIOUS
  <2>2. PICK n \in Nat \ {0} : n = p * d
    BY SMT
  <2>3. n - 1 \in Nat
    OBVIOUS
  <2>4. QED
    BY <1>2, <1>3, <2>1, <2>2, <2>3
<1>5. a % n = n - 1
  BY <1>4
<1>6. a % p = p - 1
  <2>1. a % (p * d) = p * d - 1
    BY <1>4, <1>5
  <2>2. QED
    BY <2>1, EndsInOnes
<1>7. PICK s : s = a - (a % p)
  OBVIOUS
<1>8. PICK h \in Nat : h = m - 1
  OBVIOUS
<1>9. s = Pow(G) * (2 * h + 1)
  <2>1. s = p * d - p
    BY <1>4, <1>6, <1>7
  <2>2. p * (2 * h + 1) = p * d - p
    BY <1>4, <1>8
  <2>3. QED
    BY <1>3, <2>1, <2>2
<1>10. s \in Nat /\ s # 0
  <2>1. PICK o \in Nat \ {0} : o = 2 * h + 1
    OBVIOUS
  <2>2. s = p * o
    BY <1>3, <1>9, <2>1
  <2>3. QED
    BY <2>2
<1>11. Pmp!TrailingZeros(s) = G
  <2>1. G \in 0 .. Bits
    BY <1>1
  <2>2. QED
    BY <1>9, <1>10, <2>1, ZerosCounted
<1>12. Pmp!Seen(2 ^ Bits - 1, "OFF") = s
  BY <1>3, <1>4, <1>7 DEF Pmp!Seen, Pow
<1>13. Pmp!Detected(s) = Pow(G + 2)
  BY <1>10, <1>11 DEF Pmp!Detected, Pow
<1>14. QED
  BY <1>12, <1>13

-----------------------------------------------------------------------------
(* The memory protection's invariant. *)

PmpType ==
  /\ pmpcfg \in [Pmp!Region -> Pmp!Config] /\ pmpaddr \in [Pmp!Region -> 0 .. Pow(Bits) - 1]
  /\ wanted \in [Pmp!Region -> [config : Pmp!Config, address : Int]]
  /\ granularity \in {0, Pow(G + 2)}

\* What a region covers is what its register holds: no bit of it is hidden.
PmpInv ==
  /\ PmpType
  /\ \A r \in Pmp!Region :
       /\ pmpcfg[r] = wanted[r].config
       /\ pmpcfg[r].A = "NAPOT" => Pmp!Seen(pmpaddr[r], "NAPOT") = wanted[r].address
       /\ pmpcfg[r].A = "NA4" => G = 0

LEMMA SeenIs ==
  ASSUME Pmp!GranularityAssumption, Pmp!PowersAssumption, NEW a \in 0 .. Pow(Bits) - 1, NEW mode
  PROVE  /\ Pmp!Seen(a, mode) \in Int
         /\ mode # "NAPOT" => Pmp!Seen(a, mode) \in 0 .. Pow(Bits) - 1 /\ Pmp!Seen(a, mode) = a - (a % Pow(G))
         /\ mode = "NAPOT" => Pmp!Seen(a, mode) = IF G < 2 THEN a ELSE a - (a % Pow(G - 1)) + Pow(G - 1) - 1
<1>1. G \in Nat /\ G \in 0 .. Bits + 3 /\ (~ (G < 2) => G - 1 \in 0 .. Bits + 3) /\ Bits \in 0 .. Bits + 3
  BY DEF Pmp!GranularityAssumption
<1>2. Pow(G) \in Nat \ {0} /\ Pow(Bits) \in Nat \ {0} /\ (~ (G < 2) => Pow(G - 1) \in Nat \ {0})
  BY <1>1, Powers
<1>3. a \in Nat
  BY <1>2
<1>4. a % Pow(G) \in 0 .. Pow(G) - 1 /\ a % Pow(G) <= a
  <2>1. PICK p \in Nat \ {0} : p = Pow(G)
    BY <1>2
  <2>2. (p * 0 + a) % p = a % p /\ a % p <= a
    BY <1>3, <2>1, ModOfSum
  <2>3. QED
    BY <1>3, <2>1, <2>2
<1>5. ~ (G < 2) => a % Pow(G - 1) \in Nat
  BY <1>2, <1>3
<1>6. Pmp!Seen(a, mode) = IF mode = "NAPOT" THEN (IF G < 2 THEN a ELSE a - (a % Pow(G - 1)) + Pow(G - 1) - 1)
                          ELSE a - (a % Pow(G))
  BY DEF Pmp!Seen, Pow
<1>7. CASE mode = "NAPOT"
  BY <1>1, <1>2, <1>3, <1>5, <1>6, <1>7
<1>8. CASE mode # "NAPOT"
  BY <1>2, <1>3, <1>4, <1>6, <1>8
<1>9. QED
  BY <1>7, <1>8

\* A range that is accepted is not finer than the granularity: its address ends in ones
\* where the register shows ones.
LEMMA AcceptedEnds ==
  ASSUME Pmp!GranularityAssumption, Pmp!PowersAssumption, ~ (G < 2), NEW a \in 0 .. Pow(Bits) - 1,
         ~ (Pow(G + 2) > Pmp!pmpaddr_granularity(a))
  PROVE  a \in Nat /\ a % Pow(G - 1) = Pow(G - 1) - 1
<1>1. PICK k \in 0 .. Bits : k = Pmp!TrailingOnes(a)
  BY OnesFound
<1>2. a \in Nat /\ a % Pow(k) = Pow(k) - 1
  BY <1>1, OnesFound
<1>3. Bits \in Nat /\ G \in Nat /\ G < Bits /\ k + 3 \in 0 .. Bits + 3 /\ G + 2 \in 0 .. Bits + 3
  BY DEF Pmp!GranularityAssumption
<1>4. Pmp!pmpaddr_granularity(a) = Pow(k + 3)
  BY <1>1 DEF Pmp!pmpaddr_granularity, Pow
<1>5. Pow(G + 2) \in Nat /\ Pow(k + 3) \in Nat
  BY <1>3, Powers
<1>6. Pow(G + 2) <= Pow(k + 3)
  BY <1>4, <1>5
<1>7. G + 2 <= k + 3
  BY <1>3, <1>6, PowersGrow
<1>8. G - 1 \in 0 .. k
  BY <1>3, <1>7
<1>9. QED
  BY <1>2, <1>8, LowOnes

\* Such an address is what the register shows.
LEMMA AcceptedIsSeen ==
  ASSUME Pmp!GranularityAssumption, Pmp!PowersAssumption, NEW a \in 0 .. Pow(Bits) - 1,
         ~ (Pow(G + 2) > Pmp!pmpaddr_granularity(a))
  PROVE  Pmp!Seen(a, "NAPOT") = a
<1>1. CASE G < 2
  BY <1>1, SeenIs
<1>2. CASE ~ (G < 2)
  <2>1. a \in Nat /\ a % Pow(G - 1) = Pow(G - 1) - 1
    BY <1>2, AcceptedEnds
  <2>2. Pow(G - 1) \in Nat
    <3>1. G - 1 \in 0 .. Bits + 3
      BY <1>2 DEF Pmp!GranularityAssumption
    <3>2. QED
      BY <3>1, Powers
  <2>3. QED
    BY <1>2, <2>1, <2>2, SeenIs
<1>3. QED
  BY <1>1, <1>2

\* An address that another mode shows is accepted only if no bit of it is hidden.
LEMMA ShownIsSeen ==
  ASSUME Pmp!GranularityAssumption, Pmp!PowersAssumption, G # 1, NEW a \in 0 .. Pow(Bits) - 1,
         NEW mode, mode # "NAPOT", NEW b, b = Pmp!Seen(a, mode),
         ~ (Pow(G + 2) > Pmp!pmpaddr_granularity(b))
  PROVE  Pmp!Seen(a, "NAPOT") = b
<1>1. b \in 0 .. Pow(Bits) - 1 /\ b = a - (a % Pow(G))
  BY SeenIs
<1>2. G \in Nat /\ Bits \in Nat /\ G < Bits
  BY DEF Pmp!GranularityAssumption
<1>3. CASE G = 0
  <2>1. a \in Nat
    <3>1. Pow(Bits) \in Nat
      BY <1>2, Powers
    <3>2. QED
      BY <3>1
  <2>2. Pow(0) = 1 /\ a % 1 = 0
    BY <2>1, Powers
  <2>3. b = a
    BY <1>1, <1>3, <2>1, <2>2
  <2>4. QED
    BY <1>3, <2>3, SeenIs
<1>4. CASE ~ (G < 2)
  <2>1. b \in Nat /\ b % Pow(G - 1) = Pow(G - 1) - 1
    BY <1>1, <1>4, AcceptedEnds
  <2>2. PICK h : h = G - 2
    OBVIOUS
  <2>3. h \in 0 .. Bits + 2 /\ h + 1 = G - 1 /\ h + 1 \in 0 .. Bits + 2 /\ (h + 1) + 1 = G /\ h + 1 \in 0 .. Bits
    BY <1>2, <1>4, <2>2
  <2>4. PICK p \in Nat \ {0} : p = Pow(h) /\ Pow(G - 1) = 2 * p
    BY <2>3, Doubled
  <2>5. Pow(G) = 2 * Pow(G - 1)
    BY <2>3, Doubled
  <2>6. PICK n \in Nat \ {0} : n = 2 * p /\ n = Pow(G - 1) /\ Pow(G) = 2 * n
    BY <2>4, <2>5
  <2>7. b % n = 0
    <3>1. a \in Nat
      <4>1. Pow(Bits) \in Nat
        BY <1>2, Powers
      <4>2. QED
        BY <4>1
    <3>2. PICK q \in Nat, d \in Nat \ {0} : d = 2 * n /\ q = a \div d /\ a = d * q + (a % d) /\ a % d \in Nat
      <4>1. PICK d \in Nat \ {0} : d = 2 * n
        OBVIOUS
      <4>2. a \div d \in Nat /\ a % d \in 0 .. d - 1 /\ a = d * (a \div d) + (a % d)
        BY <3>1, Halves
      <4>3. a % d \in Nat
        BY <3>1
      <4>4. QED
        BY <4>1, <4>2, <4>3
    <3>3. b = d * q /\ d * q \in Nat
      BY <1>1, <2>6, <3>1, <3>2
    <3>4. PICK t \in Nat : t = 2 * q
      OBVIOUS
    <3>5. b = n * t + 0
      <4>1. (2 * n) * q = n * (2 * q) /\ n * (2 * q) \in Nat
        OBVIOUS
      <4>2. QED
        BY <3>2, <3>3, <3>4, <4>1
    <3>6. (n * t + 0) % n = 0 % n /\ 0 % n = 0
      BY ModOfSum
    <3>7. QED
      BY <3>5, <3>6
  <2>8. n - 1 # 0
    BY <2>6
  <2>9. QED
    BY <2>1, <2>6, <2>7, <2>8
<1>5. QED
  BY <1>2, <1>3, <1>4

-----------------------------------------------------------------------------
(* The memory protection's steps. *)

LEMMA PmpInitInv == Pmp!GranularityAssumption /\ Pmp!PowersAssumption /\ Pmp!PmpInit => PmpInv
<1> SUFFICES ASSUME Pmp!GranularityAssumption, Pmp!PowersAssumption, Pmp!PmpInit PROVE PmpInv
  OBVIOUS
<1>1. Pow(Bits) \in Nat /\ Pow(Bits) >= 2 /\ 0 \in 0 .. Pow(Bits) - 1 /\ 2 ^ Bits - 2 \in 0 .. Pow(Bits) - 1
  <2>1. Bits \in Nat /\ Bits - 1 \in 0 .. Bits + 2 /\ (Bits - 1) + 1 = Bits
    BY DEF Pmp!GranularityAssumption
  <2>2. Pow((Bits - 1) + 1) = 2 * Pow(Bits - 1) /\ Pow(Bits - 1) \in Nat \ {0}
    BY <2>1, Doubled
  <2>3. Pow(Bits) = 2 ^ Bits
    BY DEF Pow
  <2>4. QED
    BY <2>1, <2>2, <2>3
<1>2. Pmp!Off \in Pmp!Config /\ Pmp!Off.A = "OFF"
  BY DEF Pmp!Off, Pmp!Config, Pmp!Mode
<1>3. pmpcfg = [r \in Pmp!Region |-> Pmp!Off] /\ pmpaddr \in [Pmp!Region -> 0 .. Pow(Bits) - 1] /\ granularity = 0
  BY <1>1 DEF Pmp!PmpInit
<1>4. \A r \in Pmp!Region : Pmp!Seen(pmpaddr[r], "OFF") \in Int
  BY <1>3, SeenIs
<1>5. wanted = [r \in Pmp!Region |-> [config |-> Pmp!Off, address |-> Pmp!Seen(pmpaddr[r], "OFF")]]
  BY DEF Pmp!PmpInit
<1>6. wanted \in [Pmp!Region -> [config : Pmp!Config, address : Int]]
  BY <1>2, <1>4, <1>5
<1>7. QED
  BY <1>2, <1>3, <1>5, <1>6 DEF PmpInv, PmpType

\* Initialising switches the regions off that are not locked.
LEMMA PmpInitStep ==
  ASSUME Pmp!GranularityAssumption, Pmp!PowersAssumption, PmpInv, Pmp!metal_pmp_init
  PROVE  PmpInv'
<1>1. Pow(Bits) \in Nat \ {0} /\ 0 \in 0 .. Pow(Bits) - 1
  <2>1. Bits \in 0 .. Bits + 3
    BY DEF Pmp!GranularityAssumption
  <2>2. Pow(Bits) \in Nat \ {0}
    BY <2>1, Powers
  <2>3. QED
    BY <2>2
<1>2. Pmp!Off \in Pmp!Config /\ Pmp!Off.A = "OFF" /\ [config |-> Pmp!Off, address |-> 0] \in [config : Pmp!Config, address : Int]
  BY DEF Pmp!Off, Pmp!Config, Pmp!Mode
<1>3. /\ pmpcfg' = [r \in Pmp!Region |-> IF ~ pmpcfg[r].L THEN Pmp!Off ELSE pmpcfg[r]]
      /\ pmpaddr' = [r \in Pmp!Region |-> IF ~ pmpcfg[r].L /\ (r = 0 \/ Pmp!get_region(r).address # 0)
                                        THEN 0 ELSE pmpaddr[r]]
      /\ wanted' = [r \in Pmp!Region |-> IF ~ pmpcfg[r].L THEN [config |-> Pmp!Off, address |-> 0] ELSE wanted[r]]
  BY DEF Pmp!metal_pmp_init
<1>4. granularity' \in {0, Pow(G + 2)}
  <2>1. granularity' \in {Pmp!Detected(Pmp!Seen(2 ^ Bits - 1, "OFF")), granularity}
    BY DEF Pmp!metal_pmp_init
  <2>2. QED
    BY <2>1, GranularityDetected DEF PmpInv, PmpType
<1>5. PmpType'
  BY <1>1, <1>2, <1>3, <1>4 DEF PmpType, PmpInv
<1>6. ASSUME NEW r \in Pmp!Region
      PROVE  /\ pmpcfg'[r] = wanted'[r].config
             /\ pmpcfg'[r].A = "NAPOT" => Pmp!Seen(pmpaddr'[r], "NAPOT") = wanted'[r].address
             /\ pmpcfg'[r].A = "NA4" => G = 0
  <2>1. CASE pmpcfg[r].L
    <3>1. pmpcfg'[r] = pmpcfg[r] /\ pmpaddr'[r] = pmpaddr[r] /\ wanted'[r] = wanted[r]
      BY <1>3, <2>1
    <3>2. QED
      BY <3>1 DEF PmpInv
  <2>2. CASE ~ pmpcfg[r].L
    <3>1. pmpcfg'[r] = Pmp!Off /\ wanted'[r].config = Pmp!Off
      BY <1>3, <2>2
    <3>2. QED
      BY <1>2, <3>1
  <2>3. QED
    BY <2>1, <2>2
<1>7. QED
  BY <1>5, <1>6 DEF PmpInv, Pmp!Seen

\* A region that is set shows what was asked.
LEMMA PmpSetStep ==
  ASSUME Pmp!GranularityAssumption, Pmp!PowersAssumption, G # 1, PmpInv, granularity # 0,
         NEW r, NEW config \in Pmp!Config, NEW a, a \in 0 .. Pow(Bits) - 1 \/ a = Pmp!get_region(r).address,
         Pmp!Set(r, config, a, [config |-> config, address |-> a])
  PROVE  PmpInv'
<1>1. granularity' = granularity /\ granularity = Pow(G + 2)
  BY DEF Pmp!Set, PmpInv, PmpType
<1>2. CASE r \notin Pmp!Region \/ rc' # 0
  <2>1. UNCHANGED <<pmpcfg, pmpaddr, wanted>>
    BY <1>2 DEF Pmp!Set, Pmp!Write
  <2>2. QED
    BY <1>1, <2>1 DEF PmpInv, PmpType, Pmp!Seen
<1>3. CASE r \in Pmp!Region /\ rc' = 0
  <2>1. Pmp!Refusal(r, config, a) = 0
    BY <1>3 DEF Pmp!Set
  <2>2. /\ config.A = "NAPOT" => ~ (granularity > Pmp!pmpaddr_granularity(a))
        /\ config.A = "NA4" => ~ (granularity > 4)
    BY <2>1 DEF Pmp!Refusal
  <2>3. PICK b, p : b = Pmp!Seen(pmpaddr[r], pmpcfg[r].A) /\ p = (IF b # a THEN a ELSE pmpaddr[r])
    OBVIOUS
  <2>4. Pmp!get_region(r).address = b
    BY <1>3, <2>3 DEF Pmp!get_region
  <2>5. /\ pmpaddr' = [pmpaddr EXCEPT ![r] = p] /\ pmpcfg' = [pmpcfg EXCEPT ![r] = config]
        /\ wanted' = [wanted EXCEPT ![r] = [config |-> config, address |-> a]]
    <3>1. Pmp!Write(r, config, a) /\ wanted' = [wanted EXCEPT ![r] = [config |-> config, address |-> a]]
      BY <1>3 DEF Pmp!Set
    <3>2. pmpaddr' = [pmpaddr EXCEPT ![r] = p]
      <4>1. CASE b = a
        <5>1. pmpaddr' = pmpaddr
          BY <2>4, <3>1, <4>1 DEF Pmp!Write
        <5>2. QED
          BY <2>3, <4>1, <5>1 DEF PmpInv, PmpType
      <4>2. CASE b # a
        BY <1>3, <2>3, <2>4, <3>1, <4>2 DEF Pmp!Write
      <4>3. QED
        BY <4>1, <4>2
    <3>3. QED
      BY <1>3, <3>1, <3>2 DEF Pmp!Write
  <2>6. pmpaddr[r] \in 0 .. Pow(Bits) - 1 /\ p \in 0 .. Pow(Bits) - 1 /\ a \in Int
    <3>1. pmpaddr[r] \in 0 .. Pow(Bits) - 1
      BY <1>3 DEF PmpInv, PmpType
    <3>2. b \in Int
      BY <2>3, <3>1, SeenIs
    <3>3. QED
      BY <2>3, <2>4, <3>1, <3>2
  <2>7. config.A = "NAPOT" => Pmp!Seen(p, "NAPOT") = a
    <3>1. SUFFICES ASSUME config.A = "NAPOT" PROVE Pmp!Seen(p, "NAPOT") = a
      OBVIOUS
    <3>2. ~ (Pow(G + 2) > Pmp!pmpaddr_granularity(a))
      BY <1>1, <2>2, <3>1
    <3>3. CASE b # a
      <4>1. a \in 0 .. Pow(Bits) - 1 /\ p = a
        BY <2>3, <2>4, <3>3
      <4>2. QED
        BY <3>2, <4>1, AcceptedIsSeen
    <3>4. CASE b = a /\ pmpcfg[r].A = "NAPOT"
      BY <2>3, <3>4
    <3>5. CASE b = a /\ pmpcfg[r].A # "NAPOT"
      <4>1. PICK w, mode : w = pmpaddr[r] /\ mode = pmpcfg[r].A
        OBVIOUS
      <4>2. w \in 0 .. Pow(Bits) - 1 /\ mode # "NAPOT" /\ a = Pmp!Seen(w, mode) /\ p = w
        BY <2>3, <2>6, <3>5, <4>1
      <4>3. Pmp!Seen(w, "NAPOT") = a
        BY <3>2, <4>2, ShownIsSeen
      <4>4. QED
        BY <4>2, <4>3
    <3>6. QED
      BY <3>3, <3>4, <3>5
  <2>8. config.A = "NA4" => G = 0
    <3>1. SUFFICES ASSUME config.A = "NA4" PROVE G = 0
      OBVIOUS
    <3>2. G \in Nat /\ Bits \in Nat /\ G + 2 \in 0 .. Bits + 3 /\ 2 \in 0 .. Bits + 3 /\ 1 \in 0 .. Bits + 2 /\ 1 + 1 = 2
      BY DEF Pmp!GranularityAssumption
    <3>3. Pow(2) = 4 /\ Pow(G + 2) \in Nat
      <4>1. Pow(1 + 1) = 2 * Pow(1) /\ Pow(1) = 2
        BY <3>2, Doubled, Powers
      <4>2. Pow(1 + 1) = Pow(2)
        BY <3>2
      <4>3. Pow(2) = 4
        BY <4>1, <4>2
      <4>4. Pow(G + 2) \in Nat
        BY <3>2, Powers
      <4>5. QED
        BY <4>3, <4>4
    <3>4. Pow(G + 2) <= Pow(2)
      BY <1>1, <2>2, <3>1, <3>3
    <3>5. G + 2 <= 2
      BY <3>2, <3>4, PowersGrow
    <3>6. QED
      BY <3>2, <3>5
  <2>9. PmpType'
    BY <1>1, <2>5, <2>6 DEF PmpInv, PmpType
  <2>10. ASSUME NEW s \in Pmp!Region
         PROVE  /\ pmpcfg'[s] = wanted'[s].config
                /\ pmpcfg'[s].A = "NAPOT" => Pmp!Seen(pmpaddr'[s], "NAPOT") = wanted'[s].address
                /\ pmpcfg'[s].A = "NA4" => G = 0
    <3>1. CASE s = r
      <4>1. pmpcfg'[s] = config /\ pmpaddr'[s] = p /\ wanted'[s] = [config |-> config, address |-> a]
        BY <1>3, <2>5, <3>1 DEF PmpInv, PmpType
      <4>2. QED
        BY <2>7, <2>8, <4>1
    <3>2. CASE s # r
      <4>1. pmpcfg'[s] = pmpcfg[s] /\ pmpaddr'[s] = pmpaddr[s] /\ wanted'[s] = wanted[s]
        BY <2>5, <3>2 DEF PmpInv, PmpType
      <4>2. QED
        BY <4>1 DEF PmpInv
    <3>3. QED
      BY <3>1, <3>2
  <2>11. QED
    BY <2>9, <2>10 DEF PmpInv, Pmp!Seen
<1>4. QED
  BY <1>2, <1>3

\* What is read of a region is a configuration.
LEMMA ReadIsConfig ==
  ASSUME PmpInv, NEW r
  PROVE  Pmp!get_region(r).config \in Pmp!Config
<1>1. CASE r \in Pmp!Region
  BY <1>1 DEF Pmp!get_region, PmpInv, PmpType
<1>2. CASE r \notin Pmp!Region
  BY <1>2 DEF Pmp!get_region, Pmp!Config, Pmp!Mode, Pmp!Off
<1>3. QED
  BY <1>1, <1>2

\* Setting one field keeps the address that is read.
LEMMA PmpFieldStep ==
  ASSUME Pmp!GranularityAssumption, Pmp!PowersAssumption, G # 1, PmpInv, granularity # 0,
         NEW r, NEW config \in Pmp!Config, Pmp!metal_pmp_set_field(r, config)
  PROVE  PmpInv'
<1>1. PICK a : a = Pmp!get_region(r).address
  OBVIOUS
<1>2. Pmp!Set(r, config, a, [config |-> config, address |-> a])
  BY <1>1 DEF Pmp!metal_pmp_set_field
<1>3. QED
  BY <1>1, <1>2, PmpSetStep

\* The addresses asked for fit the register.
LEMMA AsksFit ==
  ASSUME Pmp!GranularityAssumption, Pmp!PowersAssumption, NEW a \in Asks
  PROVE  a \in 0 .. Pow(Bits) - 1
<1>1. Bits \in 0 .. Bits + 3
  BY DEF Pmp!GranularityAssumption
<1>2. Pow(Bits) \in Nat
  BY <1>1, Powers
<1>3. a \in 0 .. Pow(Bits) - 2
  BY DEF Pmp!GranularityAssumption, Pow
<1>4. QED
  BY <1>2, <1>3

LEMMA PmpCallStep ==
  ASSUME Pmp!GranularityAssumption, Pmp!PowersAssumption, G # 1, PmpInv, granularity # 0, Pmp!Call
  PROVE  PmpInv'
<1>1. CASE \E r \in 0 .. Regions : Pmp!metal_pmp_lock(r)
  <2>1. PICK r \in 0 .. Regions : Pmp!metal_pmp_lock(r)
    BY <1>1
  <2>2. CASE Pmp!get_region(r).config.L
    <3>1. UNCHANGED <<pmpcfg, pmpaddr, wanted, granularity>>
      BY <2>1, <2>2 DEF Pmp!metal_pmp_lock
    <3>2. QED
      BY <3>1 DEF PmpInv, PmpType, Pmp!Seen
  <2>3. CASE ~ Pmp!get_region(r).config.L
    <3>1. PICK config : config = [Pmp!get_region(r).config EXCEPT !.L = TRUE]
      OBVIOUS
    <3>2. config \in Pmp!Config
      BY <3>1, ReadIsConfig DEF Pmp!Config
    <3>3. Pmp!metal_pmp_set_field(r, config)
      BY <2>1, <2>3, <3>1 DEF Pmp!metal_pmp_lock
    <3>4. QED
      BY <3>2, <3>3, PmpFieldStep
  <2>4. QED
    BY <2>2, <2>3
<1>2. CASE \E r \in 0 .. Regions + 1, config \in Pmp!Config, a \in Asks :
             Pmp!Sensible(config, a) /\ Pmp!metal_pmp_set_region(r, config, a)
  <2>1. PICK r \in 0 .. Regions + 1, config \in Pmp!Config, a \in Asks : Pmp!metal_pmp_set_region(r, config, a)
    BY <1>2
  <2>2. a \in 0 .. Pow(Bits) - 1
    BY <2>1, AsksFit
  <2>3. Pmp!Set(r, config, a, [config |-> config, address |-> a])
    BY <2>1 DEF Pmp!metal_pmp_set_region
  <2>4. QED
    BY <2>1, <2>2, <2>3, PmpSetStep
<1>3. CASE \E r \in Pmp!Region, a \in Asks : Pmp!Sensible(pmpcfg[r], a) /\ Pmp!metal_pmp_set_address(r, a)
  <2>1. PICK r \in Pmp!Region, a \in Asks : Pmp!metal_pmp_set_address(r, a)
    BY <1>3
  <2>2. PICK config : config = Pmp!get_region(r).config
    OBVIOUS
  <2>3. config \in Pmp!Config
    BY <2>2, ReadIsConfig
  <2>4. a \in 0 .. Pow(Bits) - 1
    BY <2>1, AsksFit
  <2>5. Pmp!Set(r, config, a, [config |-> config, address |-> a])
    BY <2>1, <2>2 DEF Pmp!metal_pmp_set_address
  <2>6. QED
    BY <2>3, <2>4, <2>5, PmpSetStep
<1>4. CASE \E r \in Pmp!Region, A \in Pmp!Mode \ {"TOR"} : Pmp!metal_pmp_set_address_mode(r, A)
  <2>1. PICK r \in Pmp!Region, A \in Pmp!Mode : Pmp!metal_pmp_set_address_mode(r, A)
    BY <1>4
  <2>2. PICK config : config = [Pmp!get_region(r).config EXCEPT !.A = A]
    OBVIOUS
  <2>3. config \in Pmp!Config
    BY <2>1, <2>2, ReadIsConfig DEF Pmp!Config
  <2>4. Pmp!metal_pmp_set_field(r, config)
    BY <2>1, <2>2 DEF Pmp!metal_pmp_set_address_mode
  <2>5. QED
    BY <2>3, <2>4, PmpFieldStep
<1>5. CASE \E r \in Pmp!Region, R \in BOOLEAN : Pmp!metal_pmp_set_readable(r, R)
  <2>1. PICK r \in Pmp!Region, R \in BOOLEAN : Pmp!metal_pmp_set_readable(r, R)
    BY <1>5
  <2>2. PICK config : config = [Pmp!get_region(r).config EXCEPT !.R = R]
    OBVIOUS
  <2>3. config \in Pmp!Config
    BY <2>1, <2>2, ReadIsConfig DEF Pmp!Config
  <2>4. Pmp!metal_pmp_set_field(r, config)
    BY <2>1, <2>2 DEF Pmp!metal_pmp_set_readable
  <2>5. QED
    BY <2>3, <2>4, PmpFieldStep
<1>6. QED
  BY <1>1, <1>2, <1>3, <1>4, <1>5 DEF Pmp!Call

\* A range whose register shows the address that was asked covers what was asked.
LEMMA ShownIsCovered == PmpInv => Pmp!RegionAsAsked
<1> SUFFICES ASSUME PmpInv, NEW r \in Pmp!Region
             PROVE  /\ pmpcfg[r] = wanted[r].config
                    /\ pmpcfg[r].A = "NAPOT" =>
                         Pmp!Covers(Pmp!Seen(pmpaddr[r], "NAPOT")) = Pmp!Covers(wanted[r].address)
                    /\ pmpcfg[r].A = "NA4" => G = 0
  BY DEF Pmp!RegionAsAsked
<1>1. pmpcfg[r] = wanted[r].config /\ (pmpcfg[r].A = "NA4" => G = 0)
  BY DEF PmpInv
<1>2. pmpcfg[r].A = "NAPOT" => Pmp!Covers(Pmp!Seen(pmpaddr[r], "NAPOT")) = Pmp!Covers(wanted[r].address)
  BY DEF PmpInv
<1>3. QED
  BY <1>1, <1>2

\* The calls.
LEMMA PmpNextInv ==
  ASSUME Pmp!GranularityAssumption, Pmp!PowersAssumption, G # 1, PmpInv, [Pmp!PmpNext]_(Pmp!pmpVars)
  PROVE  PmpInv'
<1>1. CASE Pmp!metal_pmp_init
  BY <1>1, PmpInitStep
<1>2. CASE granularity # 0 /\ Pmp!Call
  BY <1>2, PmpCallStep
<1>3. CASE UNCHANGED Pmp!pmpVars
  BY <1>3 DEF PmpInv, PmpType, Pmp!pmpVars, Pmp!Seen
<1>4. QED
  BY <1>1, <1>2, <1>3 DEF Pmp!PmpNext

\* Whatever the number of regions, the bits of an address and the granularity, other than eight
\* bytes, and whatever calls the program makes after metal_pmp_init, in any order: a region is
\* configured as the last call that was accepted for it asked, and a naturally aligned range covers
\* exactly what was asked.  The driver compares the address with what the register shows and skips
\* the write when they agree; no bit of an accepted range is one that the register did not show
\* (pmp.c:54-63, 109-259).
THEOREM RegionsAsAsked ==
  ASSUME Pmp!GranularityAssumption, Pmp!PowersAssumption, G # 1
  PROVE  Pmp!PmpSpec => []Pmp!RegionAsAsked
<1>1. Pmp!PmpInit => PmpInv
  BY PmpInitInv
<1>2. PmpInv /\ [Pmp!PmpNext]_(Pmp!pmpVars) => PmpInv'
  BY PmpNextInv
<1>3. PmpInv => Pmp!RegionAsAsked
  BY ShownIsCovered
<1>4. QED
  BY <1>1, <1>2, <1>3, PTL DEF Pmp!PmpSpec

-----------------------------------------------------------------------------
(* The performance counters. *)

Access == {"high", "low", "again", "clear high", "clear low", "clear again"}

\* The halves of a value that the counter had.
ReadBoth ==
  \E s \in Nat : /\ begun.value <= s /\ s <= count[ctr]
                  /\ vl = Hpm!Lo(s) /\ vh <= Hpm!Hi(s)

\* The low half has counted nothing but ticks of the call.
Cleared ==
  \E m, t \in Nat : count[ctr] = Hpm!Base * m + t /\ t <= begun.ticks

\* What a call has read so far is the counter's at moments of the call, in their order; what
\* a call has cleared has been counted since.
Counting ==
  /\ hpm_count \in Nat /\ \A n \in 3 .. hpm_count - 1 : n \in Implemented
  /\ count \in [Hpm!Counter -> Nat] /\ vh \in Nat /\ vl \in Nat
  /\ begun \in [value : Nat, ticks : Nat]
  /\ hpmAt \in Access \cup {"idle"} /\ ctr \in Hpm!Counter
  /\ hpmAt \in {"high", "low", "again"} => begun.value <= count[ctr]
  /\ hpmAt \in {"low", "again"} => vh <= Hpm!Hi(count[ctr])
  /\ hpmAt = "again" => ReadBoth
  /\ hpmAt = "clear again" => Cleared

\* What a half counts to is a positive number.
LEMMA BasePositive == Hpm!HalfAssumption => Hpm!Base \in Nat \ {0}
  BY DEF Hpm!HalfAssumption, Hpm!Base

\* Nothing is counted yet.
LEMMA CountingInit ==
  ASSUME Hpm!ImplementedAssumption, Hpm!HpmInit
  PROVE  Counting
BY DEF Hpm!HpmInit, Counting, Hpm!Counter, Hpm!ImplementedAssumption, Access

\* A tick.
LEMMA CountingTick ==
  ASSUME Hpm!HalfAssumption, Counting, Hpm!Tick
  PROVE  Counting'
<1>1. PICK n \in Hpm!Running : /\ (hpmAt # "idle" => n = ctr)
         /\ count' = [count EXCEPT ![n] = count[n] + 1]
         /\ begun' = IF hpmAt = "idle" THEN begun ELSE [begun EXCEPT !.ticks = begun.ticks + 1]
  BY DEF Hpm!Tick
<1>2. UNCHANGED <<hpm_count, mhpmevent, ctr, hpmAt, vh, vl, val>>
  BY DEF Hpm!Tick
<1>3. begun \in [value : Nat, ticks : Nat] /\ count \in [Hpm!Counter -> Nat]
  BY DEF Counting
<1>4. count' \in [Hpm!Counter -> Nat] /\ begun' \in [value : Nat, ticks : Nat]
  <2>1. count' \in [Hpm!Counter -> Nat]
    <3>1. \A k \in Hpm!Counter : count[k] + 1 \in Nat
      BY ONLY <1>3
    <3>2. PICK v : v = count[n] + 1
      OBVIOUS
    <3>3. count' = [count EXCEPT ![n] = v] /\ (n \in Hpm!Counter => v \in Nat)
      BY <1>1, <3>1, <3>2
    <3>4. QED
      BY ONLY <1>3, <3>3
  <2>2. [begun EXCEPT !.ticks = begun.ticks + 1] \in [value : Nat, ticks : Nat]
    BY ONLY <1>3
  <2>3. QED
    BY <1>1, <1>3, <2>1, <2>2
<1>5. CASE hpmAt = "idle"
  BY <1>1, <1>2, <1>4, <1>5 DEF Counting
<1>6. CASE hpmAt # "idle"
  <2>1. PICK c, b, t : c = count[ctr] /\ b = begun.value /\ t = begun.ticks
    OBVIOUS
  <2>2. c \in Nat /\ b \in Nat /\ t \in Nat
    BY <2>1 DEF Counting
  <2>3. count'[ctr] = c + 1 /\ begun'.value = b /\ begun'.ticks = t + 1
    BY <1>1, <1>6, <2>1 DEF Counting
  <2>4. Hpm!Hi(c) <= Hpm!Hi(c + 1) /\ Hpm!Hi(c) \in Int /\ Hpm!Hi(c + 1) \in Int
    <3>1. PICK B : B = Hpm!Base /\ B \in Nat \ {0}
      BY BasePositive
    <3>2. c + 1 \in Nat /\ c <= c + 1
      BY <2>2
    <3>3. c \div B <= (c + 1) \div B
      BY <2>2, <3>1, <3>2, DivMonotone
    <3>4. c \div B \in Nat /\ (c + 1) \div B \in Nat
      BY <2>2, <3>1, <3>2, Halves
    <3>5. QED
      BY <3>1, <3>3, <3>4 DEF Hpm!Hi
  <2>5. hpmAt \in {"high", "low", "again"} => b <= c + 1
    <3>1. hpmAt \in {"high", "low", "again"} => b <= c
      BY <2>1 DEF Counting
    <3>2. QED
      BY <2>2, <3>1
  <2>6. hpmAt \in {"low", "again"} => vh <= Hpm!Hi(c + 1)
    <3>1. hpmAt \in {"low", "again"} => vh <= Hpm!Hi(c) /\ vh \in Nat
      BY <2>1 DEF Counting
    <3>2. QED
      BY <2>4, <3>1
  <2>7. hpmAt = "again" => ReadBoth'
    <3>1. SUFFICES ASSUME hpmAt = "again" PROVE ReadBoth'
      OBVIOUS
    <3>2. PICK s \in Nat : b <= s /\ s <= c /\ vl = Hpm!Lo(s) /\ vh <= Hpm!Hi(s)
      BY <2>1, <3>1 DEF Counting, ReadBoth
    <3>3. s <= c + 1
      BY <2>2, <3>2
    <3>4. QED
      BY <1>2, <2>3, <3>2, <3>3 DEF ReadBoth, Hpm!Lo, Hpm!Hi
  <2>8. hpmAt = "clear again" => Cleared'
    <3>1. SUFFICES ASSUME hpmAt = "clear again" PROVE Cleared'
      OBVIOUS
    <3>2. PICK m, k \in Nat : c = Hpm!Base * m + k /\ k <= t
      BY <2>1, <3>1 DEF Counting, Cleared
    <3>3. k + 1 \in Nat /\ k + 1 <= t + 1
      BY <2>2, <3>2
    <3>4. PICK p : p = Hpm!Base * m
      OBVIOUS
    <3>5. p \in Nat
      BY <3>4, BasePositive
    <3>6. c + 1 = Hpm!Base * m + (k + 1)
      BY <3>2, <3>4, <3>5
    <3>7. QED
      BY <1>2, <2>3, <3>3, <3>6 DEF Cleared
  <2>9. QED
    BY <1>2, <1>4, <2>3, <2>5, <2>6, <2>7, <2>8 DEF Counting, Hpm!Hi
<1>7. QED
  BY <1>5, <1>6

\* A reading of its own moment is not later than it.
LEMMA NoMoreThanItself == \A k \in Nat : k <= k
OBVIOUS

\* The first step of a call that reads or clears.
LEMMA CountingBegin ==
  ASSUME Counting, NEW n \in Hpm!Counter, NEW access \in {"high", "clear high"}, Hpm!Begin(n, access)
  PROVE  Counting'
<1>1. UNCHANGED <<hpm_count, count, vh, vl>> /\ ctr' = n /\ hpmAt' = access
  BY DEF Hpm!Begin
<1>2. PICK v \in Nat : v = count[n]
  BY DEF Counting
<1>3. begun' = [value |-> v, ticks |-> 0]
  BY <1>2 DEF Hpm!Begin
<1>4. begun' \in [value : Nat, ticks : Nat] /\ begun'.value = v
  BY <1>3
<1>5. begun'.value <= count'[ctr']
  <2>1. count'[ctr'] = v
    BY <1>1, <1>2
  <2>2. v <= v
    BY <1>2, NoMoreThanItself
  <2>3. QED
    BY <1>4, <2>1, <2>2, Zenon
<1>6. CASE access = "high"
  BY <1>1, <1>4, <1>5, <1>6 DEF Counting, Access
<1>7. CASE access = "clear high"
  BY <1>1, <1>4, <1>7 DEF Counting, Access
<1>8. QED
  BY <1>6, <1>7

\* The calls of one step, and the first step of the others.
LEMMA CountingCall ==
  ASSUME Hpm!ImplementedAssumption, Counting,
         Hpm!metal_hpm_init \/ Hpm!metal_hpm_disable
           \/ \E n \in Hpm!Counter : \/ Hpm!metal_hpm_set_event(n) \/ Hpm!metal_hpm_clr_event(n) \/ Hpm!Refused(n)
                                     \/ Hpm!metal_hpm_read_counter(n) \/ Hpm!metal_hpm_clear_counter(n)
  PROVE  Counting'
<1>1. CASE hpm_count = 0 /\ Hpm!metal_hpm_init
  <2>1. /\ hpm_count' = Hpm!Found /\ UNCHANGED <<ctr, hpmAt, vh, vl, begun>> /\ hpmAt = "idle"
        /\ count' = [n \in Hpm!Counter |-> IF n < Hpm!Found /\ n # Hpm!METAL_HPM_TIME THEN 0 ELSE count[n]]
    BY <1>1 DEF Hpm!metal_hpm_init, Hpm!Return, Hpm!Idle
  <2>2. Hpm!Found \in 3 .. Last /\ \A k \in 3 .. Hpm!Found - 1 : k \in Implemented
    <3>1. \E n \in 3 .. Last : /\ n \notin Implemented \/ n = Last
                              /\ \A k \in 3 .. n - 1 : k \in Implemented
      <4>1. PICK n \in 2 .. Last : Implemented = 3 .. n
        BY DEF Hpm!ImplementedAssumption
      <4>2. CASE n = Last
        BY <4>1, <4>2 DEF Hpm!ImplementedAssumption
      <4>3. CASE n # Last
        <5>1. n + 1 \in 3 .. Last /\ n + 1 \notin Implemented /\ \A k \in 3 .. (n + 1) - 1 : k \in Implemented
          BY <4>1, <4>3 DEF Hpm!ImplementedAssumption
        <5>2. QED
          BY <5>1
      <4>4. QED
        BY <4>2, <4>3
    <3>2. QED
      BY <3>1 DEF Hpm!Found
  <2>3. count' \in [Hpm!Counter -> Nat]
    BY <2>1 DEF Counting
  <2>4. hpm_count' \in Nat /\ \A k \in 3 .. hpm_count' - 1 : k \in Implemented
    BY <2>1, <2>2 DEF Hpm!ImplementedAssumption
  <2>5. QED
    BY <2>1, <2>3, <2>4 DEF Counting
<1>2. ASSUME UNCHANGED <<hpm_count, count, ctr, hpmAt, vh, vl, begun>>
      PROVE  Counting'
  BY <1>2 DEF Counting, ReadBoth, Cleared
<1>3. CASE Hpm!metal_hpm_disable
  BY <1>3 DEF Hpm!metal_hpm_disable, Hpm!Return, Hpm!Idle, Counting
<1>4. CASE \/ hpm_count # 0 /\ Hpm!metal_hpm_init
           \/ \E n \in Hpm!Counter : Hpm!metal_hpm_set_event(n) \/ Hpm!metal_hpm_clr_event(n) \/ Hpm!Refused(n)
  BY <1>2, <1>4 DEF Hpm!metal_hpm_init, Hpm!metal_hpm_set_event, Hpm!metal_hpm_clr_event, Hpm!Refused, Hpm!Return
<1>5. ASSUME NEW n \in Hpm!Counter, Hpm!Begin(n, "high") \/ Hpm!Begin(n, "clear high")
      PROVE  Counting'
  BY <1>5, CountingBegin
<1>6. QED
  BY <1>1, <1>3, <1>4, <1>5 DEF Hpm!metal_hpm_read_counter, Hpm!metal_hpm_clear_counter

\* The end of a call.
LEMMA CountingEnd ==
  ASSUME Hpm!ImplementedAssumption, Counting, NEW v, Hpm!End(v), hpm_count' = hpm_count,
         count' \in [Hpm!Counter -> Nat]
  PROVE  Counting'
<1>1. hpmAt' = "idle" /\ ctr' = 0 /\ vh' = 0 /\ vl' = 0
  BY DEF Hpm!End
<1>2. begun' \in [value : Nat, ticks : Nat]
  <2>1. begun' = [value |-> 0, ticks |-> 0]
    BY DEF Hpm!End
  <2>2. QED
    BY <2>1
<1>3. 0 \in Hpm!Counter
  BY DEF Hpm!ImplementedAssumption, Hpm!Counter
<1>4. QED
  BY <1>1, <1>2, <1>3 DEF Counting

\* Reading.
LEMMA CountingRead ==
  ASSUME Hpm!ImplementedAssumption, Hpm!HalfAssumption, Counting, Hpm!ReadHigh \/ Hpm!ReadLow \/ Hpm!ReadAgain
  PROVE  Counting'
<1>1. PICK c \in Nat : c = count[ctr]
  BY DEF Counting
<1>2. Hpm!Hi(c) \in Nat /\ Hpm!Lo(c) \in Nat
  <2>1. c \div Hpm!Base \in Nat /\ c % Hpm!Base \in Nat
    BY BasePositive, Halves
  <2>2. QED
    BY <2>1 DEF Hpm!Hi, Hpm!Lo
<1>3. CASE Hpm!ReadHigh
  <2>1. /\ UNCHANGED <<hpm_count, count, ctr, vl, begun>> /\ hpmAt = "high" /\ hpmAt' = "low"
        /\ vh' = Hpm!Hi(c)
    BY <1>1, <1>3 DEF Hpm!ReadHigh
  <2>2. QED
    BY <1>1, <1>2, <2>1 DEF Counting, Access
<1>4. CASE Hpm!ReadLow
  <2>1. /\ UNCHANGED <<hpm_count, count, ctr, vh, begun>> /\ hpmAt = "low" /\ hpmAt' = "again"
        /\ vl' = Hpm!Lo(c)
    BY <1>1, <1>4 DEF Hpm!ReadLow
  <2>2. ReadBoth'
    BY <1>1, <2>1 DEF Counting, ReadBoth
  <2>3. QED
    BY <1>1, <1>2, <2>1, <2>2 DEF Counting, Access
<1>5. CASE Hpm!ReadAgain
  <2>1. UNCHANGED <<hpm_count, count>>
    BY <1>5 DEF Hpm!ReadAgain
  <2>2. CASE hpmAt' = "high" /\ hpmAt = "again" /\ UNCHANGED <<ctr, vh, vl, begun>>
    BY <2>1, <2>2 DEF Counting, Access
  <2>3. CASE Hpm!End(vh * Hpm!Base + vl)
    BY <2>1, <2>3, CountingEnd DEF Counting
  <2>4. QED
    BY <1>5, <2>2, <2>3 DEF Hpm!ReadAgain
<1>6. QED
  BY <1>3, <1>4, <1>5

\* Clearing.
LEMMA CountingClear ==
  ASSUME Hpm!ImplementedAssumption, Hpm!HalfAssumption, Counting, Hpm!ClearHigh \/ Hpm!ClearLow \/ Hpm!ClearAgain
  PROVE  Counting'
<1>1. PICK c \in Nat : c = count[ctr]
  BY DEF Counting
<1>2. Hpm!Hi(c) \in Nat /\ Hpm!Lo(c) \in Nat /\ Hpm!Base \in Nat
  <2>1. c \div Hpm!Base \in Nat /\ c % Hpm!Base \in Nat
    BY BasePositive, Halves
  <2>2. QED
    BY <2>1, BasePositive DEF Hpm!Hi, Hpm!Lo
<1>3. ASSUME NEW from, NEW hi, NEW lo, Hpm!ClearHalf(from, hi, lo)
      PROVE  /\ count' \in [Hpm!Counter -> Nat] /\ hpm_count' = hpm_count
             /\ count'[ctr] = (IF hi THEN 0 ELSE Hpm!Hi(c)) * Hpm!Base + (IF lo THEN 0 ELSE Hpm!Lo(c))
  <2>1. PICK v : v = (IF hi THEN 0 ELSE Hpm!Hi(c)) * Hpm!Base + (IF lo THEN 0 ELSE Hpm!Lo(c))
    OBVIOUS
  <2>2. v \in Nat
    BY <1>2, <2>1
  <2>3. count' = [count EXCEPT ![ctr] = v] /\ hpm_count' = hpm_count
    BY <1>1, <1>3, <2>1 DEF Hpm!ClearHalf
  <2>4. QED
    BY <2>1, <2>2, <2>3 DEF Counting
<1>4. CASE Hpm!ClearHigh
  <2>1. /\ hpmAt' = "clear low" /\ UNCHANGED <<ctr, vh, vl, begun>>
        /\ count' \in [Hpm!Counter -> Nat] /\ hpm_count' = hpm_count
    BY <1>3, <1>4 DEF Hpm!ClearHigh, Hpm!Then
  <2>2. QED
    BY <2>1 DEF Counting, Access
<1>5. CASE Hpm!ClearLow
  <2>1. /\ hpmAt' = "clear again" /\ UNCHANGED <<ctr, vh, vl, begun>>
        /\ count' \in [Hpm!Counter -> Nat] /\ hpm_count' = hpm_count
        /\ count'[ctr] = Hpm!Hi(c) * Hpm!Base + 0
    BY <1>3, <1>5 DEF Hpm!ClearLow, Hpm!Then
  <2>2. Cleared'
    <3>1. begun'.ticks \in Nat
      BY <2>1 DEF Counting
    <3>2. PICK h, B \in Nat : h = Hpm!Hi(c) /\ B = Hpm!Base
      BY <1>2
    <3>3. count'[ctr'] = B * h + 0
      <4>1. h * B + 0 = B * h + 0
        BY <3>2
      <4>2. QED
        BY <2>1, <3>2, <4>1
    <3>4. 0 \in Nat /\ 0 <= begun'.ticks
      BY <3>1
    <3>5. QED
      BY <3>2, <3>3, <3>4 DEF Cleared
  <2>3. QED
    BY <2>1, <2>2 DEF Counting, Access
<1>6. CASE Hpm!ClearAgain
  BY <1>3, <1>6, CountingEnd DEF Hpm!ClearAgain
<1>7. QED
  BY <1>4, <1>5, <1>6

\* Every step of the hart and of the driver.
LEMMA CountingNext ==
  ASSUME Hpm!ImplementedAssumption, Hpm!HalfAssumption, Counting, [Hpm!HpmNext]_Hpm!hpmVars
  PROVE  Counting'
<1>1. CASE UNCHANGED Hpm!hpmVars
  BY <1>1 DEF Hpm!hpmVars, Counting, ReadBoth, Cleared
<1>2. CASE Hpm!HpmNext
  BY <1>2, CountingTick, CountingCall, CountingRead, CountingClear DEF Hpm!HpmNext, Hpm!HpmStep
<1>3. QED
  BY <1>1, <1>2

\* What a step may return.
Moment ==
  /\ hpmAt = "again" /\ hpmAt' = "idle" => begun.value <= val' /\ val' <= count[ctr]
  /\ hpmAt \in {"clear low", "clear again"} /\ hpmAt' = "idle" => count'[ctr] <= begun.ticks
  /\ \A n \in 3 .. hpm_count' - 1 : n \in Implemented

\* A read and a clearing end.
LEMMA CountingMoment ==
  ASSUME Hpm!ImplementedAssumption, Hpm!HalfAssumption, Counting, [Hpm!HpmNext]_Hpm!hpmVars
  PROVE  [Moment]_Hpm!hpmVars
<1>1. ASSUME Hpm!HpmNext, hpmAt = "again", hpmAt' = "idle"
      PROVE  begun.value <= val' /\ val' <= count[ctr]
  <2>1. Hpm!ReadAgain
    BY <1>1 DEF Hpm!HpmNext, Hpm!HpmStep, Hpm!Tick, Hpm!metal_hpm_init, Hpm!metal_hpm_disable, Hpm!metal_hpm_set_event,
       Hpm!metal_hpm_clr_event, Hpm!Refused, Hpm!Return, Hpm!Idle, Hpm!metal_hpm_read_counter,
       Hpm!metal_hpm_clear_counter, Hpm!Begin, Hpm!ReadHigh, Hpm!ReadLow, Hpm!ClearHigh, Hpm!ClearLow, Hpm!ClearAgain,
       Hpm!ClearHalf
  <2>2. vh = Hpm!Hi(count[ctr]) /\ val' = vh * Hpm!Base + vl
    BY <1>1, <2>1 DEF Hpm!ReadAgain, Hpm!End
  <2>3. PICK s \in Nat : begun.value <= s /\ s <= count[ctr] /\ vl = Hpm!Lo(s) /\ vh <= Hpm!Hi(s)
    BY <1>1 DEF Counting, ReadBoth
  <2>4. PICK c \in Nat, B \in Nat \ {0} : c = count[ctr] /\ B = Hpm!Base
    BY <1>1, BasePositive DEF Counting
  <2>5. s \div B <= c \div B /\ s \div B \in Nat /\ c \div B \in Nat
    BY <2>3, <2>4, DivMonotone, Halves
  <2>6. vh = s \div B /\ vl = s % B
    BY <2>2, <2>3, <2>4, <2>5 DEF Hpm!Hi, Hpm!Lo
  <2>7. val' = s
    <3>1. s = B * (s \div B) + (s % B) /\ s % B \in Nat
      BY Halves
    <3>2. QED
      BY <2>2, <2>4, <2>5, <2>6, <3>1
  <2>8. QED
    BY <2>3, <2>7
<1>2. ASSUME Hpm!HpmNext, hpmAt \in {"clear low", "clear again"}, hpmAt' = "idle"
      PROVE  count'[ctr] <= begun.ticks
  <2>1. Hpm!ClearAgain
    BY <1>2 DEF Hpm!HpmNext, Hpm!HpmStep, Hpm!Tick, Hpm!metal_hpm_init, Hpm!metal_hpm_disable, Hpm!metal_hpm_set_event,
       Hpm!metal_hpm_clr_event, Hpm!Refused, Hpm!Return, Hpm!Idle, Hpm!metal_hpm_read_counter,
       Hpm!metal_hpm_clear_counter, Hpm!Begin, Hpm!ReadHigh, Hpm!ReadLow, Hpm!ReadAgain, Hpm!ClearHigh, Hpm!ClearLow,
       Hpm!ClearHalf, Hpm!Then
  <2>2. hpmAt = "clear again" /\ count' = [count EXCEPT ![ctr] = 0 * Hpm!Base + Hpm!Lo(count[ctr])]
    BY <2>1 DEF Hpm!ClearAgain, Hpm!ClearHalf
  <2>3. PICK m, t \in Nat : count[ctr] = Hpm!Base * m + t /\ t <= begun.ticks
    BY <1>2, <2>2 DEF Counting, Cleared
  <2>4. PICK B \in Nat \ {0} : B = Hpm!Base
    BY BasePositive
  <2>5. Hpm!Lo(count[ctr]) = t % B /\ t % B <= t /\ t % B \in Nat
    <3>1. (B * m + t) % B = t % B /\ t % B <= t
      BY ModOfSum
    <3>2. t % B \in Nat
      BY Halves
    <3>3. QED
      BY <2>3, <2>4, <3>1, <3>2 DEF Hpm!Lo
  <2>6. count'[ctr] = t % B
    <3>1. count'[ctr] = 0 * Hpm!Base + Hpm!Lo(count[ctr])
      BY <1>2, <2>2 DEF Counting
    <3>2. 0 * Hpm!Base = 0
      BY <2>4
    <3>3. QED
      BY <2>5, <3>1, <3>2
  <2>7. begun.ticks \in Nat
    BY <1>2 DEF Counting
  <2>8. QED
    BY <2>3, <2>5, <2>6, <2>7
<1>3. QED
  BY <1>1, <1>2, CountingNext DEF Counting, Moment

\* What is read is the counter's value at a moment of the call, a counter that was cleared
\* has counted nothing but what came since, and the counters that are found exist, for
\* halves of any width and any number of counters (hpm.c:41-62, 90-98, 245-326).
THEOREM CountsAreMoments ==
  ASSUME Hpm!ImplementedAssumption, Hpm!HalfAssumption
  PROVE  Hpm!HpmSpec => Hpm!CountIsAMoment
<1>1. Hpm!HpmInit => Counting
  BY CountingInit
<1>2. Counting /\ [Hpm!HpmNext]_Hpm!hpmVars => Counting'
  BY CountingNext
<1>3. Counting /\ [Hpm!HpmNext]_Hpm!hpmVars => [Moment]_Hpm!hpmVars
  BY CountingMoment
<1>4. QED
  BY <1>1, <1>2, <1>3, PTL DEF Hpm!HpmSpec, Hpm!CountIsAMoment, Moment

-----------------------------------------------------------------------------
(* The clock's lists of callbacks. *)

\* The clients can be counted, and none of them is the null pointer.
UartsAssumption == IsFiniteSet(Uarts) /\ NoUart \notin Uarts

\* The clock's assumption, in the words of this module.
LEMMA Clients == Uart!Clock!ClientsAssumption => UartsAssumption
BY DEF Uart!Clock!ClientsAssumption, UartsAssumption, Uart!Clock!IsFiniteSet, IsFiniteSet

Link == Uarts \cup {NoUart}
\* The cells of the list l are s, in its order.
Chain(l, s) ==
  /\ l \in [head : Link, next : [Uarts -> Link]] /\ s \in Seq(Uarts)
  /\ \A j, k \in 1 .. Len(s) : s[j] = s[k] => j = k
  /\ l.head = IF Len(s) = 0 THEN NoUart ELSE s[1]
  /\ \A k \in 1 .. Len(s) : l.next[s[k]] = IF k = Len(s) THEN NoUart ELSE s[k + 1]
Members(s) == {s[k] : k \in DOMAIN s}

\* A set's size is the same in an instance.
LEMMA Cards == Uart!Clock!Cardinality(Uarts) = Cardinality(Uarts)
BY DEF Uart!Clock!Cardinality, Cardinality

\* A list without repetitions is no longer than there are clients.
LEMMA ChainFits ==
  ASSUME UartsAssumption, NEW l, NEW s, Chain(l, s)
  PROVE  Cardinality(Uarts) \in Nat /\ Len(s) <= Cardinality(Uarts)
<1>1. Cardinality(Uarts) \in Nat
  BY FS_CardinalityType DEF UartsAssumption
<1>2. s \in [1 .. Len(s) -> Uarts] /\ Len(s) \in Nat
  BY DEF Chain
<1>3. IsFiniteSet(1 .. Len(s)) /\ Cardinality(1 .. Len(s)) = Len(s)
  <2>1. PICK n \in Nat : n = Len(s)
    BY <1>2
  <2>2. IsFiniteSet(1 .. n) /\ Cardinality(1 .. n) = IF 1 > n THEN 0 ELSE n - 1 + 1
    BY FS_Interval
  <2>3. (IF 1 > n THEN 0 ELSE n - 1 + 1) = n
    OBVIOUS
  <2>4. QED
    BY <2>1, <2>2, <2>3
<1>4. ~ (Cardinality(Uarts) < Cardinality(1 .. Len(s)))
  <2> SUFFICES ASSUME Cardinality(Uarts) < Cardinality(1 .. Len(s)) PROVE FALSE
    OBVIOUS
  <2>1. \E j, k \in 1 .. Len(s) : j # k /\ s[j] = s[k]
    BY <1>2, <1>3, FS_PigeonHole DEF UartsAssumption
  <2>2. QED
    BY <2>1 DEF Chain
<1>5. QED
  BY <1>1, <1>2, <1>3, <1>4

\* Walking along a list of cells gives them one after the other.
LEMMA WalkIs ==
  ASSUME UartsAssumption, NEW l, NEW s, Chain(l, s)
  PROVE  /\ DOMAIN Uart!Clock!Walk(l) = 0 .. Cardinality(Uarts)
         /\ \A k \in 0 .. Cardinality(Uarts) :
              Uart!Clock!Walk(l)[k] = IF k < Len(s) THEN s[k + 1] ELSE NoUart
<1> DEFINE N == Cardinality(Uarts)
           Unfolds(w) == w = [k \in 0 .. N |-> IF k = 0 THEN l.head
                                               ELSE IF w[k - 1] = NoUart THEN NoUart ELSE l.next[w[k - 1]]]
           g == [k \in 0 .. N |-> IF k < Len(s) THEN s[k + 1] ELSE NoUart]
<1>1. N \in Nat /\ Len(s) \in Nat /\ Len(s) <= N
  <2>1. s \in Seq(Uarts)
    BY DEF Chain
  <2>2. Cardinality(Uarts) \in Nat /\ Len(s) <= Cardinality(Uarts)
    BY ChainFits, Zenon
  <2>3. QED
    BY <2>1, <2>2
<1>2. Unfolds(g)
  <2>1. ASSUME NEW k \in 0 .. N
        PROVE  g[k] = IF k = 0 THEN l.head ELSE IF g[k - 1] = NoUart THEN NoUart ELSE l.next[g[k - 1]]
    <3>1. CASE k = 0
      BY <1>1, <3>1 DEF Chain
    <3>2. CASE k # 0 /\ k - 1 < Len(s)
      <4>1. k - 1 \in 0 .. N /\ g[k - 1] = s[k] /\ k \in 1 .. Len(s)
        BY <1>1, <3>2
      <4>2. s[k] \in Uarts /\ g[k - 1] # NoUart
        BY <4>1 DEF Chain, UartsAssumption
      <4>3. l.next[s[k]] = IF k = Len(s) THEN NoUart ELSE s[k + 1]
        BY <4>1 DEF Chain
      <4>4. QED
        BY <1>1, <3>2, <4>1, <4>2, <4>3
    <3>3. CASE k # 0 /\ ~ (k - 1 < Len(s))
      BY <1>1, <3>3
    <3>4. QED
      BY <3>1, <3>2, <3>3
  <2>2. QED
    BY <2>1
<1>3. Unfolds(Uart!Clock!Walk(l))
  <2> DEFINE w == CHOOSE f : Unfolds(f)
  <2>1. Unfolds(w)
    <3> HIDE DEF Unfolds, g
    <3>1. QED
      BY <1>2
  <2>2. Uart!Clock!Walk(l) = w
    <3>1. Uart!Clock!Walk(l) = CHOOSE f : f = [k \in 0 .. Uart!Clock!Cardinality(Uarts) |-> IF k = 0 THEN l.head
                                               ELSE IF f[k - 1] = NoUart THEN NoUart ELSE l.next[f[k - 1]]]
      BY Zenon DEF Uart!Clock!Walk
    <3>2. QED
      BY <3>1, Cards, Zenon
  <2>3. QED
    <3> HIDE DEF Unfolds, w
    <3>1. QED
      BY <2>1, <2>2
<1>4. PICK w : w = Uart!Clock!Walk(l)
  OBVIOUS
<1>5. /\ DOMAIN w = 0 .. N
      /\ \A k \in 0 .. N : w[k] = IF k = 0 THEN l.head ELSE IF w[k - 1] = NoUart THEN NoUart ELSE l.next[w[k - 1]]
  <2>1. Unfolds(w)
    BY <1>3, <1>4
  <2>2. QED
    BY <2>1
<1>6. \A k \in 0 .. N : g[k] = IF k = 0 THEN l.head ELSE IF g[k - 1] = NoUart THEN NoUart ELSE l.next[g[k - 1]]
  <2>1. PICK h : h = g
    OBVIOUS
  <2>2. Unfolds(h)
    BY <1>2, <2>1
  <2>3. \A k \in 0 .. N : h[k] = IF k = 0 THEN l.head ELSE IF h[k - 1] = NoUart THEN NoUart ELSE l.next[h[k - 1]]
    BY <2>2
  <2>4. QED
    BY <2>1, <2>3
<1>7. \A k \in 0 .. N : g[k] = IF k < Len(s) THEN s[k + 1] ELSE NoUart
  OBVIOUS
<1> HIDE DEF N, g, Unfolds
<1>8. \A k \in 0 .. N : w[k] = g[k]
  <2> DEFINE Bad == {k \in Nat : k \in 0 .. N /\ w[k] # g[k]}
  <2>1. SUFFICES ASSUME Bad # {} PROVE FALSE
    BY <1>1
  <2>2. PICK k \in Bad : \A m \in Bad : k <= m
    <3>1. Bad \subseteq Nat
      OBVIOUS
    <3> HIDE DEF Bad
    <3>2. QED
      BY <2>1, <3>1, LeastNatural
  <2>3. k \in 0 .. N /\ k \in Nat /\ w[k] # g[k]
    BY <2>2
  <2>4. k # 0
    BY <1>1, <1>5, <1>6, <2>3
  <2>5. k - 1 \in 0 .. N /\ k - 1 \in Nat /\ k - 1 \notin Bad
    BY <1>1, <2>2, <2>3, <2>4
  <2>6. w[k - 1] = g[k - 1]
    BY <2>5
  <2>7. QED
    BY <1>5, <1>6, <2>3, <2>4, <2>6
<1>9. QED
  BY <1>4, <1>5, <1>7, <1>8 DEF N

\* So its cells are those of the list, and its tail is the last.
LEMMA CellsAre ==
  ASSUME UartsAssumption, NEW l, NEW s, Chain(l, s)
  PROVE  /\ Uart!Clock!Cells(l) = Members(s)
         /\ Len(s) > 0 => Uart!Clock!Tails(l) = {s[Len(s)]}
<1>1. PICK N, w, n : N = Cardinality(Uarts) /\ w = Uart!Clock!Walk(l) /\ n = Len(s)
  OBVIOUS
<1>2. /\ N \in Nat /\ n \in Nat /\ n <= N /\ DOMAIN s = 1 .. n
      /\ \A k \in 1 .. n : s[k] \in Uarts /\ s[k] # NoUart
  BY <1>1, ChainFits DEF Chain, UartsAssumption
<1>3. \A k \in 0 .. N : w[k] = IF k < n THEN s[k + 1] ELSE NoUart
  BY <1>1, WalkIs
<1>4. DOMAIN w = 0 .. N
  BY <1>1, WalkIs
<1>5. Uart!Clock!Cells(l) = Members(s)
  <2>1. \A c \in Uart!Clock!Cells(l) : c \in Members(s)
    BY <1>1, <1>2, <1>3, <1>4 DEF Uart!Clock!Cells, Members
  <2>2. ASSUME NEW k \in 1 .. n PROVE s[k] \in Uart!Clock!Cells(l)
    <3>1. k - 1 \in 0 .. N /\ w[k - 1] = s[k]
      BY <1>2, <1>3
    <3>2. QED
      BY <1>1, <1>2, <1>4, <3>1 DEF Uart!Clock!Cells
  <2>3. QED
    BY <1>2, <2>1, <2>2 DEF Members
<1>6. ASSUME n > 0
      PROVE  Uart!Clock!Tails(l) = {s[n]}
  <2>1. \A k \in 1 .. n : l.next[s[k]] = IF k = n THEN NoUart ELSE s[k + 1]
    BY <1>1 DEF Chain
  <2>2. \A k \in 1 .. n : l.next[s[k]] = NoUart <=> k = n
    BY <1>2, <2>1
  <2>3. n \in 1 .. n
    BY <1>2, <1>6
  <2>4. QED
    BY <1>2, <1>5, <2>2, <2>3 DEF Uart!Clock!Tails, Members
<1>7. QED
  BY <1>1, <1>5, <1>6

\* The fields that a callback is hung into.
LEMMA CutIs ==
  ASSUME NEW l \in [head : Link, next : [Uarts -> Link]], NEW u \in Uarts, NEW c \in Uarts
  PROVE  /\ [l EXCEPT !.next[u] = NoUart] \in [head : Link, next : [Uarts -> Link]]
         /\ [l EXCEPT !.next[u] = NoUart].head = l.head
         /\ [l EXCEPT !.next[u] = NoUart].next = [l.next EXCEPT ![u] = NoUart]
         /\ [l EXCEPT !.head = u] \in [head : Link, next : [Uarts -> Link]]
         /\ [l EXCEPT !.head = u].head = u /\ [l EXCEPT !.head = u].next = l.next
         /\ [l EXCEPT !.next[c] = u] \in [head : Link, next : [Uarts -> Link]]
         /\ [l EXCEPT !.next[c] = u].head = l.head
         /\ [l EXCEPT !.next[c] = u].next = [l.next EXCEPT ![c] = u]
  BY DEF Link

\* A client that is not in the list is hung behind its tail.
LEMMA AppendToIs ==
  ASSUME UartsAssumption, NEW l, NEW s, Chain(l, s), NEW u \in Uarts, u \notin Members(s)
  PROVE  Chain(Uart!Clock!AppendTo(l, u), Append(s, u))
<1>1. PICK n, cut, t : n = Len(s) /\ cut = [l EXCEPT !.next[u] = NoUart] /\ t = Append(s, u)
  OBVIOUS
<1>2. /\ n \in Nat /\ s \in Seq(Uarts) /\ l \in [head : Link, next : [Uarts -> Link]]
      /\ DOMAIN s = 1 .. n /\ NoUart \notin Uarts
      /\ \A k \in 1 .. n : s[k] \in Uarts /\ s[k] # u
      /\ \A j, k \in 1 .. n : s[j] = s[k] => j = k
      /\ l.head = IF n = 0 THEN NoUart ELSE s[1]
      /\ \A k \in 1 .. n : l.next[s[k]] = IF k = n THEN NoUart ELSE s[k + 1]
  BY <1>1 DEF Chain, Members, UartsAssumption
<1>3. /\ t \in Seq(Uarts) /\ Len(t) = n + 1 /\ t[n + 1] = u
      /\ \A k \in 1 .. n : t[k] = s[k]
  BY <1>1, <1>2, AppendProperties
<1>4. /\ cut \in [head : Link, next : [Uarts -> Link]] /\ cut.head = l.head
      /\ cut.next[u] = NoUart
      /\ \A c \in Uarts : c # u => cut.next[c] = l.next[c]
  BY <1>1, <1>2, CutIs
<1>5. \A k \in 1 .. n : cut.next[s[k]] = IF k = n THEN NoUart ELSE s[k + 1]
  BY <1>2, <1>4
<1>6. \A j, k \in 1 .. n + 1 : t[j] = t[k] => j = k
  <2>1. ASSUME NEW j \in 1 .. n + 1, NEW k \in 1 .. n + 1, t[j] = t[k]
        PROVE  j = k
    <3>1. j \in 1 .. n \/ j = n + 1
      BY <1>2
    <3>2. k \in 1 .. n \/ k = n + 1
      BY <1>2
    <3>3. QED
      BY <1>2, <1>3, <2>1, <3>1, <3>2
  <2>2. QED
    BY <2>1
<1>7. CASE n = 0
  <2>1. l.head = NoUart
    BY <1>2, <1>7
  <2>2. Uart!Clock!AppendTo(l, u) = [cut EXCEPT !.head = u]
    BY <1>1, <2>1 DEF Uart!Clock!AppendTo
  <2>3. PICK a : /\ a = [cut EXCEPT !.head = u] /\ a \in [head : Link, next : [Uarts -> Link]]
                 /\ a.head = u /\ a.next[u] = NoUart
    <3>1. /\ [cut EXCEPT !.head = u] \in [head : Link, next : [Uarts -> Link]]
          /\ [cut EXCEPT !.head = u].head = u /\ [cut EXCEPT !.head = u].next = cut.next
      BY <1>4, CutIs, Zenon
    <3>2. QED
      BY <1>4, <3>1
  <2>4. Len(t) = 1 /\ t[1] = u
    BY <1>3, <1>7
  <2>5. \A k \in 1 .. Len(t) : a.next[t[k]] = IF k = Len(t) THEN NoUart ELSE t[k + 1]
    BY <2>3, <2>4
  <2>6. Chain(a, t)
    <3>1. \A j, k \in 1 .. Len(t) : t[j] = t[k] => j = k
      BY <1>3, <1>6
    <3>2. a.head = IF Len(t) = 0 THEN NoUart ELSE t[1]
      BY <2>3, <2>4
    <3>3. QED
      BY <1>3, <2>3, <2>5, <3>1, <3>2, Zenon DEF Chain
  <2>7. QED
    BY <1>1, <2>2, <2>3, <2>6
<1>8. CASE n # 0
  <2>1. l.head # NoUart /\ n \in 1 .. n /\ n > 0
    BY <1>2, <1>8
  <2>2. Chain(cut, s)
    BY <1>1, <1>2, <1>4, <1>5 DEF Chain
  <2>3. Uart!Clock!Tails(cut) = {s[n]}
    BY <1>1, <2>1, <2>2, CellsAre
  <2>4. (CHOOSE c \in Uart!Clock!Tails(cut) : TRUE) = s[n]
    BY <2>3
  <2>5. Uart!Clock!AppendTo(l, u) = [cut EXCEPT !.next[s[n]] = u]
    BY <1>1, <2>1, <2>4 DEF Uart!Clock!AppendTo
  <2>6. PICK c \in Uarts : c = s[n] /\ c # u
    BY <1>2, <2>1
  <2>7. PICK a : /\ a = [cut EXCEPT !.next[c] = u] /\ a \in [head : Link, next : [Uarts -> Link]]
                 /\ a.head = l.head /\ a.next = [cut.next EXCEPT ![c] = u]
    <3>1. /\ [cut EXCEPT !.next[c] = u] \in [head : Link, next : [Uarts -> Link]]
          /\ [cut EXCEPT !.next[c] = u].head = cut.head
          /\ [cut EXCEPT !.next[c] = u].next = [cut.next EXCEPT ![c] = u]
      BY <1>4, CutIs, Zenon
    <3>2. QED
      BY <1>4, <3>1, Zenon
  <2>8. /\ a.next[c] = u /\ a.next[u] = NoUart
        /\ \A v \in Uarts : v # c /\ v # u => a.next[v] = cut.next[v]
    <3>1. cut.next \in [Uarts -> Link] /\ cut.next[u] = NoUart
      BY <1>4
    <3>2. QED
      BY <2>6, <2>7, <3>1
  <2>9. ASSUME NEW k \in 1 .. n + 1
        PROVE  a.next[t[k]] = IF k = n + 1 THEN NoUart ELSE t[k + 1]
    <3>1. CASE k = n + 1
      BY <1>2, <1>3, <2>8, <3>1
    <3>2. CASE k = n
      BY <1>2, <1>3, <2>1, <2>6, <2>8, <3>2
    <3>3. CASE k \in 1 .. n - 1
      <4>1. k \in 1 .. n /\ n \in 1 .. n /\ k # n /\ k + 1 \in 1 .. n
        BY <1>2, <2>1, <3>3
      <4>2. s[k] # c /\ s[k] # u /\ s[k] \in Uarts
        BY <1>2, <2>6, <4>1
      <4>3. a.next[s[k]] = s[k + 1]
        BY <1>5, <2>8, <4>1, <4>2
      <4>4. QED
        BY <1>2, <1>3, <4>1, <4>3
    <3>4. QED
      BY <1>2, <3>1, <3>2, <3>3
  <2>10. a.head = t[1]
    BY <1>2, <1>3, <1>8, <2>7
  <2>11. Chain(a, t)
    <3>1. \A j, k \in 1 .. Len(t) : t[j] = t[k] => j = k
      BY <1>3, <1>6
    <3>2. a.head = IF Len(t) = 0 THEN NoUart ELSE t[1]
      BY <1>2, <1>3, <2>10
    <3>3. \A k \in 1 .. Len(t) : a.next[t[k]] = IF k = Len(t) THEN NoUart ELSE t[k + 1]
      BY <1>3, <2>9
    <3>4. QED
      BY <1>3, <2>7, <3>1, <3>2, <3>3, Zenon DEF Chain
  <2>12. QED
    BY <1>1, <2>5, <2>6, <2>7, <2>11
<1>9. QED
  BY <1>7, <1>8

-----------------------------------------------------------------------------
(* The clock. *)

\* Where the clock's change is, and the callback it is at.
ClockAt == IF uartAt = "init" THEN "idle" ELSE IF uartAt \in {"empty", "drain"} THEN "pre" ELSE uartAt
ClockCur == IF uartAt = "init" THEN NoUart ELSE cur

\* The callbacks called so far are the first ones of the list, and the next one is at hand.
CalledSoFar(c, s) ==
  /\ Len(c) <= Len(s) /\ \A j \in 1 .. Len(c) : c[j] = s[j]
  /\ ClockCur = IF Len(c) = Len(s) THEN NoUart ELSE s[Len(c) + 1]

ClockInv ==
  /\ DOMAIN list = {"pre", "post"} /\ DOMAIN registered = {"pre", "post"}
  /\ ran \in [{"pre", "post"} -> Seq(Uarts)]
  /\ \A k \in {"pre", "post"} : Chain(list[k], registered[k])
  /\ ClockAt = "pre" => CalledSoFar(ran["pre"], registered["pre"]) /\ ran["post"] = << >>
  /\ ClockAt = "post" => CalledSoFar(ran["post"], registered["post"])

\* An empty list.
LEMMA EmptyChain ==
  ASSUME UartsAssumption
  PROVE  Chain([head |-> NoUart, next |-> [u \in Uarts |-> NoUart]], << >>)
<1>1. [head |-> NoUart, next |-> [u \in Uarts |-> NoUart]] \in [head : Link, next : [Uarts -> Link]]
  BY DEF Link
<1>2. << >> \in Seq(Uarts) /\ Len(<< >>) = 0
  OBVIOUS
<1>3. QED
  BY <1>1, <1>2 DEF Chain

\* No callback is registered yet.
LEMMA ClockInitInv == UartsAssumption /\ Uart!Clock!Init => ClockInv
<1> SUFFICES ASSUME UartsAssumption, Uart!Clock!Init PROVE ClockInv
  OBVIOUS
<1>1. /\ list = [k \in {"pre", "post"} |-> [head |-> NoUart, next |-> [u \in Uarts |-> NoUart]]]
      /\ registered = [k \in {"pre", "post"} |-> << >>] /\ ran = [k \in {"pre", "post"} |-> << >>]
      /\ ClockAt = "idle"
  BY DEF Uart!Clock!Init, Uart!Clock!Kind, ClockAt
<1>2. PICK l : l = [head |-> NoUart, next |-> [u \in Uarts |-> NoUart]] /\ Chain(l, << >>)
  BY EmptyChain
<1>3. \A k \in {"pre", "post"} : list[k] = l /\ registered[k] = << >>
  BY <1>1, <1>2
<1>4. \A k \in {"pre", "post"} : Chain(list[k], registered[k])
  BY <1>2, <1>3
<1>5. ran \in [{"pre", "post"} -> Seq(Uarts)]
  BY <1>1
<1>6. QED
  BY <1>1, <1>4, <1>5 DEF ClockInv

\* The next callback is called.
LEMMA OneMoreCalled ==
  ASSUME UartsAssumption, NEW l, NEW s, Chain(l, s), NEW c \in Seq(Uarts), CalledSoFar(c, s), ClockCur # NoUart,
         ClockCur' = l.next[ClockCur]
  PROVE  \E d \in Seq(Uarts) : d = Append(c, ClockCur) /\ CalledSoFar(d, s)'
<1>1. PICK n, m, u, d : n = Len(s) /\ m = Len(c) /\ u = ClockCur /\ d = Append(c, u)
  OBVIOUS
<1>2. /\ n \in Nat /\ m \in Nat /\ m < n /\ u = s[m + 1] /\ u \in Uarts
      /\ \A j \in 1 .. m : c[j] = s[j]
      /\ \A k \in 1 .. n : l.next[s[k]] = IF k = n THEN NoUart ELSE s[k + 1]
  <2>1. n \in Nat /\ m \in Nat /\ m <= n /\ s \in Seq(Uarts) /\ m # n /\ u = s[m + 1]
    BY <1>1 DEF CalledSoFar, Chain
  <2>2. m + 1 \in 1 .. n
    BY <2>1
  <2>3. QED
    BY <1>1, <2>1, <2>2 DEF CalledSoFar, Chain
<1>3. /\ d \in Seq(Uarts) /\ Len(d) = m + 1 /\ d[m + 1] = u /\ \A j \in 1 .. m : d[j] = c[j]
  BY <1>1, <1>2, AppendProperties
<1>4. \A j \in 1 .. m + 1 : d[j] = s[j]
  BY <1>2, <1>3
<1>5. ClockCur' = IF m + 1 = n THEN NoUart ELSE s[m + 2]
  BY <1>1, <1>2
<1>6. CalledSoFar(d, s)'
  BY <1>1, <1>2, <1>3, <1>4, <1>5 DEF CalledSoFar
<1>7. QED
  BY <1>1, <1>3, <1>6

\* When none is left all have been called.
LEMMA AllCalled ==
  ASSUME UartsAssumption, NEW l, NEW s, Chain(l, s), NEW c \in Seq(Uarts), CalledSoFar(c, s), ClockCur = NoUart
  PROVE  c = s
<1>1. s \in Seq(Uarts) /\ Len(s) \in Nat /\ Len(c) \in Nat
  BY DEF Chain
<1>2. \A k \in 1 .. Len(s) : s[k] # NoUart
  BY <1>1 DEF UartsAssumption
<1>3. Len(c) = Len(s)
  <2>1. ASSUME Len(c) # Len(s) PROVE FALSE
    <3>1. Len(c) + 1 \in 1 .. Len(s)
      BY <1>1, <2>1 DEF CalledSoFar
    <3>2. QED
      BY <1>2, <2>1, <3>1 DEF CalledSoFar
  <2>2. QED
    BY <2>1
<1>4. QED
  BY <1>1, <1>3, SeqEqual DEF CalledSoFar

\* Every step of the clock.
LEMMA ClockNextInv ==
  ASSUME UartsAssumption, ClockInv, [Uart!Clock!Next]_Uart!Clock!vars
  PROVE  ClockInv'
<1> DEFINE Kinds == {"pre", "post"}
<1>1. /\ DOMAIN list = Kinds /\ DOMAIN registered = Kinds /\ ran \in [Kinds -> Seq(Uarts)]
      /\ \A k \in Kinds : Chain(list[k], registered[k])
      /\ ClockAt = "pre" => CalledSoFar(ran["pre"], registered["pre"]) /\ ran["post"] = << >>
      /\ ClockAt = "post" => CalledSoFar(ran["post"], registered["post"])
  BY DEF ClockInv
<1>2. ASSUME NEW k \in Kinds, NEW u \in Uarts, Uart!Clock!register(k, u)
      PROVE  ClockInv'
  <2>1. /\ ClockAt = "idle" /\ u \notin Members(registered[k])
        /\ list' = [list EXCEPT ![k] = Uart!Clock!AppendTo(list[k], u)]
        /\ registered' = [registered EXCEPT ![k] = Append(registered[k], u)]
        /\ ClockAt' = ClockAt /\ ran' = ran
    BY <1>2 DEF Uart!Clock!register, ClockAt, Members
  <2>2. Chain(Uart!Clock!AppendTo(list[k], u), Append(registered[k], u))
    BY <1>1, <2>1, AppendToIs
  <2>3. \A j \in Kinds : Chain(list'[j], registered'[j])
    <3>1. /\ list'[k] = Uart!Clock!AppendTo(list[k], u) /\ registered'[k] = Append(registered[k], u)
          /\ \A j \in Kinds : j # k => list'[j] = list[j] /\ registered'[j] = registered[j]
      BY <1>1, <2>1
    <3>2. QED
      BY <1>1, <2>2, <3>1
  <2>4. DOMAIN list' = Kinds /\ DOMAIN registered' = Kinds
    BY <1>1, <2>1
  <2>5. \A j \in Kinds : Chain(list[j], registered[j])'
    BY <2>3 DEF Chain
  <2>6. QED
    BY <1>1, <2>1, <2>4, <2>5 DEF ClockInv
<1>3. CASE Uart!Clock!set_rate_hz
  <2>1. /\ ClockAt' = "pre" /\ ClockCur' = list["pre"].head /\ ran' = [k \in Kinds |-> << >>]
        /\ UNCHANGED <<list, registered>>
    BY <1>3 DEF Uart!Clock!set_rate_hz, Uart!Clock!Kind, ClockAt, ClockCur
  <2>2. ran' \in [Kinds -> Seq(Uarts)] /\ ran'["pre"] = << >> /\ ran'["post"] = << >>
    BY <2>1
  <2>3. CalledSoFar(ran["pre"], registered["pre"])'
    <3>1. Chain(list["pre"], registered["pre"])
      BY <1>1
    <3>2. PICK s : s = registered["pre"] /\ Len(s) \in Nat /\ list["pre"].head = IF Len(s) = 0 THEN NoUart ELSE s[1]
      BY <3>1 DEF Chain
    <3>3. Len(<< >>) = 0
      OBVIOUS
    <3>4. QED
      BY <2>1, <2>2, <3>2, <3>3 DEF CalledSoFar
  <2>4. \A j \in Kinds : Chain(list[j], registered[j])'
    BY <1>1, <2>1 DEF Chain
  <2>5. QED
    BY <1>1, <2>1, <2>2, <2>3, <2>4 DEF ClockInv
<1>4. ASSUME NEW k \in Kinds, Uart!Clock!CallOne(k)
      PROVE  ClockInv'
  <2>1. /\ ClockAt = k /\ ClockCur # NoUart /\ ClockCur' = list[k].next[ClockCur]
        /\ ran' = [ran EXCEPT ![k] = Append(ran[k], ClockCur)] /\ ClockAt' = ClockAt
        /\ UNCHANGED <<list, registered>>
    BY <1>4 DEF Uart!Clock!CallOne, ClockAt, ClockCur
  <2>2. PICK l, s, c : /\ l = list[k] /\ s = registered[k] /\ c = ran[k]
                       /\ Chain(l, s) /\ c \in Seq(Uarts) /\ CalledSoFar(c, s)
    BY <1>1, <2>1
  <2>3. PICK d \in Seq(Uarts) : d = Append(c, ClockCur) /\ CalledSoFar(d, s)'
    BY <2>1, <2>2, OneMoreCalled
  <2>4. /\ ran'[k] = d /\ ran' \in [Kinds -> Seq(Uarts)]
        /\ \A j \in Kinds : j # k => ran'[j] = ran[j]
    BY <1>1, <2>1, <2>2, <2>3
  <2>5. CalledSoFar(ran[k], registered[k])'
    <3>1. registered'[k] = s /\ ran'[k] = d
      BY <2>1, <2>2, <2>4
    <3>2. QED
      BY <2>3, <3>1 DEF CalledSoFar
  <2>6. \A j \in Kinds : Chain(list[j], registered[j])'
    <3>1. list' = list /\ registered' = registered
      BY <2>1
    <3>2. QED
      BY <1>1, <3>1 DEF Chain
  <2>7. QED
    BY <1>1, <2>1, <2>4, <2>5, <2>6 DEF ClockInv
<1>5. CASE Uart!Clock!vtable_set_rate_hz
  <2>1. /\ ClockAt = "pre" /\ ClockAt' = "post" /\ ClockCur' = list["post"].head
        /\ UNCHANGED <<list, registered, ran>>
    BY <1>5 DEF Uart!Clock!vtable_set_rate_hz, ClockAt, ClockCur
  <2>2. CalledSoFar(ran["post"], registered["post"])'
    <3>1. Chain(list["post"], registered["post"]) /\ ran["post"] = << >>
      BY <1>1, <2>1
    <3>2. PICK s : s = registered["post"] /\ Len(s) \in Nat /\ list["post"].head = IF Len(s) = 0 THEN NoUart ELSE s[1]
      BY <3>1 DEF Chain
    <3>3. Len(<< >>) = 0
      OBVIOUS
    <3>4. QED
      BY <2>1, <3>1, <3>2, <3>3 DEF CalledSoFar
  <2>3. \A j \in Kinds : Chain(list[j], registered[j])'
    BY <1>1, <2>1 DEF Chain
  <2>4. QED
    BY <1>1, <2>1, <2>2, <2>3 DEF ClockInv
<1>6. CASE Uart!Clock!Return
  <2>1. ClockAt' = "idle" /\ UNCHANGED <<list, registered, ran>>
    BY <1>6 DEF Uart!Clock!Return, ClockAt
  <2>2. \A j \in Kinds : Chain(list[j], registered[j])'
    BY <1>1, <2>1 DEF Chain
  <2>3. QED
    BY <1>1, <2>1, <2>2 DEF ClockInv
<1>7. CASE UNCHANGED Uart!Clock!vars
  <2>1. ClockAt' = ClockAt /\ ClockCur' = ClockCur /\ UNCHANGED <<list, registered, ran>>
    BY <1>7 DEF Uart!Clock!vars, ClockAt, ClockCur
  <2>2. \A j \in Kinds : Chain(list[j], registered[j])'
    BY <1>1, <2>1 DEF Chain
  <2>3. QED
    BY <1>1, <2>1, <2>2 DEF ClockInv, CalledSoFar
<1>8. QED
  BY <1>2, <1>3, <1>4, <1>5, <1>6, <1>7 DEF Uart!Clock!Next, Uart!Clock!Change, Uart!Clock!Kind

\* The lists hold who is registered, and a change has called them all.
LEMMA ClockInvHolds ==
  ASSUME UartsAssumption, ClockInv
  PROVE  Uart!Clock!ListsHoldRegistered
<1>1. ASSUME NEW k \in {"pre", "post"}
      PROVE  Uart!Clock!Cells(list[k]) = Members(registered[k])
  BY CellsAre DEF ClockInv
<1>2. QED
  BY <1>1 DEF Uart!Clock!ListsHoldRegistered, Uart!Clock!Kind, Members

\* A change that is through a list has called all of it.
LEMMA ClockInvCalls ==
  ASSUME UartsAssumption, ClockInv
  PROVE  /\ ClockAt = "pre" /\ ClockCur = NoUart => ran["pre"] = registered["pre"]
         /\ ClockAt = "post" /\ ClockCur = NoUart => ran["post"] = registered["post"]
  BY AllCalled DEF ClockInv

\* So has every step that leaves it.
LEMMA ClockStepCalls ==
  ASSUME UartsAssumption, ClockInv, [Uart!Clock!Next]_Uart!Clock!vars
  PROVE  /\ ClockAt = "pre" /\ ClockAt' = "post" => ran["pre"] = registered["pre"]
         /\ ClockAt = "post" /\ ClockAt' = "idle" => ran["post"] = registered["post"]
<1>1. ASSUME NEW k \in {"pre", "post"}, NEW u \in Uarts, Uart!Clock!register(k, u)
      PROVE  ClockAt' = ClockAt
  BY <1>1 DEF Uart!Clock!register, ClockAt
<1>2. CASE Uart!Clock!set_rate_hz
  BY <1>2 DEF Uart!Clock!set_rate_hz, ClockAt
<1>3. ASSUME NEW k \in {"pre", "post"}, Uart!Clock!CallOne(k)
      PROVE  ClockAt' = ClockAt
  BY <1>3 DEF Uart!Clock!CallOne, ClockAt
<1>4. CASE Uart!Clock!vtable_set_rate_hz
  <2>1. ClockAt = "pre" /\ ClockAt' = "post" /\ ClockCur = NoUart
    BY <1>4 DEF Uart!Clock!vtable_set_rate_hz, ClockAt, ClockCur
  <2>2. QED
    BY <2>1, ClockInvCalls
<1>5. CASE Uart!Clock!Return
  <2>1. ClockAt = "post" /\ ClockAt' = "idle" /\ ClockCur = NoUart
    BY <1>5 DEF Uart!Clock!Return, ClockAt, ClockCur
  <2>2. QED
    BY <2>1, ClockInvCalls
<1>6. CASE UNCHANGED Uart!Clock!vars
  BY <1>6 DEF Uart!Clock!vars, ClockAt
<1>7. QED
  BY <1>1, <1>2, <1>3, <1>4, <1>5, <1>6 DEF Uart!Clock!Next, Uart!Clock!Change, Uart!Clock!Kind

\* No registration cuts off another's callback, and a rate change calls every callback once, in
\* the order of their registration, for any number of clients (metal/clock.h:61-136).
THEOREM EveryCallbackIsCalled ==
  ASSUME Uart!Clock!ClientsAssumption
  PROVE  Uart!Clock!Safe => []Uart!Clock!ListsHoldRegistered /\ Uart!Clock!EveryCallbackRuns
<1>1. Uart!Clock!Init => ClockInv
  BY Clients, ClockInitInv
<1>2. ClockInv /\ [Uart!Clock!Next]_Uart!Clock!vars => ClockInv'
  BY Clients, ClockNextInv
<1>3. ClockInv => Uart!Clock!ListsHoldRegistered
  BY Clients, ClockInvHolds
<1>4. ClockInv /\ [Uart!Clock!Next]_Uart!Clock!vars =>
        [/\ ClockAt = "pre" /\ ClockAt' = "post" => ran["pre"] = registered["pre"]
         /\ ClockAt = "post" /\ ClockAt' = "idle" => ran["post"] = registered["post"]]_Uart!Clock!vars
  BY Clients, ClockStepCalls
<1>5. Uart!Clock!Safe =>
        [][/\ ClockAt = "pre" /\ ClockAt' = "post" => ran["pre"] = registered["pre"]
           /\ ClockAt = "post" /\ ClockAt' = "idle" => ran["post"] = registered["post"]]_Uart!Clock!vars
  BY <1>1, <1>2, <1>4, PTL DEF Uart!Clock!Safe
<1>6. Uart!Clock!Safe => Uart!Clock!EveryCallbackRuns
  BY <1>5 DEF Uart!Clock!EveryCallbackRuns, ClockAt
<1>7. Uart!Clock!Safe => []Uart!Clock!ListsHoldRegistered
  BY <1>1, <1>2, <1>3, PTL DEF Uart!Clock!Safe
<1>8. QED
  BY <1>6, <1>7

-----------------------------------------------------------------------------
(* The UARTs. *)

\* The UARTs that are up have registered both callbacks, and one that is being initialised the first.
Registrations ==
  /\ up \subseteq Uarts /\ uartAt \in {"idle", "init", "pre", "empty", "drain", "post"}
  /\ uartAt = "idle" => cur = NoUart
  /\ uartAt = "init" => cur \in Uarts \ up
  /\ uartAt \in {"empty", "drain"} => cur # NoUart
  /\ Members(registered["pre"]) = IF uartAt = "init" THEN up \cup {cur} ELSE up
  /\ Members(registered["post"]) = up

\* One more member.
LEMMA MembersOfAppend ==
  ASSUME NEW s \in Seq(Uarts), NEW u \in Uarts
  PROVE  Members(Append(s, u)) = Members(s) \cup {u}
<1>1. PICK t, n : t = Append(s, u) /\ n = Len(s)
  OBVIOUS
<1>2. n \in Nat /\ DOMAIN s = 1 .. n /\ DOMAIN t = 1 .. n + 1 /\ t[n + 1] = u /\ \A k \in 1 .. n : t[k] = s[k]
  BY <1>1, AppendProperties
<1>3. \A k \in 1 .. n + 1 : k \in 1 .. n \/ k = n + 1
  BY <1>2
<1>4. 1 .. n \subseteq 1 .. n + 1 /\ n + 1 \in 1 .. n + 1
  BY <1>2
<1>5. QED
  BY <1>1, <1>2, <1>3, <1>4 DEF Members

\* Each step of the UARTs is one of the clock's, or none.
LEMMA UartStepsClock ==
  ASSUME UartsAssumption, ClockInv, Registrations, [Uart!Next]_Uart!vars
  PROVE  [Uart!Clock!Next]_Uart!Clock!vars /\ Registrations'
<1> DEFINE Kinds == {"pre", "post"}
<1>1. /\ NoUart \notin Uarts /\ DOMAIN list = Kinds /\ DOMAIN registered = Kinds
      /\ registered["pre"] \in Seq(Uarts) /\ registered["post"] \in Seq(Uarts)
  BY DEF ClockInv, Chain, UartsAssumption
<1>2. /\ up \subseteq Uarts /\ uartAt \in {"idle", "init", "pre", "empty", "drain", "post"}
      /\ uartAt = "idle" => cur = NoUart
      /\ uartAt = "init" => cur \in Uarts \ up
      /\ uartAt \in {"empty", "drain"} => cur # NoUart
      /\ Members(registered["pre"]) = IF uartAt = "init" THEN up \cup {cur} ELSE up
      /\ Members(registered["post"]) = up
  BY DEF Registrations
<1>3. ASSUME UNCHANGED Uart!clock, UNCHANGED up
      PROVE  UNCHANGED Uart!Clock!vars /\ Registrations'
  <2>1. UNCHANGED <<list, registered, speed, uartAt, cur, ran, up>>
    BY <1>3 DEF Uart!clock
  <2>2. QED
    BY <2>1 DEF Registrations, Uart!Clock!vars
<1>4. ASSUME NEW u \in Uarts, Uart!InitPre(u)
      PROVE  Uart!Clock!register("pre", u) /\ Registrations'
  <2>1. /\ uartAt = "idle" /\ u \notin up /\ uartAt' = "init" /\ cur' = u
        /\ list' = [list EXCEPT !["pre"] = Uart!Clock!AppendTo(@, u)]
        /\ registered' = [registered EXCEPT !["pre"] = Append(@, u)]
        /\ UNCHANGED <<speed, ran, up>>
    BY <1>4 DEF Uart!InitPre, Uart!Idle
  <2>2. u \notin {registered["pre"][k] : k \in DOMAIN registered["pre"]}
    BY <1>2, <2>1 DEF Members
  <2>3. Uart!Clock!register("pre", u)
    BY <1>2, <2>1, <2>2 DEF Uart!Clock!register
  <2>4. Members(registered["pre"])' = Members(registered["pre"]) \cup {u} /\ Members(registered["post"])' = up
    <3>1. registered'["pre"] = Append(registered["pre"], u) /\ registered'["post"] = registered["post"]
      BY <1>1, <2>1
    <3>2. Members(Append(registered["pre"], u)) = Members(registered["pre"]) \cup {u}
      BY <1>1, MembersOfAppend
    <3>3. QED
      BY <1>2, <3>1, <3>2 DEF Members
  <2>5. QED
    BY <1>2, <2>1, <2>3, <2>4 DEF Registrations
<1>5. CASE Uart!InitPost
  <2>1. /\ uartAt = "init" /\ uartAt' = "idle" /\ cur' = NoUart /\ up' = up \cup {cur}
        /\ list' = [list EXCEPT !["post"] = Uart!Clock!AppendTo(@, cur)]
        /\ registered' = [registered EXCEPT !["post"] = Append(@, cur)]
        /\ UNCHANGED <<speed, ran>>
    BY <1>5 DEF Uart!InitPost
  <2>2. PICK u \in Uarts : u = cur /\ u \notin up
    BY <1>2, <2>1
  <2>3. u \notin {registered["post"][k] : k \in DOMAIN registered["post"]}
    BY <1>2, <2>2 DEF Members
  <2>4. Uart!Clock!register("post", u)
    BY <2>1, <2>2, <2>3 DEF Uart!Clock!register
  <2>5. Members(registered["post"])' = Members(registered["post"]) \cup {u} /\ Members(registered["pre"])' = up \cup {u}
    <3>1. registered'["post"] = Append(registered["post"], u) /\ registered'["pre"] = registered["pre"]
      BY <1>1, <2>1, <2>2
    <3>2. Members(Append(registered["post"], u)) = Members(registered["post"]) \cup {u}
      BY <1>1, MembersOfAppend
    <3>3. QED
      BY <1>2, <2>1, <2>2, <3>1, <3>2 DEF Members
  <2>6. Registrations'
    BY <1>2, <2>1, <2>2, <2>5 DEF Registrations
  <2>7. QED
    BY <2>4, <2>6 DEF Uart!Clock!Next, Uart!Clock!Kind
<1>6. CASE Uart!BeginChange
  <2>1. /\ uartAt = "idle" /\ uartAt' = "pre" /\ cur' = list["pre"].head
        /\ ran' = [k \in Uart!Clock!Kind |-> << >>] /\ UNCHANGED <<list, registered, speed, up>>
    BY <1>6 DEF Uart!BeginChange, Uart!Idle
  <2>2. Uart!Clock!set_rate_hz
    BY <2>1 DEF Uart!Clock!set_rate_hz
  <2>3. Registrations'
    BY <1>2, <2>1 DEF Registrations
  <2>4. QED
    BY <2>2, <2>3 DEF Uart!Clock!Next, Uart!Clock!Change, Uart!Clock!Kind
<1>7. CASE Uart!PreCallback
  <2>1. uartAt = "pre" /\ uartAt' = "empty" /\ cur # NoUart /\ UNCHANGED <<list, registered, speed, cur, ran, up>>
    BY <1>7 DEF Uart!PreCallback
  <2>2. UNCHANGED Uart!Clock!vars
    BY <2>1 DEF Uart!Clock!vars
  <2>3. Registrations'
    BY <1>2, <2>1 DEF Registrations
  <2>4. QED
    BY <2>2, <2>3
<1>8. CASE Uart!Empty
  <2>1. uartAt = "empty" /\ uartAt' = "drain" /\ UNCHANGED <<list, registered, speed, cur, ran, up>>
    BY <1>8 DEF Uart!Empty
  <2>2. UNCHANGED Uart!Clock!vars
    BY <2>1 DEF Uart!Clock!vars
  <2>3. Registrations'
    BY <1>2, <2>1 DEF Registrations
  <2>4. QED
    BY <2>2, <2>3
<1>9. CASE Uart!DrainLoop
  BY <1>3, <1>9 DEF Uart!DrainLoop
<1>10. CASE Uart!EndPreCallback
  <2>1. /\ uartAt = "drain" /\ uartAt' = "pre" /\ cur' = list["pre"].next[cur]
        /\ ran' = [ran EXCEPT !["pre"] = Append(@, cur)] /\ UNCHANGED <<list, registered, speed, up>>
    BY <1>10 DEF Uart!EndPreCallback
  <2>2. Uart!Clock!CallOne("pre")
    BY <1>2, <2>1 DEF Uart!Clock!CallOne
  <2>3. Registrations'
    BY <1>2, <2>1 DEF Registrations
  <2>4. QED
    BY <2>2, <2>3 DEF Uart!Clock!Next, Uart!Clock!Change, Uart!Clock!Kind
<1>11. CASE Uart!SetRate
  <2>1. /\ uartAt = "pre" /\ uartAt' = "post" /\ cur = NoUart /\ cur' = list["post"].head /\ speed' \in Speeds
        /\ UNCHANGED <<list, registered, ran, up>>
    BY <1>11 DEF Uart!SetRate
  <2>2. Uart!Clock!vtable_set_rate_hz
    BY <2>1 DEF Uart!Clock!vtable_set_rate_hz
  <2>3. Registrations'
    BY <1>2, <2>1 DEF Registrations
  <2>4. QED
    BY <2>2, <2>3 DEF Uart!Clock!Next, Uart!Clock!Change, Uart!Clock!Kind
<1>12. CASE Uart!PostCallback
  <2>1. /\ uartAt = "post" /\ cur # NoUart /\ cur' = list["post"].next[cur]
        /\ ran' = [ran EXCEPT !["post"] = Append(@, cur)] /\ UNCHANGED <<list, registered, speed, uartAt, up>>
    BY <1>12 DEF Uart!PostCallback
  <2>2. Uart!Clock!CallOne("post")
    BY <2>1 DEF Uart!Clock!CallOne
  <2>3. Registrations'
    BY <1>2, <2>1 DEF Registrations
  <2>4. QED
    BY <2>2, <2>3 DEF Uart!Clock!Next, Uart!Clock!Change, Uart!Clock!Kind
<1>13. CASE Uart!EndChange
  <2>1. uartAt = "post" /\ cur = NoUart /\ uartAt' = "idle" /\ UNCHANGED <<list, registered, speed, cur, ran, up>>
    BY <1>13 DEF Uart!EndChange
  <2>2. Uart!Clock!Return
    BY <2>1 DEF Uart!Clock!Return
  <2>3. Registrations'
    BY <1>2, <2>1 DEF Registrations
  <2>4. QED
    BY <2>2, <2>3 DEF Uart!Clock!Next, Uart!Clock!Change, Uart!Clock!Kind
<1>14. ASSUME NEW u \in Uarts, Uart!putc(u) \/ Uart!getc(u) \/ Uart!Arrive(u) \/ \E n \in TxLevels : Uart!set_tx_watermark(u, n)
       PROVE  UNCHANGED Uart!clock /\ UNCHANGED up
  BY <1>14 DEF Uart!putc, Uart!getc, Uart!Arrive, Uart!set_tx_watermark
<1>15. CASE Uart!Tick
  BY <1>15, <1>3 DEF Uart!Tick
<1>16. CASE UNCHANGED Uart!vars
  BY <1>16, <1>3 DEF Uart!vars
<1>17. Uart!Change => [Uart!Clock!Next]_Uart!Clock!vars /\ Registrations'
  BY <1>5, <1>7, <1>8, <1>9, <1>10, <1>11, <1>12, <1>13 DEF Uart!Change, Uart!Clock!Next, Uart!Clock!Change, Uart!Clock!Kind
<1>18. Uart!Transmit => [Uart!Clock!Next]_Uart!Clock!vars /\ Registrations'
  BY <1>3, <1>4, <1>6, <1>14, <1>15, <1>17 DEF Uart!Transmit, Uart!Clock!Next, Uart!Clock!Kind
<1>19. Uart!Receive => [Uart!Clock!Next]_Uart!Clock!vars /\ Registrations'
  BY <1>3, <1>14 DEF Uart!Receive
<1>20. QED
  BY <1>16, <1>18, <1>19 DEF Uart!Next

\* The clock and its clients begin together.
LEMMA UartInitClock ==
  ASSUME UartsAssumption, Uart!Init
  PROVE  Uart!Clock!Init /\ Registrations
<1>1. Uart!Clock!Init
  BY DEF Uart!Init, Uart!Clock!Init
<1>2. registered["pre"] = << >> /\ registered["post"] = << >> /\ uartAt = "idle" /\ cur = NoUart /\ up = {}
  BY DEF Uart!Init, Uart!Clock!Kind
<1>3. Members(<< >>) = {}
  BY DEF Members
<1>4. QED
  BY <1>1, <1>2, <1>3 DEF Registrations

\* The UARTs behave as clients of the clock: the clock's own specification is met, so no
\* UART's callback is lost and every rate change calls them all (metal/clock.h:61-136,
\* sifive_uart0.c:125-190).
THEOREM UartsAreTheClocks ==
  ASSUME Uart!Clock!ClientsAssumption
  PROVE  Uart!Spec => Uart!ImplementsClock
<1>1. Uart!Init => Uart!Clock!Init /\ ClockInv /\ Registrations
  BY Clients, UartInitClock, ClockInitInv
<1>2. ClockInv /\ Registrations /\ [Uart!Next]_Uart!vars =>
        [Uart!Clock!Next]_Uart!Clock!vars /\ (ClockInv /\ Registrations)'
  BY Clients, UartStepsClock, ClockNextInv
<1>3. Uart!Spec => Uart!Clock!Safe
  BY <1>1, <1>2, PTL DEF Uart!Spec, Uart!Clock!Safe
<1>4. Uart!Clock!Safe => []Uart!Clock!ListsHoldRegistered /\ Uart!Clock!EveryCallbackRuns
  BY EveryCallbackIsCalled
<1>5. QED
  BY <1>3, <1>4 DEF Uart!ImplementsClock

-----------------------------------------------------------------------------
(* What the UARTs send and receive. *)

Drained(u) == fifo[u] = 0 /\ shift[u] = 0
CharTime == CharBits * speed

\* A UART that is not up is empty; the ones that are up divide the clock's rate, except, while
\* the second callbacks run, those that are not called yet; a character takes no longer than
\* CharTime, and the waiting loop has counted what has gone by of it; the UARTs whose first
\* callback was called have nothing to send.
UartInv ==
  /\ fifo \in [Uarts -> Nat] /\ shift \in [Uarts -> Nat] /\ divisor \in [Uarts -> Int]
  /\ speed \in Speeds /\ drained \in Nat /\ DOMAIN txcnt = Uarts
  /\ \A u \in Uarts : fifo[u] <= FifoDepth /\ shift[u] <= CharTime /\ (u \notin up => Drained(u))
  /\ uartAt # "post" => \A u \in up : divisor[u] + 1 = speed
  /\ uartAt = "post" => (\A u \in Members(ran["post"]) : divisor[u] + 1 = speed) /\ \A u \in Uarts : Drained(u)
  /\ uartAt \in {"pre", "empty", "drain"} => \A u \in Members(ran["pre"]) : Drained(u)
  /\ uartAt = "empty" => txcnt[cur] = 1
  /\ uartAt = "drain" => fifo[cur] = 0 /\ drained <= CharTime /\ (shift[cur] = 0 \/ shift[cur] + drained <= CharTime)

\* What fits into a long is not wrapped.
LEMMA CyclesToWait ==
  ASSUME Uart!RatesAssumption, speed \in Speeds
  PROVE  CharTime \in Nat /\ Uart!cycles_to_wait = CharTime
<1>1. CharBits \in Nat /\ speed \in Nat /\ CharTime = CharBits * speed /\ CharBits * speed <= LongMax /\ LongMax \in Nat
  BY DEF Uart!RatesAssumption, CharTime
<1>2. CharTime \in Nat
  BY <1>1
<1>3. ASSUME NEW n \in Nat, n <= LongMax
      PROVE  Uart!Wrap(n) = n /\ n \div 1 = n
  <2>1. PICK p, q : p = n + LongMax + 1 /\ q = 2 * (LongMax + 1)
    OBVIOUS
  <2>2. p \in Nat /\ q \in Nat /\ p < q
    BY <1>1, <1>3, <2>1
  <2>3. p % q = p
    BY <2>2
  <2>4. p - LongMax - 1 = n
    BY <1>1, <2>1
  <2>5. Uart!Wrap(n) = (p % q) - LongMax - 1
    BY <2>1 DEF Uart!Wrap
  <2>6. QED
    BY <2>3, <2>4, <2>5
<1>4. PICK n \in Nat : n = CharBits * speed /\ n <= LongMax
  BY <1>1, <1>2
<1>5. Uart!cycles_to_wait = Uart!Wrap(n) \div 1
  BY <1>4 DEF Uart!cycles_to_wait, Uart!Baud
<1>6. QED
  BY <1>1, <1>2, <1>3, <1>4, <1>5

\* A tick sends on what there is to send.
LEMMA TickIs ==
  ASSUME fifo \in [Uarts -> Nat], shift \in [Uarts -> Nat], Uart!OneTick, NEW u \in Uarts
  PROVE  /\ DOMAIN fifo' = Uarts /\ DOMAIN shift' = Uarts
         /\ \/ shift[u] > 0 /\ fifo'[u] = fifo[u] /\ shift'[u] = shift[u] - 1
            \/ shift[u] = 0 /\ fifo[u] > 0 /\ fifo'[u] = fifo[u] - 1 /\ shift'[u] = CharBits * (divisor[u] + 1)
            \/ Drained(u) /\ fifo'[u] = 0 /\ shift'[u] = 0
<1>1. /\ DOMAIN fifo' = Uarts /\ DOMAIN shift' = Uarts
      /\ fifo'[u] = Uart!Ticked(u)[1] /\ shift'[u] = Uart!Ticked(u)[2]
  BY DEF Uart!OneTick
<1>2. shift[u] \in Nat /\ fifo[u] \in Nat
  OBVIOUS
<1>3. CASE shift[u] > 0
  BY <1>1, <1>2, <1>3 DEF Uart!Ticked
<1>4. CASE shift[u] = 0 /\ fifo[u] > 0
  BY <1>1, <1>2, <1>4 DEF Uart!Ticked
<1>5. CASE shift[u] = 0 /\ fifo[u] = 0
  BY <1>1, <1>2, <1>5 DEF Uart!Ticked, Drained
<1>6. QED
  BY <1>1, <1>2, <1>3, <1>4, <1>5

\* So what was drained stays so, and a character takes its time.
LEMMA TickKeeps ==
  ASSUME Uart!RatesAssumption, UartInv, Registrations, Uart!OneTick, UNCHANGED <<speed, divisor, up>>
  PROVE  /\ fifo' \in [Uarts -> Nat] /\ shift' \in [Uarts -> Nat]
         /\ \A u \in Uarts : /\ fifo'[u] <= FifoDepth /\ shift'[u] <= CharTime
                             /\ Drained(u) => Drained(u)'
                             /\ fifo[u] = 0 => fifo'[u] = 0 /\ (Drained(u) \/ shift'[u] = shift[u] - 1)
<1>1. PICK ct \in Nat : ct = CharTime
  BY CyclesToWait DEF UartInv
<1>2. FifoDepth \in Nat
  BY DEF Uart!RatesAssumption
<1>3. ASSUME NEW u \in Uarts
      PROVE  /\ fifo'[u] \in Nat /\ fifo'[u] <= FifoDepth /\ shift'[u] \in Nat /\ shift'[u] <= ct
             /\ Drained(u) => fifo'[u] = 0 /\ shift'[u] = 0
             /\ fifo[u] = 0 => fifo'[u] = 0 /\ (Drained(u) \/ shift'[u] = shift[u] - 1)
  <2>1. PICK f \in Nat, s \in Nat : f = fifo[u] /\ s = shift[u] /\ f <= FifoDepth /\ s <= ct
    BY <1>1 DEF UartInv
  <2>2. PICK f1, s1 : f1 = fifo'[u] /\ s1 = shift'[u]
    OBVIOUS
  <2>3. \/ s > 0 /\ f1 = f /\ s1 = s - 1
        \/ s = 0 /\ f > 0 /\ f1 = f - 1 /\ s1 = CharBits * (divisor[u] + 1)
        \/ Drained(u) /\ f1 = 0 /\ s1 = 0
    BY <2>1, <2>2, TickIs DEF UartInv
  <2>4. s = 0 /\ f > 0 => CharBits * (divisor[u] + 1) = ct
    <3>1. SUFFICES ASSUME f > 0 PROVE CharBits * (divisor[u] + 1) = ct
      OBVIOUS
    <3>2. ~ Drained(u)
      BY <2>1, <3>1 DEF Drained
    <3>3. u \in up /\ uartAt # "post"
      BY <3>2 DEF UartInv
    <3>4. divisor[u] + 1 = speed
      BY <3>3 DEF UartInv
    <3>5. QED
      BY <1>1, <3>4 DEF CharTime
  <2>5. Drained(u) <=> f = 0 /\ s = 0
    BY <2>1 DEF Drained
  <2>6. QED
    BY <1>2, <2>1, <2>2, <2>3, <2>4, <2>5
<1>4. DOMAIN fifo' = Uarts /\ DOMAIN shift' = Uarts /\ fifo' = [u \in Uarts |-> fifo'[u]] /\ shift' = [u \in Uarts |-> shift'[u]]
  BY DEF Uart!OneTick
<1>5. fifo' \in [Uarts -> Nat] /\ shift' \in [Uarts -> Nat]
  BY <1>3, <1>4
<1>6. QED
  BY <1>1, <1>3, <1>5 DEF Drained

\* The callback at hand is a client's.
LEMMA CurIsClient ==
  ASSUME UartsAssumption, ClockInv, ClockAt \in {"pre", "post"}, ClockCur # NoUart
  PROVE  ClockCur \in Uarts
<1>1. PICK k \in {"pre", "post"} : k = ClockAt
  OBVIOUS
<1>2. PICK l, c, s : Chain(l, s) /\ s = registered[k] /\ c = ran[k] /\ c \in Seq(Uarts) /\ CalledSoFar(c, s)
  BY <1>1 DEF ClockInv
<1>3. /\ s \in Seq(Uarts) /\ Len(s) \in Nat /\ Len(c) \in Nat /\ Len(c) <= Len(s) /\ Len(c) # Len(s)
      /\ ClockCur = s[Len(c) + 1]
  BY <1>2 DEF Chain, CalledSoFar
<1>4. Len(c) + 1 \in 1 .. Len(s)
  BY <1>3
<1>5. QED
  BY <1>3, <1>4

\* Every UART is empty.
LEMMA UartInitInv ==
  ASSUME Uart!RatesAssumption, Uart!Init
  PROVE  UartInv
<1>1. /\ fifo = [u \in Uarts |-> 0] /\ shift = [u \in Uarts |-> 0] /\ divisor = [u \in Uarts |-> -1]
      /\ speed \in Speeds /\ drained = 0 /\ txcnt = [u \in Uarts |-> 0] /\ uartAt = "idle" /\ up = {}
  BY DEF Uart!Init
<1>2. CharTime \in Nat /\ FifoDepth \in Nat
  BY <1>1, CyclesToWait DEF Uart!RatesAssumption
<1>3. fifo \in [Uarts -> Nat] /\ shift \in [Uarts -> Nat] /\ divisor \in [Uarts -> Int] /\ DOMAIN txcnt = Uarts
  BY <1>1
<1>4. \A u \in Uarts : fifo[u] = 0 /\ shift[u] = 0
  BY <1>1
<1>5. QED
  BY <1>1, <1>2, <1>3, <1>4 DEF UartInv, Drained

\* Every step of the UARTs and of their drivers.
LEMMA UartNextInv ==
  ASSUME UartsAssumption, Uart!RatesAssumption, ClockInv, Registrations, UartInv, [Uart!Next]_Uart!vars
  PROVE  UartInv'
<1>1. PICK ct \in Nat : ct = CharTime /\ Uart!cycles_to_wait = ct
  BY CyclesToWait DEF UartInv
<1>2. /\ fifo \in [Uarts -> Nat] /\ shift \in [Uarts -> Nat] /\ divisor \in [Uarts -> Int]
      /\ speed \in Speeds /\ drained \in Nat /\ DOMAIN txcnt = Uarts
      /\ \A u \in Uarts : fifo[u] <= FifoDepth /\ shift[u] <= ct /\ (u \notin up => Drained(u))
      /\ uartAt # "post" => \A u \in up : divisor[u] + 1 = speed
      /\ uartAt = "post" => (\A u \in Members(ran["post"]) : divisor[u] + 1 = speed) /\ \A u \in Uarts : Drained(u)
      /\ uartAt \in {"pre", "empty", "drain"} => \A u \in Members(ran["pre"]) : Drained(u)
      /\ uartAt = "empty" => txcnt[cur] = 1
      /\ uartAt = "drain" => fifo[cur] = 0 /\ drained <= ct /\ (shift[cur] = 0 \/ shift[cur] + drained <= ct)
  BY <1>1 DEF UartInv
<1>3. /\ up \subseteq Uarts /\ uartAt \in {"idle", "init", "pre", "empty", "drain", "post"}
      /\ uartAt = "idle" => cur = NoUart
      /\ uartAt = "init" => cur \in Uarts \ up
      /\ uartAt \in {"empty", "drain"} => cur # NoUart
      /\ ran["pre"] \in Seq(Uarts) /\ ran["post"] \in Seq(Uarts)
  BY DEF Registrations, ClockInv
<1>4. uartAt \in {"pre", "empty", "drain", "post"} /\ cur # NoUart => cur \in Uarts
  BY CurIsClient DEF ClockAt, ClockCur
<1>5. speed \in Nat /\ FifoDepth \in Nat
  BY <1>2 DEF Uart!RatesAssumption
<1>6. ASSUME UNCHANGED <<speed, uartAt, cur, ran, up, divisor, drained>>, Uart!OneTick, UNCHANGED txcnt
      PROVE  UartInv'
  <2>1. /\ fifo' \in [Uarts -> Nat] /\ shift' \in [Uarts -> Nat]
        /\ \A u \in Uarts : /\ fifo'[u] <= FifoDepth /\ shift'[u] <= ct
                            /\ Drained(u) => Drained(u)'
                            /\ fifo[u] = 0 => fifo'[u] = 0 /\ (Drained(u) \/ shift'[u] = shift[u] - 1)
    BY <1>1, <1>6, TickKeeps
  <2>2. uartAt = "drain" => fifo'[cur] = 0 /\ (shift'[cur] = 0 \/ shift'[cur] + drained <= ct)
    <3>1. SUFFICES ASSUME uartAt = "drain" PROVE fifo'[cur] = 0 /\ (shift'[cur] = 0 \/ shift'[cur] + drained <= ct)
      OBVIOUS
    <3>2. PICK u \in Uarts : u = cur
      BY <1>3, <1>4, <3>1
    <3>3. fifo[u] = 0 /\ (shift[u] = 0 \/ shift[u] + drained <= ct) /\ shift[u] \in Nat /\ shift'[u] \in Nat
      BY <1>2, <2>1, <3>1, <3>2
    <3>4. CASE Drained(u)
      BY <2>1, <3>2, <3>4 DEF Drained
    <3>5. CASE ~ Drained(u)
      BY <1>2, <2>1, <3>2, <3>3, <3>5 DEF Drained
    <3>6. QED
      BY <3>4, <3>5
  <2>3. CharTime' = ct
    BY <1>1, <1>6 DEF CharTime
  <2>4. \A u \in Uarts : Drained(u) => Drained(u)'
    BY <2>1
  <2>5. Members(ran["post"])' = Members(ran["post"]) /\ Members(ran["pre"])' = Members(ran["pre"])
    BY <1>6 DEF Members
  <2>6. Members(ran["pre"]) \subseteq Uarts
    BY <1>3 DEF Members
  <2>7. \A u \in Uarts : u \notin up' => Drained(u)'
    BY <1>2, <1>6, <2>4
  <2>8. uartAt' = "post" => (\A u \in Members(ran["post"])' : divisor'[u] + 1 = speed') /\ \A u \in Uarts : Drained(u)'
    BY <1>2, <1>6, <2>4, <2>5
  <2>9. uartAt' \in {"pre", "empty", "drain"} => \A u \in Members(ran["pre"])' : Drained(u)'
    BY <1>2, <1>6, <2>4, <2>5, <2>6
  <2>10. QED
    BY <1>2, <1>6, <2>1, <2>2, <2>3, <2>7, <2>8, <2>9 DEF UartInv
<1>7. ASSUME UNCHANGED <<speed, uartAt, cur, ran, up, divisor, drained, txcnt, fifo, shift>>
      PROVE  UartInv'
  BY <1>7 DEF UartInv, Drained, CharTime, Members
<1>8. ASSUME NEW u \in Uarts, Uart!InitPre(u)
      PROVE  UartInv'
  <2>1. uartAt = "idle" /\ uartAt' = "init" /\ UNCHANGED <<speed, ran, up, fifo, shift, divisor, txcnt, drained>>
    BY <1>8 DEF Uart!InitPre, Uart!Idle
  <2>2. QED
    BY <1>1, <1>2, <2>1 DEF UartInv, Drained, CharTime
<1>9. CASE Uart!InitPost
  <2>1. /\ uartAt = "init" /\ uartAt' = "idle" /\ up' = up \cup {cur}
        /\ divisor' = [divisor EXCEPT ![cur] = speed \div 1 - 1]
        /\ UNCHANGED <<speed, ran, fifo, shift, txcnt, drained>>
    BY <1>9 DEF Uart!InitPost, Uart!set_baud_rate, Uart!Baud
  <2>2. PICK u \in Uarts : u = cur /\ u \notin up
    BY <1>3, <2>1
  <2>3. speed \div 1 = speed /\ speed - 1 \in Int /\ speed - 1 + 1 = speed
    BY <1>5
  <2>4. divisor' \in [Uarts -> Int] /\ divisor'[u] + 1 = speed /\ \A v \in Uarts : v # u => divisor'[v] = divisor[v]
    BY <1>2, <2>1, <2>2, <2>3
  <2>5. \A v \in up' : divisor'[v] + 1 = speed
    BY <1>2, <1>3, <2>1, <2>2, <2>4
  <2>6. \A v \in Uarts : v \notin up' => v \notin up
    BY <2>1
  <2>7. QED
    BY <1>1, <1>2, <2>1, <2>4, <2>5, <2>6 DEF UartInv, Drained, CharTime
<1>10. ASSUME NEW u \in Uarts, Uart!putc(u)
       PROVE  UartInv'
  <2>1. /\ uartAt = "idle" /\ u \in up /\ fifo[u] < FifoDepth /\ fifo' = [fifo EXCEPT ![u] = fifo[u] + 1]
        /\ UNCHANGED <<speed, uartAt, ran, up, shift, divisor, txcnt, drained>>
    BY <1>10 DEF Uart!putc, Uart!App, Uart!Idle, Uart!clock
  <2>2. fifo[u] + 1 \in Nat /\ fifo[u] + 1 <= FifoDepth
    BY <1>2, <1>5, <2>1
  <2>3. fifo' \in [Uarts -> Nat] /\ \A v \in Uarts : fifo'[v] <= FifoDepth /\ (v # u => fifo'[v] = fifo[v])
    BY <1>2, <2>1, <2>2
  <2>4. \A v \in Uarts : v \notin up' => Drained(v)'
    BY <1>2, <2>1, <2>3 DEF Drained
  <2>5. QED
    BY <1>1, <1>2, <2>1, <2>3, <2>4 DEF UartInv, CharTime
<1>11. ASSUME NEW u \in Uarts, NEW n, Uart!set_tx_watermark(u, n)
       PROVE  UartInv'
  <2>1. /\ uartAt = "idle" /\ txcnt' = [txcnt EXCEPT ![u] = Uart!Or(txcnt[u], n)]
        /\ UNCHANGED <<speed, uartAt, ran, up, fifo, shift, divisor, drained>>
    BY <1>11 DEF Uart!set_tx_watermark, Uart!App, Uart!Idle, Uart!clock
  <2>2. DOMAIN txcnt' = Uarts
    BY <1>2, <2>1
  <2>3. QED
    BY <1>1, <1>2, <2>1, <2>2 DEF UartInv, Drained, CharTime
<1>12. CASE Uart!BeginChange
  <2>1. /\ uartAt = "idle" /\ uartAt' = "pre" /\ ran' = [k \in {"pre", "post"} |-> << >>]
        /\ UNCHANGED <<speed, up, fifo, shift, divisor, txcnt, drained>>
    BY <1>12 DEF Uart!BeginChange, Uart!Idle, Uart!Clock!Kind
  <2>2. Members(ran["pre"])' = {}
    BY <2>1 DEF Members
  <2>3. QED
    BY <1>1, <1>2, <2>1, <2>2 DEF UartInv, Drained, CharTime
<1>13. CASE Uart!PreCallback
  <2>1. /\ uartAt = "pre" /\ uartAt' = "empty" /\ cur # NoUart /\ txcnt' = [txcnt EXCEPT ![cur] = 1]
        /\ UNCHANGED <<speed, cur, ran, up, fifo, shift, divisor, drained>>
    BY <1>13 DEF Uart!PreCallback
  <2>2. cur \in Uarts /\ DOMAIN txcnt' = Uarts /\ txcnt'[cur] = 1
    BY <1>2, <1>4, <2>1
  <2>3. Members(ran["pre"])' = Members(ran["pre"])
    BY <2>1 DEF Members
  <2>4. QED
    BY <1>1, <1>2, <2>1, <2>2, <2>3 DEF UartInv, Drained, CharTime
<1>14. CASE Uart!Empty
  <2>1. /\ uartAt = "empty" /\ uartAt' = "drain" /\ fifo[cur] < txcnt[cur] /\ drained' = 0
        /\ UNCHANGED <<speed, cur, ran, up, fifo, shift, divisor, txcnt>>
    BY <1>14 DEF Uart!Empty, Uart!TXWM
  <2>2. cur \in Uarts
    BY <1>3, <1>4, <2>1
  <2>3. fifo[cur] = 0 /\ shift[cur] + 0 <= ct /\ 0 <= ct
    BY <1>2, <2>1, <2>2
  <2>4. Members(ran["pre"])' = Members(ran["pre"])
    BY <2>1 DEF Members
  <2>5. QED
    BY <1>1, <1>2, <2>1, <2>3, <2>4 DEF UartInv, Drained, CharTime
<1>15. CASE Uart!DrainLoop
  <2>1. /\ uartAt = "drain" /\ drained < ct /\ drained' = drained + 1 /\ Uart!OneTick
        /\ UNCHANGED <<speed, uartAt, cur, ran, up, divisor, txcnt>>
    BY <1>1, <1>15 DEF Uart!DrainLoop, Uart!clock
  <2>2. /\ fifo' \in [Uarts -> Nat] /\ shift' \in [Uarts -> Nat]
        /\ \A u \in Uarts : /\ fifo'[u] <= FifoDepth /\ shift'[u] <= ct
                            /\ Drained(u) => Drained(u)'
                            /\ fifo[u] = 0 => fifo'[u] = 0 /\ (Drained(u) \/ shift'[u] = shift[u] - 1)
    BY <1>1, <2>1, TickKeeps
  <2>3. PICK u \in Uarts : u = cur
    BY <1>3, <1>4, <2>1
  <2>4. fifo[u] = 0 /\ (shift[u] = 0 \/ shift[u] + drained <= ct) /\ shift[u] \in Nat /\ shift'[u] \in Nat
    BY <1>2, <2>1, <2>2, <2>3
  <2>5. fifo'[u] = 0 /\ (shift'[u] = 0 \/ shift'[u] + drained' <= ct)
    <3>1. CASE Drained(u)
      BY <2>2, <3>1 DEF Drained
    <3>2. CASE ~ Drained(u)
      BY <1>2, <2>1, <2>2, <2>4, <3>2 DEF Drained
    <3>3. QED
      BY <3>1, <3>2
  <2>6. drained' \in Nat /\ drained' <= ct
    BY <1>2, <2>1
  <2>7. CharTime' = ct /\ Members(ran["pre"])' = Members(ran["pre"]) /\ Members(ran["pre"]) \subseteq Uarts
    BY <1>1, <1>3, <2>1 DEF CharTime, Members
  <2>8. \A v \in Uarts : v \notin up' => Drained(v)'
    BY <1>2, <2>1, <2>2
  <2>9. \A v \in Members(ran["pre"])' : Drained(v)'
    BY <1>2, <2>1, <2>2, <2>7
  <2>10. QED
    BY <1>2, <2>1, <2>2, <2>3, <2>5, <2>6, <2>7, <2>8, <2>9 DEF UartInv
<1>16. CASE Uart!EndPreCallback
  <2>1. /\ uartAt = "drain" /\ drained >= ct /\ uartAt' = "pre" /\ drained' = 0
        /\ ran' = [ran EXCEPT !["pre"] = Append(ran["pre"], cur)]
        /\ UNCHANGED <<speed, up, fifo, shift, divisor, txcnt>>
    BY <1>1, <1>16 DEF Uart!EndPreCallback
  <2>2. PICK u \in Uarts : u = cur
    BY <1>3, <1>4, <2>1
  <2>3. Drained(u)
    <3>1. fifo[u] = 0 /\ drained = ct /\ shift[u] \in Nat /\ (shift[u] = 0 \/ shift[u] + drained <= ct)
      BY <1>2, <2>1, <2>2
    <3>2. QED
      BY <3>1 DEF Drained
  <2>4. Members(ran["pre"])' = Members(ran["pre"]) \cup {u}
    <3>1. ran'["pre"] = Append(ran["pre"], u)
      BY <2>1, <2>2 DEF ClockInv
    <3>2. Members(Append(ran["pre"], u)) = Members(ran["pre"]) \cup {u}
      BY <1>3, MembersOfAppend
    <3>3. QED
      BY <3>1, <3>2 DEF Members
  <2>5. \A v \in Members(ran["pre"])' : Drained(v)
    BY <1>2, <2>1, <2>3, <2>4
  <2>6. QED
    BY <1>1, <1>2, <2>1, <2>5 DEF UartInv, Drained, CharTime
<1>17. CASE Uart!SetRate
  <2>1. /\ uartAt = "pre" /\ cur = NoUart /\ uartAt' = "post" /\ speed' \in Speeds
        /\ UNCHANGED <<ran, up, fifo, shift, divisor, txcnt, drained>>
    BY <1>17 DEF Uart!SetRate
  <2>2. ran["pre"] = registered["pre"] /\ ran["post"] = << >>
    BY <2>1, ClockInvCalls DEF ClockInv, ClockAt, ClockCur
  <2>3. Members(ran["pre"]) = up /\ Members(ran["post"])' = {}
    BY <2>1, <2>2 DEF Registrations, Members
  <2>4. \A u \in Uarts : Drained(u)
    BY <1>2, <2>1, <2>3
  <2>5. CharTime' \in Nat
    <3>1. PICK a \in Nat, r \in Nat : a = CharBits /\ r = speed'
      BY <2>1 DEF Uart!RatesAssumption
    <3>2. CharTime' = a * r
      BY <3>1 DEF CharTime
    <3>3. QED
      BY <3>2
  <2>6. \A u \in Uarts : Drained(u)' /\ shift'[u] <= CharTime'
    BY <2>1, <2>4, <2>5 DEF Drained
  <2>7. QED
    BY <1>2, <2>1, <2>3, <2>6 DEF UartInv
<1>18. CASE Uart!PostCallback
  <2>1. /\ uartAt = "post" /\ cur # NoUart /\ divisor' = [divisor EXCEPT ![cur] = speed \div 1 - 1]
        /\ ran' = [ran EXCEPT !["post"] = Append(ran["post"], cur)]
        /\ UNCHANGED <<speed, uartAt, up, fifo, shift, txcnt, drained>>
    BY <1>18 DEF Uart!PostCallback, Uart!set_baud_rate, Uart!Baud
  <2>2. PICK u \in Uarts : u = cur
    BY <1>4, <2>1
  <2>3. speed \div 1 = speed /\ speed - 1 \in Int /\ speed - 1 + 1 = speed
    BY <1>5
  <2>4. divisor' \in [Uarts -> Int] /\ divisor'[u] + 1 = speed /\ \A v \in Uarts : v # u => divisor'[v] = divisor[v]
    BY <1>2, <2>1, <2>2, <2>3
  <2>5. Members(ran["post"])' = Members(ran["post"]) \cup {u} /\ Members(ran["post"]) \subseteq Uarts
    <3>1. ran'["post"] = Append(ran["post"], u)
      BY <2>1, <2>2 DEF ClockInv
    <3>2. Members(Append(ran["post"], u)) = Members(ran["post"]) \cup {u}
      BY <1>3, MembersOfAppend
    <3>3. Members(ran["post"])' = Members(Append(ran["post"], u))
      BY <3>1 DEF Members
    <3>4. Members(ran["post"]) \subseteq Uarts
      BY <1>3 DEF Members
    <3>5. QED
      BY <3>2, <3>3, <3>4
  <2>6. \A v \in Members(ran["post"])' : divisor'[v] + 1 = speed
    BY <1>2, <2>1, <2>4, <2>5
  <2>7. \A v \in Uarts : Drained(v)'
    BY <1>2, <2>1 DEF Drained
  <2>8. QED
    BY <1>1, <1>2, <2>1, <2>4, <2>6, <2>7 DEF UartInv, CharTime
<1>19. CASE Uart!EndChange
  <2>1. /\ uartAt = "post" /\ cur = NoUart /\ uartAt' = "idle"
        /\ UNCHANGED <<speed, ran, up, fifo, shift, divisor, txcnt, drained>>
    BY <1>19 DEF Uart!EndChange
  <2>2. ran["post"] = registered["post"]
    BY <2>1, ClockInvCalls DEF ClockAt, ClockCur
  <2>3. Members(ran["post"]) = up
    BY <2>2 DEF Registrations
  <2>4. \A u \in up : divisor[u] + 1 = speed
    BY <1>2, <2>1, <2>3
  <2>5. QED
    BY <1>1, <1>2, <2>1, <2>4 DEF UartInv, Drained, CharTime
<1>20. ASSUME NEW u \in Uarts, Uart!getc(u) \/ Uart!Arrive(u)
       PROVE  UartInv'
  BY <1>7, <1>20 DEF Uart!getc, Uart!Arrive, Uart!clock
<1>21. CASE Uart!Tick
  BY <1>6, <1>21 DEF Uart!Tick, Uart!clock
<1>22. CASE UNCHANGED Uart!vars
  BY <1>7, <1>22 DEF Uart!vars, Uart!clock
<1>23. Uart!Change => UartInv'
  BY <1>9, <1>13, <1>14, <1>15, <1>16, <1>17, <1>18, <1>19 DEF Uart!Change
<1>24. Uart!Transmit => UartInv'
  BY <1>8, <1>10, <1>11, <1>12, <1>21, <1>23 DEF Uart!Transmit
<1>25. Uart!Receive => UartInv'
  BY <1>20 DEF Uart!Receive
<1>26. QED
  BY <1>22, <1>24, <1>25 DEF Uart!Next

\* What waits in a receive FIFO follows what was read last, one after the other, and so does
\* what will arrive next.
Following(f, l) ==
  /\ f \in Seq(0 .. 3) /\ l \in [c : 0 .. 3, next : 0 .. 3]
  /\ \A k \in 1 .. Len(f) : f[k] = (l.c + k) % 4
  /\ l.next = (l.c + Len(f) + 1) % 4
ReceiveInv ==
  /\ DOMAIN rxFifo = Uarts /\ DOMAIN lastRead = Uarts
  /\ \A u \in Uarts : Following(rxFifo[u], lastRead[u])

\* Counting modulo four.
LEMMA ModFour ==
  ASSUME NEW a \in Nat, NEW b \in Nat
  PROVE  /\ a % 4 \in 0 .. 3
         /\ ((a % 4) + b) % 4 = (a + b) % 4
<1>1. PICK q \in Nat, r \in 0 .. 3 : q = a \div 4 /\ r = a % 4 /\ a = 4 * q + r
  BY Halves
<1>2. PICK t \in Nat : t = r + b
  OBVIOUS
<1>3. (4 * q + t) % 4 = t % 4
  BY ModOfSum
<1>4. a + b = 4 * q + t
  BY <1>1, <1>2
<1>5. QED
  BY <1>1, <1>2, <1>3, <1>4

\* A number is read, or arrives.
LEMMA ReadNumbers ==
  ASSUME NEW l \in [c : 0 .. 3, next : 0 .. 3], NEW v \in 0 .. 3
  PROVE  /\ [l EXCEPT !.next = v] \in [c : 0 .. 3, next : 0 .. 3]
         /\ [l EXCEPT !.next = v].c = l.c /\ [l EXCEPT !.next = v].next = v
         /\ [l EXCEPT !.c = v] \in [c : 0 .. 3, next : 0 .. 3]
         /\ [l EXCEPT !.c = v].c = v /\ [l EXCEPT !.c = v].next = l.next
OBVIOUS

\* One more character arrives.
LEMMA OneMoreFollows ==
  ASSUME NEW f, NEW l, Following(f, l)
  PROVE  Following(Append(f, l.next), [l EXCEPT !.next = (@ + 1) % 4])
<1>1. PICK n \in Nat, c \in 0 .. 3, m \in 0 .. 3 : n = Len(f) /\ c = l.c /\ m = l.next
  BY DEF Following
<1>2. f \in Seq(0 .. 3) /\ (\A k \in 1 .. n : f[k] = (c + k) % 4) /\ m = (c + n + 1) % 4
  BY <1>1 DEF Following
<1>3. PICK g : /\ g = Append(f, m) /\ g \in Seq(0 .. 3) /\ Len(g) = n + 1 /\ g[n + 1] = m
               /\ \A k \in 1 .. n : g[k] = f[k]
  <2>1. PICK S : S = 0 .. 3
    OBVIOUS
  <2>2. f \in Seq(S) /\ m \in S
    BY <1>2, <2>1
  <2>3. /\ Append(f, m) \in Seq(S) /\ Len(Append(f, m)) = n + 1 /\ Append(f, m)[n + 1] = m
        /\ \A k \in 1 .. n : Append(f, m)[k] = f[k]
    BY <1>1, <2>2, AppendProperties
  <2>4. QED
    BY <2>1, <2>3
<1>4. \A k \in 1 .. n + 1 : g[k] = (c + k) % 4
  <2>1. ASSUME NEW k \in 1 .. n + 1
        PROVE  g[k] = (c + k) % 4
    <3>1. k \in 1 .. n \/ k = n + 1
      BY <1>1
    <3>2. QED
      BY <1>2, <1>3, <3>1
  <2>2. QED
    BY <2>1
<1>5. (m + 1) % 4 \in 0 .. 3 /\ (m + 1) % 4 = (c + (n + 1) + 1) % 4
  <2>1. PICK a \in Nat : a = c + n + 1
    BY <1>1
  <2>2. ((a % 4) + 1) % 4 = (a + 1) % 4 /\ (m + 1) % 4 \in 0 .. 3
    <3>1. PICK b \in Nat : b = m + 1
      BY <1>1
    <3>2. b % 4 \in 0 .. 3 /\ ((a % 4) + 1) % 4 = (a + 1) % 4
      BY ModFour
    <3>3. QED
      BY <3>1, <3>2
  <2>3. a + 1 = c + (n + 1) + 1
    BY <1>1, <2>1
  <2>4. QED
    BY <1>2, <2>1, <2>2, <2>3
<1>6. PICK q : /\ q = [l EXCEPT !.next = (@ + 1) % 4] /\ q \in [c : 0 .. 3, next : 0 .. 3]
               /\ q.c = c /\ q.next = (m + 1) % 4
  <2>1. PICK v \in 0 .. 3 : v = (m + 1) % 4
    BY <1>5
  <2>2. [l EXCEPT !.next = (@ + 1) % 4] = [l EXCEPT !.next = v]
    BY <1>1, <2>1
  <2>3. QED
    BY <1>1, <2>1, <2>2, ReadNumbers DEF Following
<1>7. QED
  BY <1>1, <1>3, <1>4, <1>5, <1>6 DEF Following

\* The first one is read.
LEMMA ReadFollows ==
  ASSUME NEW f, NEW l, Following(f, l), f # << >>
  PROVE  /\ Following(Tail(f), [l EXCEPT !.c = Head(f)])
         /\ Head(f) = (l.c + 1) % 4
<1>1. PICK n \in Nat, c \in 0 .. 3, m \in 0 .. 3 : n = Len(f) /\ c = l.c /\ m = l.next
  BY DEF Following
<1>2. f \in Seq(0 .. 3) /\ (\A k \in 1 .. n : f[k] = (c + k) % 4) /\ m = (c + n + 1) % 4
  BY <1>1 DEF Following
<1>3. n > 0 /\ Head(f) = f[1] /\ f[1] \in 0 .. 3 /\ f[1] = (c + 1) % 4
  <2>1. n > 0
    BY <1>1, <1>2
  <2>2. 1 \in 1 .. n
    BY <2>1
  <2>3. QED
    BY <1>1, <1>2, <2>1, <2>2
<1>4. PICK g : /\ g = Tail(f) /\ g \in Seq(0 .. 3) /\ Len(g) = n - 1
               /\ \A k \in 1 .. n - 1 : g[k] = f[k + 1]
  <2>1. PICK S : S = 0 .. 3
    OBVIOUS
  <2>2. f \in Seq(S) /\ f # << >>
    BY <1>2, <2>1
  <2>3. Tail(f) \in Seq(S) /\ Len(Tail(f)) = n - 1 /\ \A k \in 1 .. Len(Tail(f)) : Tail(f)[k] = f[k + 1]
    BY <1>1, <2>2, HeadTailProperties
  <2>4. QED
    BY <2>1, <2>3
<1>5. PICK d \in 0 .. 3 : d = (c + 1) % 4
  BY <1>1
<1>6. \A k \in 1 .. n - 1 : g[k] = (d + k) % 4
  <2>1. ASSUME NEW k \in 1 .. n - 1
        PROVE  g[k] = (d + k) % 4
    <3>1. k + 1 \in 1 .. n /\ k \in Nat
      BY <1>1, <1>3
    <3>2. (c + (k + 1)) % 4 = (d + k) % 4
      <4>1. (((c + 1) % 4) + k) % 4 = ((c + 1) + k) % 4
        BY <1>1, <3>1, ModFour
      <4>2. (c + 1) + k = c + (k + 1)
        BY <1>1, <3>1
      <4>3. QED
        BY <1>5, <4>1, <4>2
    <3>3. QED
      BY <1>2, <1>4, <3>1, <3>2
  <2>2. QED
    BY <2>1
<1>7. m = (d + (n - 1) + 1) % 4
  <2>1. (((c + 1) % 4) + n) % 4 = ((c + 1) + n) % 4
    BY <1>1, ModFour
  <2>2. (c + 1) + n = c + n + 1
    BY <1>1
  <2>3. \A e \in 0 .. 3 : e + (n - 1) + 1 = e + n
    BY <1>1
  <2>4. d + (n - 1) + 1 = d + n
    BY <1>5, <2>3
  <2>5. QED
    BY <1>2, <1>5, <2>1, <2>2, <2>4
<1>8. PICK q : /\ q = [l EXCEPT !.c = Head(f)] /\ q \in [c : 0 .. 3, next : 0 .. 3]
               /\ q.c = d /\ q.next = m
  <2>1. Head(f) = d /\ d \in 0 .. 3
    BY <1>3, <1>5
  <2>2. l \in [c : 0 .. 3, next : 0 .. 3]
    BY DEF Following
  <2>3. /\ [l EXCEPT !.c = d] \in [c : 0 .. 3, next : 0 .. 3]
        /\ [l EXCEPT !.c = d].c = d /\ [l EXCEPT !.c = d].next = l.next
    BY <2>1, <2>2, ReadNumbers, Zenon
  <2>4. QED
    BY <1>1, <2>1, <2>3, Zenon
<1>9. QED
  BY <1>1, <1>3, <1>4, <1>5, <1>6, <1>7, <1>8 DEF Following

\* Every step.
LEMMA ReceiveStep ==
  ASSUME ReceiveInv, [Uart!Next]_Uart!vars
  PROVE  ReceiveInv' /\ Uart!InOrder
<1>1. ASSUME UNCHANGED <<rxFifo, lastRead>>
      PROVE  ReceiveInv' /\ Uart!InOrder
  BY <1>1 DEF ReceiveInv, Following, Uart!InOrder
<1>2. ASSUME NEW u \in Uarts, Uart!getc(u)
      PROVE  ReceiveInv' /\ Uart!InOrder
  <2>1. /\ rxFifo[u] # << >> /\ lastRead' = [lastRead EXCEPT ![u].c = Head(rxFifo[u])]
        /\ rxFifo' = [rxFifo EXCEPT ![u] = Tail(rxFifo[u])]
    BY <1>2 DEF Uart!getc
  <2>2. PICK f, l : f = rxFifo[u] /\ l = lastRead[u] /\ Following(f, l) /\ f # << >>
    BY <2>1 DEF ReceiveInv
  <2>3. Following(Tail(f), [l EXCEPT !.c = Head(f)]) /\ Head(f) = (l.c + 1) % 4
    BY <2>2, ReadFollows
  <2>4. /\ DOMAIN rxFifo' = Uarts /\ DOMAIN lastRead' = Uarts
        /\ rxFifo'[u] = Tail(f) /\ lastRead'[u] = [l EXCEPT !.c = Head(f)]
        /\ \A v \in Uarts : v # u => rxFifo'[v] = rxFifo[v] /\ lastRead'[v] = lastRead[v]
    BY <2>1, <2>2 DEF ReceiveInv
  <2>5. \A v \in Uarts : Following(rxFifo[v], lastRead[v])'
    <3>1. ASSUME NEW v \in Uarts
          PROVE  Following(rxFifo'[v], lastRead'[v])
      BY <2>3, <2>4 DEF ReceiveInv
    <3>2. QED
      BY <3>1 DEF Following
  <2>6. lastRead'[u].c = (lastRead[u].c + 1) % 4
    <3>1. [l EXCEPT !.c = Head(f)].c = Head(f)
      BY <2>2 DEF Following
    <3>2. QED
      BY <2>2, <2>3, <2>4, <3>1
  <2>7. QED
    BY <2>4, <2>5, <2>6 DEF ReceiveInv, Uart!InOrder
<1>3. ASSUME NEW u \in Uarts, Uart!Arrive(u)
      PROVE  ReceiveInv' /\ Uart!InOrder
  <2>1. /\ lastRead' = [lastRead EXCEPT ![u].next = (@ + 1) % 4]
        /\ rxFifo' = [rxFifo EXCEPT ![u] = Append(rxFifo[u], lastRead[u].next)]
    BY <1>3 DEF Uart!Arrive
  <2>2. PICK f, l : f = rxFifo[u] /\ l = lastRead[u] /\ Following(f, l)
    BY DEF ReceiveInv
  <2>3. Following(Append(f, l.next), [l EXCEPT !.next = (@ + 1) % 4])
    BY <2>2, OneMoreFollows
  <2>4. /\ DOMAIN rxFifo' = Uarts /\ DOMAIN lastRead' = Uarts
        /\ rxFifo'[u] = Append(f, l.next) /\ lastRead'[u] = [l EXCEPT !.next = (@ + 1) % 4]
        /\ \A v \in Uarts : v # u => rxFifo'[v] = rxFifo[v] /\ lastRead'[v] = lastRead[v]
    BY <2>1, <2>2 DEF ReceiveInv
  <2>5. \A v \in Uarts : Following(rxFifo[v], lastRead[v])'
    <3>1. ASSUME NEW v \in Uarts
          PROVE  Following(rxFifo'[v], lastRead'[v])
      BY <2>3, <2>4 DEF ReceiveInv
    <3>2. QED
      BY <3>1 DEF Following
  <2>6. lastRead'[u].c = lastRead[u].c
    BY <2>2, <2>4 DEF Following
  <2>7. QED
    BY <2>4, <2>5, <2>6 DEF ReceiveInv, Uart!InOrder
<1>4. Uart!Change => UNCHANGED <<rxFifo, lastRead>>
  BY DEF Uart!Change, Uart!InitPost, Uart!PreCallback, Uart!Empty, Uart!DrainLoop, Uart!EndPreCallback, Uart!SetRate,
         Uart!PostCallback, Uart!EndChange
<1>5. Uart!Transmit => UNCHANGED <<rxFifo, lastRead>>
  BY <1>4 DEF Uart!Transmit, Uart!InitPre, Uart!putc, Uart!set_tx_watermark, Uart!BeginChange, Uart!Tick
<1>6. Uart!Receive => ReceiveInv' /\ Uart!InOrder
  BY <1>2, <1>3 DEF Uart!Receive
<1>7. UNCHANGED Uart!vars => UNCHANGED <<rxFifo, lastRead>>
  BY DEF Uart!vars
<1>8. QED
  BY <1>1, <1>5, <1>6, <1>7 DEF Uart!Next

\* Nothing has arrived.
LEMMA ReceiveInitInv ==
  ASSUME Uart!Init
  PROVE  ReceiveInv
<1>1. rxFifo = [u \in Uarts |-> << >>] /\ lastRead = [u \in Uarts |-> [c |-> 3, next |-> 0]]
  BY DEF Uart!Init
<1>2. Following(<< >>, [c |-> 3, next |-> 0])
  <2>1. << >> \in Seq(0 .. 3) /\ Len(<< >>) = 0 /\ (3 + 0 + 1) % 4 = 0
    OBVIOUS
  <2>2. PICK l : l = [c |-> 3, next |-> 0] /\ l \in [c : 0 .. 3, next : 0 .. 3] /\ l.c = 3 /\ l.next = 0
    <3>1. \A v, n \in 0 .. 3 : [c |-> v, next |-> n] \in [c : 0 .. 3, next : 0 .. 3]
      OBVIOUS
    <3>2. 3 \in 0 .. 3 /\ 0 \in 0 .. 3
      OBVIOUS
    <3>3. [c |-> 3, next |-> 0] \in [c : 0 .. 3, next : 0 .. 3]
      BY <3>1, <3>2, Zenon
    <3>4. [c |-> 3, next |-> 0].c = 3 /\ [c |-> 3, next |-> 0].next = 0
      OBVIOUS
    <3>5. QED
      BY <3>3, <3>4, Zenon
  <2>3. QED
    BY <2>1, <2>2 DEF Following
<1>3. QED
  BY <1>1, <1>2 DEF ReceiveInv

-----------------------------------------------------------------------------

\* Whenever the program runs, every UART that was initialised divides the clock's present rate to
\* its baud rate: its second callback has followed every change (sifive_uart0.c:136-151, 182-185).
THEOREM DivisorsFit ==
  ASSUME Uart!Clock!ClientsAssumption, Uart!RatesAssumption
  PROVE  Uart!Spec => []Uart!DivisorFitsRate
<1>1. Uart!Init => ClockInv /\ Registrations /\ UartInv
  BY Clients, UartInitClock, ClockInitInv, UartInitInv
<1>2. ClockInv /\ Registrations /\ UartInv /\ [Uart!Next]_Uart!vars => (ClockInv /\ Registrations /\ UartInv)'
  BY Clients, UartStepsClock, ClockNextInv, UartNextInv
<1>3. UartInv => Uart!DivisorFitsRate
  <2>1. SUFFICES ASSUME UartInv, uartAt = "idle", NEW u \in up PROVE (divisor[u] + 1) * 1 = speed
    BY DEF Uart!DivisorFitsRate, Uart!Idle, Uart!Baud
  <2>2. divisor[u] + 1 = speed /\ speed \in Nat
    BY <2>1 DEF UartInv, Uart!RatesAssumption
  <2>3. QED
    BY <2>2
<1>4. QED
  BY <1>1, <1>2, <1>3, PTL DEF Uart!Spec

\* Only a change of the rate changes it, once all first callbacks have returned.
LEMMA RateStep ==
  ASSUME UartsAssumption, Uart!RatesAssumption, ClockInv, Registrations, UartInv, [Uart!Next]_Uart!vars
  PROVE  Uart!DrainedFirst /\ Uart!RoomFirst
<1>1. ASSUME Uart!SetRate
      PROVE  Uart!DrainedFirst
  <2>1. uartAt = "pre" /\ cur = NoUart /\ UNCHANGED up
    BY <1>1 DEF Uart!SetRate
  <2>2. ran["pre"] = registered["pre"]
    BY <2>1, ClockInvCalls DEF ClockAt, ClockCur
  <2>3. \A u \in up : Drained(u)
    BY <2>1, <2>2 DEF UartInv, Registrations
  <2>4. QED
    BY <2>3 DEF Uart!DrainedFirst, Drained
<1>2. Uart!Change /\ ~ Uart!SetRate => speed' = speed
  BY DEF Uart!Change, Uart!InitPost, Uart!PreCallback, Uart!Empty, Uart!DrainLoop, Uart!EndPreCallback,
         Uart!PostCallback, Uart!EndChange, Uart!clock
<1>3. Uart!Next /\ ~ Uart!SetRate => speed' = speed
  BY <1>2 DEF Uart!Next, Uart!Transmit, Uart!Receive, Uart!InitPre, Uart!putc, Uart!set_tx_watermark, Uart!BeginChange,
              Uart!Tick, Uart!getc, Uart!Arrive, Uart!clock
<1>4. UNCHANGED Uart!vars => speed' = speed
  BY DEF Uart!vars, Uart!clock
<1>5. Uart!DrainedFirst
  BY <1>1, <1>3, <1>4 DEF Uart!DrainedFirst
<1>6. Uart!RoomFirst
  BY UartNextInv DEF UartInv, Registrations, Uart!RoomFirst
<1>7. QED
  BY <1>5, <1>6

\* No character is cut off or lost: the rate changes only when no UART has one left to send, none is
\* written to a full FIFO, and what arrived is returned once and in order
\* (sifive_uart0.c:108-129, 153-180).
THEOREM CharactersAreKept ==
  ASSUME Uart!Clock!ClientsAssumption, Uart!RatesAssumption
  PROVE  Uart!Spec => [][Uart!DrainedFirst /\ Uart!RoomFirst /\ Uart!InOrder]_Uart!vars
<1>1. Uart!Init => ClockInv /\ Registrations /\ UartInv /\ ReceiveInv
  BY Clients, UartInitClock, ClockInitInv, UartInitInv, ReceiveInitInv
<1>2. ClockInv /\ Registrations /\ UartInv /\ ReceiveInv /\ [Uart!Next]_Uart!vars =>
        (ClockInv /\ Registrations /\ UartInv /\ ReceiveInv)'
  BY Clients, UartStepsClock, ClockNextInv, UartNextInv, ReceiveStep
<1>3. ClockInv /\ Registrations /\ UartInv /\ ReceiveInv /\ [Uart!Next]_Uart!vars =>
        Uart!DrainedFirst /\ Uart!RoomFirst /\ Uart!InOrder
  BY Clients, RateStep, ReceiveStep
<1>4. QED
  BY <1>1, <1>2, <1>3, PTL DEF Uart!Spec

-----------------------------------------------------------------------------
(* The devices together. *)

\* Every driver begins as in its own specification.
LEMMA InitDrivers ==
  InitDevices => /\ Uart!Init /\ Spi!Init /\ Rate!Init /\ I2c!Init /\ Init
                 /\ Pmp!PmpInit /\ Hpm!HpmInit /\ Wdog!WdogInit
  BY Zenon DEF InitDevices

\* A step of the devices is one of every driver, or none.
LEMMA DriverSteps ==
  ASSUME [NextDevices]_all
  PROVE  /\ [Uart!Next]_Uart!vars /\ [Spi!Next]_Spi!vars /\ [Rate!Next]_Rate!vars /\ [I2c!Next]_I2c!vars
         /\ [Next]_vars
         /\ [Pmp!PmpNext]_(Pmp!pmpVars) /\ [Hpm!HpmNext]_Hpm!hpmVars /\ [Wdog!WdogNext]_Wdog!wdogVars
<1>1. UNCHANGED uartVars => UNCHANGED Uart!vars
  BY DEF uartVars, Uart!vars, Uart!clock
<1>2. UNCHANGED spiVars => UNCHANGED Spi!vars
  BY DEF spiVars, Spi!vars, Spi!call
<1>3. UNCHANGED rateVars => UNCHANGED Rate!vars
  BY DEF rateVars, Rate!vars
<1>4. UNCHANGED i2cVars => UNCHANGED I2c!vars
  BY DEF i2cVars, I2c!vars
<1>5. UNCHANGED pmpVars => UNCHANGED Pmp!pmpVars
  BY DEF pmpVars, Pmp!pmpVars
<1>6. UNCHANGED hpmVars => UNCHANGED Hpm!hpmVars
  BY DEF hpmVars, Hpm!hpmVars
<1>7. UNCHANGED wdogVars => UNCHANGED Wdog!wdogVars
  BY DEF wdogVars, Wdog!wdogVars
<1>8. UNCHANGED buses => UNCHANGED <<spiVars, rateVars, i2cVars>>
  BY DEF buses
<1>9. UNCHANGED registers => UNCHANGED <<pmpVars, hpmVars, wdogVars>>
  BY DEF registers
<1>10. Uart!Transmit \/ Receive => Uart!Next
  BY DEF Receive, Uart!Next, Uart!Transmit, Uart!Change
<1>11. CASE Uart1(Uart!Transmit) \/ Uart1(Receive)
  <2>1. Uart!Next /\ UNCHANGED <<vars, buses, registers>>
    BY <1>10, <1>11 DEF Uart1
  <2>2. QED
    BY <1>2, <1>3, <1>4, <1>5, <1>6, <1>7, <1>8, <1>9, <2>1
<1>12. CASE Spi1(Spi!Next)
  <2>1. Spi!Next /\ UNCHANGED <<vars, uartVars, rateVars, i2cVars, registers>>
    BY <1>12 DEF Spi1
  <2>2. QED
    BY <1>1, <1>3, <1>4, <1>5, <1>6, <1>7, <1>9, <2>1
<1>13. CASE Rate!Next /\ UNCHANGED <<part, vars, uartVars, spiVars, i2cVars, registers>>
  BY <1>1, <1>2, <1>4, <1>5, <1>6, <1>7, <1>9, <1>13
<1>14. CASE I2c1(I2c!Next)
  <2>1. I2c!Next /\ UNCHANGED <<vars, uartVars, spiVars, rateVars, registers>>
    BY <1>14 DEF I2c1
  <2>2. QED
    BY <1>1, <1>2, <1>3, <1>5, <1>6, <1>7, <1>9, <2>1
<1>15. CASE Pll1(Next)
  <2>1. Next /\ UNCHANGED <<uartVars, buses, registers>>
    BY <1>15 DEF Pll1
  <2>2. QED
    BY <1>1, <1>2, <1>3, <1>4, <1>5, <1>6, <1>7, <1>8, <1>9, <2>1
<1>16. CASE Pmp!PmpNext /\ UNCHANGED <<part, vars, uartVars, buses, hpmVars, wdogVars>>
  BY <1>1, <1>2, <1>3, <1>4, <1>6, <1>7, <1>8, <1>16
<1>17. CASE Hpm!HpmNext /\ UNCHANGED <<part, vars, uartVars, buses, pmpVars, wdogVars>>
  BY <1>1, <1>2, <1>3, <1>4, <1>5, <1>7, <1>8, <1>17
<1>18. CASE Wdog1(Wdog!WdogNext)
  <2>1. Wdog!WdogNext /\ UNCHANGED <<vars, uartVars, buses, pmpVars, hpmVars>>
    BY <1>18 DEF Wdog1
  <2>2. QED
    BY <1>1, <1>2, <1>3, <1>4, <1>5, <1>6, <1>8, <2>1
<1>19. CASE UNCHANGED all
  <2>1. UNCHANGED <<vars, uartVars, buses, registers>>
    BY <1>19 DEF all
  <2>2. QED
    BY <1>1, <1>2, <1>3, <1>4, <1>5, <1>6, <1>7, <1>8, <1>9, <2>1
<1>20. QED
  BY <1>11, <1>12, <1>13, <1>14, <1>15, <1>16, <1>17, <1>18, <1>19 DEF NextDevices

\* The UARTs' and the clock's invariants.
SerialInv == ClockInv /\ Registrations /\ UartInv /\ ReceiveInv

LEMMA SerialInitInv ==
  ASSUME DevicesAssumption, Uart!Init
  PROVE  SerialInv
  BY Clients, UartInitClock, ClockInitInv, UartInitInv, ReceiveInitInv DEF DevicesAssumption, SerialInv

LEMMA SerialNextInv ==
  ASSUME DevicesAssumption, SerialInv, [Uart!Next]_Uart!vars
  PROVE  SerialInv' /\ [Uart!Clock!Next]_Uart!Clock!vars
  BY Clients, UartStepsClock, ClockNextInv, UartNextInv, ReceiveStep DEF DevicesAssumption, SerialInv

\* The UARTs' divisors.
LEMMA DivisorFits ==
  ASSUME DevicesAssumption, UartInv
  PROVE  Uart!DivisorFitsRate
<1>1. SUFFICES ASSUME uartAt = "idle", NEW u \in up PROVE (divisor[u] + 1) * 1 = speed
  BY DEF Uart!DivisorFitsRate, Uart!Idle, Uart!Baud
<1>2. divisor[u] + 1 = speed /\ speed \in Nat
  BY <1>1 DEF UartInv, DevicesAssumption, Uart!RatesAssumption
<1>3. QED
  BY <1>2

\* With the other devices the UARTs' callbacks are still the clock's: no registration loses one,
\* and a change of the rate calls them all (metal/clock.h:61-136).
THEOREM DevicesImplementClock ==
  ASSUME DevicesAssumption
  PROVE  SpecDevices => ImplementsClock
<1>1. InitDevices => SerialInv /\ Uart!Clock!Init
  BY InitDrivers, SerialInitInv, Clients, UartInitClock DEF DevicesAssumption
<1>2. SerialInv /\ [NextDevices]_all => SerialInv' /\ [Uart!Clock!Next]_Uart!Clock!vars
  BY DriverSteps, SerialNextInv
<1>3. SpecDevices => Uart!Clock!Safe
  BY <1>1, <1>2, PTL DEF SpecDevices, Uart!Clock!Safe
<1>4. Uart!Clock!Safe => []Uart!Clock!ListsHoldRegistered /\ Uart!Clock!EveryCallbackRuns
  BY EveryCallbackIsCalled DEF DevicesAssumption
<1>5. QED
  BY <1>3, <1>4 DEF ImplementsClock, Uart!ImplementsClock

\* Nothing under way is cut off or lost: no character that a UART sends or receives when the rate
\* changes, the FIFO is full or the program reads late, and no command of the I2C
\* (sifive_uart0.c:73-129, 160-179, sifive_i2c0.c:33-49).
THEOREM NothingIsCutOff ==
  ASSUME DevicesAssumption
  PROVE  SpecDevices => NothingCutOff
<1>1. InitDevices => SerialInv /\ DoneInv
  BY InitDrivers, SerialInitInv DEF I2c!Init, DoneInv
<1>2. SerialInv /\ DoneInv /\ [NextDevices]_all => (SerialInv /\ DoneInv)'
  BY DriverSteps, SerialNextInv, DoneNext
<1>3. SerialInv /\ DoneInv /\ [NextDevices]_all =>
        /\ Uart!DrainedFirst /\ Uart!RoomFirst /\ Uart!InOrder
        /\ tip' # I2c!None /\ tip' # tip => tip = I2c!None
  BY DriverSteps, Clients, RateStep, ReceiveStep, DoneNext DEF DevicesAssumption, SerialInv
<1>4. QED
  BY <1>1, <1>2, <1>3, PTL DEF SpecDevices, NothingCutOff

\* After every change a rate is what was asked of it: the UARTs', the PLL's, and the SPI's
\* wherever the present clock can be divided to it (sifive_uart0.c:136-185, sifive_spi0.c:334-380, sifive_fe310-g000_pll.c:193-273).
THEOREM RatesFollow ==
  ASSUME DevicesAssumption, ExactAssumption
  PROVE  SpecDevices => []RateFollows
<1>1. InitDevices => SerialInv /\ RateInv /\ Choosing
  BY InitDrivers, SerialInitInv, RateInitInv, InitChoosing DEF DevicesAssumption
<1>2. SerialInv /\ RateInv /\ Choosing /\ [NextDevices]_all => (SerialInv /\ RateInv /\ Choosing)'
  BY DriverSteps, SerialNextInv, RateNextInv, NextChoosing DEF DevicesAssumption
<1>3. SerialInv /\ RateInv /\ Choosing => RateFollows
  BY DivisorFits DEF SerialInv, RateInv, Choosing, RateFollows
<1>4. QED
  BY <1>1, <1>2, <1>3, PTL DEF SpecDevices

\* What a call returns is its own: the frames of a transfer and the bytes of an I2C call
\* (sifive_spi0.c:196-206, sifive_i2c0.c:164-216).
THEOREM DataAreTheirOwn ==
  ASSUME DevicesAssumption
  PROVE  SpecDevices => []DataIsOwn
<1>1. InitDevices => TransferInv /\ ReadInv
  BY InitDrivers, TransferInit, ReadInitInv DEF DevicesAssumption
<1>2. TransferInv /\ ReadInv /\ [NextDevices]_all => (TransferInv /\ ReadInv)'
  BY DriverSteps, TransferNext, ReadNextInv DEF DevicesAssumption
<1>3. TransferInv /\ ReadInv => DataIsOwn
  BY TransferOwn DEF ReadInv, DataIsOwn, DevicesAssumption
<1>4. QED
  BY <1>1, <1>2, <1>3, PTL DEF SpecDevices

\* Between calls the buses are as the calls leave them, of the SPI and of the I2C, after calls that
\* gave up as well (sifive_spi0.c:140-215, sifive_i2c0.c:33-252).
THEOREM BusesAsPromised ==
  ASSUME DevicesAssumption
  PROVE  SpecDevices => []BusAsPromised
<1>1. InitDevices => LeftInv /\ TransferInv /\ BusInv
  BY InitDrivers, LeftInit, TransferInit, BusInitInv DEF DevicesAssumption
<1>2. LeftInv /\ TransferInv /\ BusInv /\ [NextDevices]_all => (LeftInv /\ TransferInv /\ BusInv)'
  BY DriverSteps, LeftNext, TransferNext, BusNextInv DEF DevicesAssumption
<1>3. LeftInv /\ TransferInv /\ BusInv => BusAsPromised
  BY TransferOwn, BusInvReturns DEF LeftInv, BusAsPromised, DevicesAssumption
<1>4. QED
  BY <1>1, <1>2, <1>3, PTL DEF SpecDevices

\* The core clock is never on a PLL that is not locked, whatever the other devices do
\* (sifive_fe310-g000_pll.c:306-347 and 364-395).
THEOREM DevicesNeverUnlocked == SpecDevices => []NeverUnlocked
<1>1. InitDevices => IInv
  BY InitDrivers, InitIInv
<1>2. IInv /\ [NextDevices]_all => IInv'
  BY DriverSteps, BeginIInv, DriverIInv, DeviceIInv, StutterIInv DEF Next
<1>3. IInv => NeverUnlocked
  BY DEF IInv
<1>4. QED
  BY <1>1, <1>2, <1>3, PTL DEF SpecDevices

\* A region is as its last call asked, for every granularity but eight bytes (pmp.c:54-63, 109-259).
THEOREM DevicesRegions ==
  ASSUME DevicesAssumption, G # 1
  PROVE  SpecDevices => []RegionAsAsked
<1>1. InitDevices => PmpInv
  BY InitDrivers, PmpInitInv DEF DevicesAssumption
<1>2. PmpInv /\ [NextDevices]_all => PmpInv'
  BY DriverSteps, PmpNextInv DEF DevicesAssumption
<1>3. PmpInv => RegionAsAsked
  BY ShownIsCovered DEF RegionAsAsked
<1>4. QED
  BY <1>1, <1>2, <1>3, PTL DEF SpecDevices

\* A counter that is read was at the value at a moment of the call (hpm.c:41-62, 245-326).
THEOREM DevicesCount ==
  ASSUME DevicesAssumption
  PROVE  SpecDevices => CountIsAMoment
<1>1. InitDevices => Counting
  BY InitDrivers, CountingInit DEF DevicesAssumption
<1>2. Counting /\ [NextDevices]_all => Counting' /\ [Moment]_Hpm!hpmVars
  BY DriverSteps, CountingNext, CountingMoment DEF DevicesAssumption
<1>3. QED
  BY <1>1, <1>2, PTL DEF SpecDevices, CountIsAMoment, Hpm!CountIsAMoment, Moment

\* The watchdog is as asked between calls, and never matches early (sifive_wdog0.c:30-38, 119-201).
THEOREM DevicesWatchdog ==
  ASSUME DevicesAssumption
  PROVE  SpecDevices => []WatchdogAsAsked
<1>1. InitDevices => WdogInv
  BY InitDrivers, WdogInitInv DEF DevicesAssumption
<1>2. WdogInv /\ [NextDevices]_all => WdogInv'
  BY DriverSteps, WdogNextInv DEF DevicesAssumption
<1>3. WdogInv => WatchdogAsAsked
  BY WdogInvAsAsked, WdogInvPatient DEF WatchdogAsAsked, DevicesAssumption
<1>4. QED
  BY <1>1, <1>2, <1>3, PTL DEF SpecDevices

=================================================================================
