--------------------------------- MODULE Plic ---------------------------------
(***************************************************************************)
(* The platform-level interrupt controller (freedom-metal, riscv_plic0.c)  *)
(* shared by several harts, and its driver: enables that are words changed *)
(* by a load and a store, handlers that claim, serve and complete, and the *)
(* harts' programs, which the handlers preempt.                            *)
(***************************************************************************)
EXTENDS Integers, FiniteSets, FiniteSetsExt

CONSTANTS
  Harts,         \* harts 0 .. Harts - 1
  Id,            \* interrupts, positive numbers, in one word of enables
  ContextOf,     \* __metal_driver_sifive_plic0_context_ids
  Contexts,      \* contexts of the PLIC, 0 .. Contexts - 1
  MaxPriority,   \* __metal_driver_sifive_plic0_max_priority
  Clients        \* programs: [sources, priorities, thresholds, nested, affinity]

Hart == 0 .. Harts - 1
Context == 0 .. Contexts - 1
Level == {"main", "isr"}       \* the program of a hart, and its handler

\* Every hart has a context of its own.
ContextAssumption ==
  ContextOf \in [Hart -> Context] /\ \A h, k \in Hart : ContextOf[h] = ContextOf[k] => h = k
PriorityAssumption ==
  /\ Id \subseteq Nat \ {0} /\ MaxPriority \in Nat
  /\ \A p \in Clients : p.sources \subseteq Id /\ p.priorities \subseteq Nat
\* What enable (its context is the hart's number) and register (its priority is 2) rely on.
OwnContexts == \A h \in Hart : h \in Context /\ ContextOf[h] = h
NotZero == MaxPriority > 2 /\ \A p \in Clients : 0 \notin p.priorities

VARIABLES
  client,    \* the program that runs: the sources that it uses, the priorities and thresholds
             \* that it sets, whether its handlers enable and disable sources too, and
             \* whether it calls the affinity functions
  up,        \* the driver is initialised
  ie,        \* the enable word of each context, as a set
  prio,      \* priority of each source
  thr,       \* threshold of each context
  table,     \* metal_exint_table: "none", "default" or "isr"
  line,      \* the device asks for service
  claimed,   \* claimed and not yet completed
  mie,       \* the harts whose external interrupt is enabled
  isr,       \* each hart's handler: [at, id]
  op,        \* each level's enable or disable between its load and its store
  asked,     \* the sources that each context was told to enable
  got,       \* the last result of affinity_get_threshold, and the threshold then
  halted     \* metal_shutdown

vars == <<client, up, ie, prio, thr, table, line, claimed, mie, isr, op, asked, got, halted>>

None == [ctx |-> 0, id |-> 0, on |-> FALSE, word |-> {}]
Free == [at |-> "off", id |-> 0]

Init ==
  /\ client \in Clients
  /\ up = FALSE /\ halted = FALSE
  /\ ie = [c \in Context |-> {}] /\ thr = [c \in Context |-> 0]
  /\ prio = [i \in Id |-> 0] /\ table = [i \in Id |-> "none"]
  /\ line = [i \in Id |-> FALSE] /\ claimed = [i \in Id |-> FALSE]
  /\ mie = {} /\ isr = [h \in Hart |-> Free]
  /\ op = [h \in Hart |-> [l \in Level |-> None]]
  /\ asked = [c \in Context |-> {}]
  /\ got = [shown |-> 0, was |-> 0]

-----------------------------------------------------------------------------
(* The controller. *)

Pending(c) == {i \in Id : line[i] /\ ~claimed[i] /\ i \in ie[c] /\ prio[i] > 0}
MEIP(c) == \E i \in Pending(c) : prio[i] > thr[c]
\* A claim returns the lowest source of the highest priority, or none.
Claimable(c) ==
  IF Pending(c) = {} THEN 0
  ELSE Min({i \in Pending(c) : \A j \in Pending(c) : prio[j] <= prio[i]})

Raise(i) ==
  /\ up /\ ~halted /\ ~line[i]
  /\ line' = [line EXCEPT ![i] = TRUE]
  /\ UNCHANGED <<up, ie, prio, thr, table, claimed, mie, isr, op, asked, got, halted>>

-----------------------------------------------------------------------------
(* Calls of the program.  They return -1, and do nothing, for a source that *)
(* the controller does not have.                                            *)

Ready(h) == up /\ ~halted /\ isr[h].at = "off" /\ op[h]["main"] = None

\* All parents' registers and the tables are cleared, and the external interrupt is
\* enabled once for each parent, but always in the MIE of the hart that runs this.
plic0_init(h) ==
  /\ ~up /\ up' = TRUE
  /\ mie' = {h}
  /\ UNCHANGED <<ie, prio, thr, table, line, claimed, isr, op, asked, got, halted>>

\* metal_interrupt_enable of the external interrupt, by a hart for itself
cpu_enable(h) ==
  /\ Ready(h) /\ h \notin mie /\ mie' = mie \cup {h}
  /\ UNCHANGED <<up, ie, prio, thr, table, line, claimed, isr, op, asked, got, halted>>

\* Slip: the highest legal priority is one less.
WithPriority_short(i, p) == IF MaxPriority > 0 /\ p < MaxPriority - 1 THEN [prio EXCEPT ![i] = p] ELSE prio
WithPriority(i, p) == IF MaxPriority > 0 /\ p < MaxPriority THEN [prio EXCEPT ![i] = p] ELSE prio

set_priority(h, i, p) ==
  /\ Ready(h) /\ prio' = WithPriority(i, p)
  /\ UNCHANGED <<up, ie, thr, table, line, claimed, mie, isr, op, asked, got, halted>>

\* The failure of set_priority is not looked at.
register(h, i, f) ==
  /\ Ready(h)
  /\ prio' = WithPriority(i, IF f = "isr" THEN 2 ELSE 1)
  /\ table' = [table EXCEPT ![i] = f]
  /\ UNCHANGED <<up, ie, thr, line, claimed, mie, isr, op, asked, got, halted>>

\* The hart's number is the context's.
set_threshold(h, t) ==
  /\ Ready(h) /\ thr' = [thr EXCEPT ![h] = t]
  /\ UNCHANGED <<up, ie, prio, table, line, claimed, mie, isr, op, asked, got, halted>>

\* __metal_plic0_enable: the word is loaded...
Load(h, l, i, on) ==
  /\ op[h][l] = None
  /\ op' = [op EXCEPT ![h][l] = [ctx |-> h, id |-> i, on |-> on, word |-> ie[h]]]
  /\ UNCHANGED <<up, ie, prio, thr, table, line, claimed, mie, isr, asked, got, halted>>

\* The handlers are there before their source is enabled.
enable(h, i) == Ready(h) /\ table[i] # "none" /\ Load(h, "main", i, TRUE)
disable(h, i) == Ready(h) /\ Load(h, "main", i, FALSE)

With(word, i, on) == IF on THEN word \cup {i} ELSE word \ {i}
Running(h, l) == ~halted /\ (l = "main" => isr[h].at = "off")

\* Slip: the other enables of the word are dropped.
Store_alone(h, l) ==
  LET o == op[h][l] IN
  /\ o # None /\ Running(h, l)
  /\ ie' = [ie EXCEPT ![o.ctx] = With({}, o.id, o.on)]
  /\ asked' = [asked EXCEPT ![ContextOf[h]] = With(@, o.id, o.on)]
  /\ op' = [op EXCEPT ![h][l] = None]
  /\ UNCHANGED <<up, prio, thr, table, line, claimed, mie, isr, got, halted>>

\* ...and stored with the source's bit changed.
Store(h, l) ==
  LET o == op[h][l] IN
  /\ o # None /\ Running(h, l)
  /\ ie' = [ie EXCEPT ![o.ctx] = With(o.word, o.id, o.on)]
  /\ asked' = [asked EXCEPT ![ContextOf[h]] = With(@, o.id, o.on)]
  /\ op' = [op EXCEPT ![h][l] = None]
  /\ UNCHANGED <<up, prio, thr, table, line, claimed, mie, isr, got, halted>>

\* metal_interrupt_affinity_enable and _disable: bit 0 is skipped, and reported as done.
affinity(h, bits, i, on) ==
  /\ client.affinity /\ Ready(h) /\ table[i] # "none"
  /\ ie' = [c \in Context |-> IF c \in bits \ {0} THEN With(ie[c], i, on) ELSE ie[c]]
  /\ asked' = [c \in Context |-> IF c \in bits THEN With(asked[c], i, on) ELSE asked[c]]
  /\ UNCHANGED <<up, prio, thr, table, line, claimed, mie, isr, op, got, halted>>

affinity_set_threshold(h, bits, t) ==
  /\ client.affinity /\ Ready(h)
  /\ thr' = [c \in Context |-> IF c \in bits \ {0} THEN t ELSE thr[c]]
  /\ UNCHANGED <<up, ie, prio, table, line, claimed, mie, isr, op, asked, got, halted>>

\* What was read is not returned.
affinity_get_threshold(h, c) ==
  /\ client.affinity /\ Ready(h)
  /\ got' = [shown |-> 0, was |-> thr[c]]
  /\ UNCHANGED <<up, ie, prio, thr, table, line, claimed, mie, isr, op, asked, halted>>

-----------------------------------------------------------------------------
(* __metal_plic0_handler. *)

Enter(h) ==
  /\ up /\ ~halted /\ isr[h].at = "off" /\ h \in mie /\ MEIP(ContextOf[h])
  /\ isr' = [isr EXCEPT ![h].at = "claim"]
  /\ UNCHANGED <<up, ie, prio, thr, table, line, claimed, mie, op, asked, got, halted>>

Claim(h) ==
  LET i == Claimable(ContextOf[h]) IN
  /\ ~halted /\ isr[h].at = "claim"
  /\ isr' = [isr EXCEPT ![h] = [at |-> "run", id |-> i]]
  /\ claimed' = IF i = 0 THEN claimed ELSE [claimed EXCEPT ![i] = TRUE]
  /\ UNCHANGED <<up, ie, prio, thr, table, line, mie, op, asked, got, halted>>

\* Slip: the source is completed before its handler is called.
Serve_late(h) ==
  /\ ~halted /\ isr[h].at = "run" /\ isr[h].id \in Id /\ claimed[isr[h].id]
  /\ claimed' = [claimed EXCEPT ![isr[h].id] = FALSE]
  /\ UNCHANGED <<up, ie, prio, thr, table, line, mie, isr, op, asked, got, halted>>

\* The handler of the claimed source; the default one shuts the system down.
Serve(h) ==
  LET i == isr[h].id IN
  /\ ~halted /\ isr[h].at = "run"
  /\ isr' = [isr EXCEPT ![h].at = "end"]
  /\ IF i = 0 THEN UNCHANGED <<line, halted>>
     ELSE IF table[i] = "none" THEN UNCHANGED <<line, halted>>
     ELSE IF table[i] = "default" THEN halted' = TRUE /\ UNCHANGED line
     ELSE line' = [line EXCEPT ![i] = FALSE] /\ UNCHANGED halted
  /\ UNCHANGED <<up, ie, prio, thr, table, claimed, mie, op, asked, got>>

\* The program's handler enables or disables a source of its own hart.
NestedLoad(h) ==
  /\ client.nested /\ ~halted /\ isr[h].at = "end"
  /\ \E i \in client.sources, on \in BOOLEAN : table[i] # "none" /\ Load(h, "isr", i, on)

\* Slip: the source is not completed.
Complete_not(h) ==
  /\ ~halted /\ isr[h].at = "end" /\ op[h]["isr"] = None
  /\ isr' = [isr EXCEPT ![h] = Free]
  /\ UNCHANGED <<up, ie, prio, thr, table, line, claimed, mie, op, asked, got, halted>>

Complete(h) ==
  LET i == isr[h].id IN
  /\ ~halted /\ isr[h].at = "end" /\ op[h]["isr"] = None
  /\ claimed' = IF i = 0 THEN claimed ELSE [claimed EXCEPT ![i] = FALSE]
  /\ isr' = [isr EXCEPT ![h] = Free]
  /\ UNCHANGED <<up, ie, prio, thr, table, line, mie, op, asked, got, halted>>

-----------------------------------------------------------------------------

Program(h) ==
  \/ cpu_enable(h) \/ Store(h, "main")
  \/ \E i \in client.sources :
       \/ \E f \in {"isr", "default"} : register(h, i, f)
       \/ \E p \in client.priorities : set_priority(h, i, p)
       \/ enable(h, i) \/ disable(h, i)
       \/ \E bits \in SUBSET Context, on \in BOOLEAN : affinity(h, bits, i, on)
  \/ \E t \in client.thresholds : set_threshold(h, t)
  \/ \E bits \in SUBSET Context, t \in client.thresholds : affinity_set_threshold(h, bits, t)
  \/ \E c \in Context : affinity_get_threshold(h, c)
Handler(h) == Enter(h) \/ Claim(h) \/ Serve(h) \/ NestedLoad(h) \/ Store(h, "isr") \/ Complete(h)
Next ==
  /\ UNCHANGED client
  /\ \/ plic0_init(0) \/ \E i \in client.sources : Raise(i)
     \/ \E h \in Hart : Program(h) \/ Handler(h)
Handling == UNCHANGED client /\ \E h \in Hart : Handler(h)

\* While some hart can be interrupted or go on with its handler, some hart does so.
Spec == Init /\ [][Next]_vars /\ WF_vars(Handling)

-----------------------------------------------------------------------------
(* Properties. *)

\* However many harts an interrupt is sent to, one at a time serves a source, and it does
\* so until it has completed it.
ServedByOne ==
  \A h, k \in Hart :
    isr[h].id = isr[k].id /\ isr[h].id # 0 => h = k /\ claimed[isr[h].id]

\* A source with a handler can interrupt: its priority is not zero.
NeverMute == \A i \in Id : table[i] = "isr" => prio[i] > 0

\* Of a program whose handlers leave the enables alone, and that does not call the affinity
\* functions: while no enable or disable is under way, the enable words are what the calls,
\* which all reported success, have asked for, for the context of the caller's hart.
EnabledAsAsked ==
  ~client.nested /\ ~client.affinity =>
    \A c \in Context :
      (\A h \in Hart, l \in Level : op[h][l] # None => op[h][l].ctx # c /\ ContextOf[h] # c)
        => ie[c] = asked[c]

\* A claim that finds nothing, because another hart was faster, is no harm: as long as a
\* device can interrupt some hart, handlers go on serving, or an unexpected source stops
\* the system.  (Which source is served is the priorities' affair: a low one may starve.)
Deliverable(i) ==
  /\ line[i] /\ table[i] = "isr"
  /\ \E h \in mie : i \in ie[ContextOf[h]] /\ prio[i] > thr[ContextOf[h]]

===============================================================================
