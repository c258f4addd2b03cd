------------------------------ MODULE Interrupts ------------------------------
(***************************************************************************)
(* The interrupt controllers: the machine timer (ClintTimer), the PLIC,    *)
(* the CLIC, and a hart's own tables with its CLINT (RiscvCpu).  They      *)
(* share no state, so one of them runs at a time, and the others stay as   *)
(* they began.                                                             *)
(***************************************************************************)
EXTENDS ClintTimer

CONSTANTS
  Harts, Id, ContextOf, Contexts, MaxPriority, Clients,  \* of Plic
  Cpu, Local, IntBits, MaxLevels, Users,                 \* of Clic
  Clint, Wired, Codes, Functions, Size, Code, Starts     \* of RiscvCpu

VARIABLES
  part,      \* the controller that runs
  client, plicUp, ie, prio, thr, table, line, claimed, mie, isr, op, asked, got, halted,
  user, ready, nmbits, nlbits, nvbit, ctl, enabled, pending, mtvec, handler, sub_int, mtvt,
  levelled, given, ran,
  inited, tvec, gie, saved, mieb, pc, mepc, ints, excs, registering, trap, served, lines,
  registered, caught, stopped

Plic == INSTANCE Plic WITH up <- plicUp
Clic == INSTANCE Clic
Hart == INSTANCE RiscvCpu WITH
  Local <- Wired, mtvec <- tvec, mie <- mieb, reg <- registering, at <- trap, given <- registered

ControllersAssumption ==
  /\ Plic!PriorityAssumption /\ Plic!OwnContexts /\ Plic!NotZero
  /\ Clic!IdAssumption /\ Clic!BytesAssumption /\ Clic!NullAssumption
  /\ Hart!CodeAssumption /\ Hart!FunctionsAssumption

plicVars ==
  <<client, plicUp, ie, prio, thr, table, line, claimed, mie, isr, op, asked, got, halted>>
clicVars ==
  <<user, ready, nmbits, nlbits, nvbit, ctl, enabled, pending, mtvec, handler, sub_int, mtvt,
    levelled, given, ran>>
hartVars ==
  <<inited, tvec, gie, saved, mieb, pc, mepc, ints, excs, registering, trap, served, lines,
    registered, caught, stopped>>
all == <<part, vars, plicVars, clicVars, hartVars>>

InitInterrupts ==
  /\ part \in {"timer", "plic", "clic", "hart"}
  /\ Init /\ Plic!Init /\ Clic!ClicInit /\ Hart!CpuInit
  \* It does not matter which program does not run.
  /\ part # "plic" => client = CHOOSE p \in Clients : TRUE
  /\ part # "clic" => user = CHOOSE p \in Users : TRUE

NextInterrupts ==
  /\ UNCHANGED part
  /\ \/ part = "timer" /\ Next /\ UNCHANGED <<plicVars, clicVars, hartVars>>
     \/ part = "plic" /\ Plic!Next /\ UNCHANGED <<vars, clicVars, hartVars>>
     \/ part = "clic" /\ Clic!ClicNext /\ UNCHANGED <<vars, plicVars, hartVars>>
     \/ part = "hart" /\ Hart!CpuNext /\ UNCHANGED <<vars, plicVars, clicVars>>

\* The handlers run on, each controller's as in its own specification (part never changes, so
\* this is fairness of the one that runs, and of the PLIC's only what ServingGoesOn needs);
\* the hart takes a pending interrupt, unless exceptions mask it whenever it could.
Handlers ==
  /\ UNCHANGED part
  /\ \/ part = "timer" /\ Handler /\ UNCHANGED <<plicVars, clicVars, hartVars>>
     \/ part = "plic" /\ ~client.nested /\ Plic!Handling /\ UNCHANGED <<vars, clicVars, hartVars>>
     \/ part = "hart" /\ (Hart!Serve \/ Hart!Return) /\ UNCHANGED <<vars, plicVars, clicVars>>
Taking ==
  /\ part = "hart" /\ (\E i \in Hart!Ids : Hart!Interrupt(i))
  /\ UNCHANGED <<part, vars, plicVars, clicVars>>

SpecInterrupts ==
  InitInterrupts /\ [][NextInterrupts]_all /\ WF_all(Handlers) /\ SF_all(Taking)

-----------------------------------------------------------------------------
(* Properties: those of the controllers. *)

\* One hart at a time serves a source, whatever the handlers and the programs do to the
\* enables and thresholds (riscv_plic0.c:68-85).
ServedByOne == Plic!ServedByOne

\* The enable words are what the harts asked for, and a source with a handler has a priority
\* (riscv_plic0.c:58-105 and 165-208); what a hart enables has a handler, its tables keep the
\* CLINT, and it goes on at an instruction (riscv_cpu.c:453-549, 810-821).
EnabledAsAsked == Plic!EnabledAsAsked /\ Plic!NeverMute /\ Hart!Sound

\* A level is read back as it was set (sifive_clic0.c:85-172).
LevelsKept == Clic!LevelsKept

\* The program's handler runs, with its data, as long as the pointers beside the handlers are
\* the drivers' (sifive_clic0.c:448-455, riscv_cpu.c:168-206).
HandlerRuns == Clic!HandlerRuns /\ Hart!HandlerReached

\* While a device can interrupt a hart, handlers that leave the enables alone go on serving
\* (riscv_plic0.c:68-85), and a software interrupt is not left pending (riscv_clint0.c:211-243).
ServingGoesOn ==
  []<>(/\ part = "plic" /\ ~client.nested =>
            (\A i \in Id : ~Plic!Deliverable(i)) \/ halted \/ \E h \in Plic!Hart : isr[h].at = "end"
       /\ part = "hart" => Hart!IpiDone)

\* An exception reaches the handler that is registered for it (devguide/exceptions.rst:5-7).
ExceptionHandled == Hart!ExceptionHandled
===============================================================================
